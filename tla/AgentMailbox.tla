---------------------------- MODULE AgentMailbox ----------------------------
(***************************************************************************)
(* What Agent (packages/agent/src/agent.ts) promises its user about        *)
(* messages.  Each message is sent once.  It waits in its lane, in order,  *)
(* until a run picks it up or the user takes it back, and only the user's  *)
(* own calls take anything back.  What a run has picked up it puts in the  *)
(* transcript, in order and before the model speaks again, unless a        *)
(* listener or a hook rejects just then: that, and nothing that still      *)
(* waits, may be lost.  A run concludes with agent_end and then retires.   *)
(***************************************************************************)
EXTENDS Naturals, SequencesExt

CONSTANT Msgs

VARIABLES
  phase,       \* "idle", "running" or "concluded"
  lanes,       \* the messages waiting in each lane
  hand,        \* what the run has picked up and not yet put in the transcript
  transcript,
  posted,      \* the messages sent so far
  takenBack,   \* the messages the user took back while they waited
  failures     \* how often a listener or a hook has rejected

vars == <<phase, lanes, hand, transcript, posted, takenBack, failures>>

Queues == {"steer", "followUp"}
Mail(via) == [role : {"user"}, id : Msgs, via : {via}]

Init ==
  /\ phase = "idle" /\ lanes = [l \in Queues |-> <<>>] /\ hand = <<>> /\ transcript = <<>>
  /\ posted = {} /\ takenBack = {} /\ failures = 0

\* Queue a message that was not sent before.
Post(l) ==
  /\ \E m \in Msgs \ posted :
       /\ lanes' = [lanes EXCEPT ![l] = Append(@, [role |-> "user", id |-> m, via |-> l])]
       /\ posted' = posted \cup {m}
  /\ UNCHANGED <<phase, hand, transcript, takenBack, failures>>

\* The user takes back what waits in a lane: takenBack says so.
Withdraw(l) ==
  /\ lanes' = [lanes EXCEPT ![l] = <<>>]
  /\ takenBack' = takenBack \cup ToSet(lanes[l])
  /\ UNCHANGED <<phase, hand, transcript, posted, failures>>

\* reset(): the transcript is emptied and all that waits is taken back.
Clear ==
  /\ transcript' = <<>> /\ lanes' = [l \in Queues |-> <<>>]
  /\ takenBack' = takenBack \cup ToSet(lanes["steer"]) \cup ToSet(lanes["followUp"])
  /\ UNCHANGED <<phase, hand, posted, failures>>

\* A run takes the front of a lane into its hand.
Takes(l) ==
  /\ hand = <<>> /\ hand' # <<>>
  /\ lanes[l] = hand' \o lanes'[l] /\ lanes' = [lanes EXCEPT ![l] = lanes'[l]]

\* The run's hand holds new messages, each of them once.
TakesPrompts ==
  /\ hand' \in Seq(Mail("prompt")) /\ IsInjective(hand')
  /\ \A i \in DOMAIN hand' : hand'[i].id \notin posted
  /\ posted' = posted \cup {hand'[i].id : i \in DOMAIN hand'}

\* Start a run on prompts, on what waits, or on the transcript as it is.
Start ==
  /\ phase = "idle" /\ phase' = "running" /\ UNCHANGED <<transcript, takenBack, failures>>
  /\ \/ TakesPrompts /\ UNCHANGED lanes
     \/ \E l \in Queues : Takes(l) /\ UNCHANGED posted
     \/ UNCHANGED <<lanes, hand, posted>>

PickUp(l) ==
  /\ phase = "running" /\ Takes(l)
  /\ UNCHANGED <<phase, transcript, posted, takenBack, failures>>

Deliver ==
  /\ phase = "running" /\ hand # <<>>
  /\ transcript' = Append(transcript, Head(hand)) /\ hand' = Tail(hand)
  /\ UNCHANGED <<phase, lanes, posted, takenBack, failures>>

\* The model or a tool adds to the transcript; a run that failed does so even after agent_end.
Speak ==
  /\ phase = "running" \/ (failures > 0 /\ phase = "concluded")
  /\ hand = <<>>
  /\ Len(transcript') = Len(transcript) + 1 /\ IsPrefix(transcript, transcript')
  /\ transcript'[Len(transcript')].role # "user"
  /\ UNCHANGED <<phase, lanes, hand, posted, takenBack, failures>>

Conclude ==
  /\ phase = "running" /\ phase' = "concluded" /\ hand = <<>>
  /\ UNCHANGED <<lanes, hand, transcript, posted, takenBack, failures>>

Retire ==
  /\ phase = "concluded" /\ phase' = "idle"
  /\ UNCHANGED <<lanes, hand, transcript, posted, takenBack, failures>>

\* Between runs a failed reply may be dropped, to be tried again.
Retry ==
  /\ phase = "idle" /\ transcript # <<>> /\ transcript[Len(transcript)].role = "assistant"
  /\ transcript' = SubSeq(transcript, 1, Len(transcript) - 1)
  /\ UNCHANGED <<phase, lanes, hand, posted, takenBack, failures>>

\* A listener or a hook rejects: the run may drop what it has in hand, and may end.
Fail ==
  /\ failures' = failures + 1 /\ phase' \in {phase, "idle"} /\ hand' \in {hand, <<>>}
  /\ UNCHANGED <<lanes, transcript, posted, takenBack>>

Next ==
  \/ \E l \in Queues : Post(l) \/ Withdraw(l) \/ PickUp(l)
  \/ Clear \/ Start \/ Deliver \/ Speak \/ Conclude \/ Retire \/ Retry \/ Fail

Spec == Init /\ [][Next]_vars
=============================================================================
