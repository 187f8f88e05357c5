-------------------------- MODULE FileMutationQueue --------------------------
(***************************************************************************)
(* withFileMutationQueue of coding-agent/src/core/tools/                   *)
(* file-mutation-queue.ts: edits and writes of one file run one after      *)
(* another.  The key of a file is its real path if it exists and the given *)
(* path if not; looking it up is an await, so calls first register in a    *)
(* chain of their own, and then wait in the chain of their key.            *)
(***************************************************************************)
EXTENDS Naturals, Sequences

CONSTANTS
  Mutations,  \* calls of withFileMutationQueue
  Paths,
  PathOf,     \* the path of each call
  Real,       \* the real path of each path, once the file is there
  Present,    \* the files there are at first
  Nobody

ASSUME MutationAssumption ==
  /\ PathOf \in [Mutations -> Paths] /\ Real \in [Paths -> Paths]
  /\ Present \subseteq Paths
  /\ Nobody \notin Mutations

\* No file that is yet to be created is reached through a symbolic link.
Straight == \A p \in Paths : Real[p] = p \/ Real[p] \in Present

VARIABLES
  asked,       \* the calls in order: registrationQueue, and those that have left it
  registered,  \* how many have left it
  mutation,    \* the await each call is at
  key,         \* of each call: what getMutationQueueKey answered
  before,      \* of each call: whose chain its currentQueue is
  tails,       \* fileMutationQueues: whose chain is the last of a key
  files        \* the files there are

mutationVars == <<asked, registered, mutation, key, before, tails, files>>

MutationInit ==
  /\ asked = <<>> /\ registered = 0
  /\ mutation = [c \in Mutations |-> "new"]
  /\ key = [c \in Mutations |-> PathOf[c]]
  /\ before = [c \in Mutations |-> Nobody]
  /\ tails = [p \in Paths |-> Nobody]
  /\ files = Present

File(c) == Real[PathOf[c]]
Ended(c) == mutation[c] \in {"done", "rejected"}

Ask(c) ==
  /\ mutation[c] = "new"
  /\ mutation' = [mutation EXCEPT ![c] = "asked"]
  /\ asked' = Append(asked, c)
  /\ UNCHANGED <<registered, key, before, tails, files>>

Bug_IsNext(c) == mutation[c] = "asked"

\* registrationQueue.then: its turn comes when the registrations before it have settled.
IsNext(c) == registered < Len(asked) /\ asked[registered + 1] = c /\ mutation[c] = "asked"

\* getMutationQueueKey
FindKey(c) ==
  /\ IsNext(c)
  /\ key' = [key EXCEPT ![c] = IF File(c) \in files THEN File(c) ELSE PathOf[c]]
  /\ mutation' = [mutation EXCEPT ![c] = "keyed"]
  /\ UNCHANGED <<asked, registered, before, tails, files>>

Bug_KeyRejected(c) ==
  /\ IsNext(c)
  /\ mutation' = [mutation EXCEPT ![c] = "rejected"]
  /\ UNCHANGED <<asked, registered, key, before, tails, files>>

\* realpath fails for another reason than a missing path.
KeyRejected(c) ==
  /\ IsNext(c)
  /\ mutation' = [mutation EXCEPT ![c] = "rejected"]
  /\ registered' = registered + 1
  /\ UNCHANGED <<asked, key, before, tails, files>>

Register(c) ==
  /\ mutation[c] = "keyed"
  /\ before' = [before EXCEPT ![c] = tails[key[c]]]
  /\ tails' = [tails EXCEPT ![key[c]] = c]
  /\ mutation' = [mutation EXCEPT ![c] = "queued"]
  /\ registered' = registered + 1
  /\ UNCHANGED <<asked, key, files>>

\* Its currentQueue is resolved: fn() is called.
Run(c) ==
  /\ mutation[c] = "queued"
  /\ \A d \in Mutations : before[c] = d => mutation[d] = "done"
  /\ mutation' = [mutation EXCEPT ![c] = "running"]
  /\ UNCHANGED <<asked, registered, key, before, tails, files>>

\* fn() writes the file, which may be new.
Write(c) ==
  /\ mutation[c] = "running"
  /\ files' = files \cup {File(c)}
  /\ mutation' = [mutation EXCEPT ![c] = "written"]
  /\ UNCHANGED <<asked, registered, key, before, tails>>

\* The map keeps the chain of a call that came later.
Released(c) == [tails EXCEPT ![key[c]] = IF @ = c THEN Nobody ELSE @]

\* fn() returned, or rejected before or after it wrote.
Leave(c) ==
  /\ mutation[c] \in {"running", "written"}
  /\ mutation' = [mutation EXCEPT ![c] = "done"]
  /\ tails' = Released(c)
  /\ UNCHANGED <<asked, registered, key, before, files>>

MutationStep(c) == FindKey(c) \/ KeyRejected(c) \/ Register(c) \/ Run(c) \/ Leave(c)
MutationNext == \E c \in Mutations : Ask(c) \/ MutationStep(c) \/ Write(c)

MutationSpec == MutationInit /\ [][MutationNext]_mutationVars

\* The file system answers, and every fn() returns or rejects.
MutationFairness == \A c \in Mutations : WF_mutationVars(MutationStep(c))

(***************************************************************************)
(* Properties.                                                             *)
(***************************************************************************)
\* Of one file, a mutation runs only when every mutation asked for before it is over: "Serialize file
\* mutation operations targeting the same file", in the order of the calls, although their keys are
\* looked up at an await and the file may come to be in between.
InTurn == Straight =>
  \A i, j \in DOMAIN asked :
    (i < j /\ File(asked[i]) = File(asked[j]) /\ mutation[asked[j]] \in {"running", "written", "done"})
      => Ended(asked[i])

\* fileMutationQueues holds no chain of a call that is over: it is empty when nothing is going on.
NothingLeaks == \A p \in Paths : tails[p] # Nobody => ~Ended(tails[p])

\* Every mutation asked for comes to its end.
MutationEnds ==
  (\E c \in Mutations : mutation[c] = "asked") ~> (\A c \in Mutations : mutation[c] = "new" \/ Ended(c))
=============================================================================
