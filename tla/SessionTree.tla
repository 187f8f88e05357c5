---------------------------- MODULE SessionTree ----------------------------
(***************************************************************************)
(* A session of the agent harness over its JSONL file:                     *)
(* packages/agent/src/harness/session/session.ts and jsonl-storage.ts.     *)
(*                                                                         *)
(* An append reads a fresh id, then the leaf, then writes its line, and    *)
(* only then enters memory; each comma is an await at which other calls    *)
(* go on.  The process may crash, which forgets memory and may cut the     *)
(* line being written, and the file may be opened again.                   *)
(*                                                                         *)
(* An entry is its id, its parent, and for a leaf entry its target; all    *)
(* append* methods of Session differ in nothing that is modelled.          *)
(***************************************************************************)
EXTENDS Naturals, Sequences, FiniteSets

CONSTANTS
  Calls,        \* the calls of append* and moveTo that are made
  Root,         \* the parent of first entries: null
  Undefined,    \* the target of an entry that is not a leaf entry
  MaxInFlight,  \* bound: calls in flight; 1 when every caller awaits its call
  MaxWindows,   \* bound: changes of the first 32 bits of uuidv7's timestamp
  MaxCrashes,   \* bound: crashes
  MaxFaults,    \* bound: writes that fail
  Cuts          \* what a cut-off write may leave, a subset of {"cut", "open"}

ASSUME SessionAssumption ==
  /\ {MaxInFlight, MaxWindows, MaxCrashes, MaxFaults} \subseteq Nat
  /\ Cuts \subseteq {"cut", "open"}
  /\ IsFiniteSet(Calls)

\* The first eight digits of a uuidv7, the same for all of a window of 65 seconds, or all of it.
Short(w) == <<"short", w>>
Full(n)  == <<"full", n>>
Ids      == {"short", "full"} \X Nat

Kinds == {"append", "leaf", "summary"}
Nodes == Ids \cup {Root}
Entry == {e \in [kind : Kinds, id : Ids, parent : Nodes, target : Nodes \cup {Undefined}, by : Calls] :
            e.kind = "leaf" => e.target \in Nodes}

VARIABLES
  file,     \* the lines after the header: an entry and how its line ends
  entries,  \* JsonlSessionStorage.entries, byId
  leaf,     \* currentLeafId
  state,    \* "open", "closed" after a crash, "unreadable" if open() rejected
  pc,       \* of each call: the await it is at
  draft,    \* of each call: the entry it is writing
  summary,  \* of each call: whether moveTo was given a summary
  window, uuids, crashes, faults

mem  == <<entries, leaf, state>>
vars == <<file, mem, pc, draft, summary, window, uuids, crashes, faults>>

NoEntry == [kind |-> "none"]
Init ==
  /\ file = <<>> /\ entries = <<>> /\ leaf = Root /\ state = "open"
  /\ pc = [c \in Calls |-> "new"] /\ draft = [c \in Calls |-> NoEntry]
  /\ summary = [c \in Calls |-> FALSE]
  /\ window = 0 /\ uuids = 0 /\ crashes = 0 /\ faults = 0

InFlight == {c \in Calls : pc[c] \in {"id", "write", "written", "summary"}}
May(c)   == state = "open" /\ pc[c] = "new" /\ Cardinality(InFlight) < MaxInFlight

Known(s)        == {s[i].id : i \in DOMAIN s}

\* Bug: every entry is taken for a leaf entry.
LeafAfter(e)    == IF e.kind = "leaf" THEN e.target ELSE e.id
LeafOf(s)       == IF s = <<>> THEN Root ELSE LeafAfter(s[Len(s)])

\* Bug: generateEntryId does not look whether the id is taken.
\* generateEntryId: short unless taken, since a hundred short ones in a row are the same.
NewId == IF Short(window) \in Known(entries) THEN Full(uuids) ELSE Short(window)

\* Bug: getLeafId answers the last entry, whatever it is.
Bug_CurrentLeaf == IF entries = <<>> THEN Root ELSE entries[Len(entries)].id

\* What getLeafId answers.
CurrentLeaf == leaf

\* Bug: moveTo takes ids that are only reserved.
Bug_Targets == Known(entries) \cup {Root} \cup {draft[d].id : d \in InFlight}

\* What moveTo takes; it throws for the rest.
Targets == Known(entries) \cup {Root}

(***************************************************************************)
(* Session.append*: createEntryId, getLeafId, appendEntry.                 *)
(***************************************************************************)
CreateEntryId(c) ==
  /\ May(c)
  /\ draft' = [draft EXCEPT ![c] =
       [kind |-> "append", id |-> NewId, parent |-> Root, target |-> Undefined, by |-> c]]
  /\ uuids' = uuids + 1
  /\ pc' = [pc EXCEPT ![c] = "id"]
  /\ UNCHANGED <<file, mem, summary, window, crashes, faults>>

ReadLeaf(c) ==
  /\ pc[c] = "id"
  /\ draft' = [draft EXCEPT ![c].parent = CurrentLeaf]
  /\ pc' = [pc EXCEPT ![c] = "write"]
  /\ UNCHANGED <<file, mem, summary, window, uuids, crashes, faults>>

\* moveTo, after its target was found: setLeafId makes the leaf entry at once.
MoveTo(c) == \E target \in Targets, summarize \in BOOLEAN :
  /\ May(c)
  /\ draft' = [draft EXCEPT ![c] =
       [kind |-> "leaf", id |-> NewId, parent |-> leaf, target |-> target, by |-> c]]
  /\ summary' = [summary EXCEPT ![c] = summarize]
  /\ uuids' = uuids + 1
  /\ pc' = [pc EXCEPT ![c] = "write"]
  /\ UNCHANGED <<file, mem, window, crashes, faults>>

\* moveTo goes on to the summary, whose parent is the target.
SummaryId(c) ==
  /\ pc[c] = "summary"
  /\ draft' = [draft EXCEPT ![c] =
       [@ EXCEPT !.kind = "summary", !.id = NewId, !.parent = draft[c].target,
                !.target = Undefined]]
  /\ uuids' = uuids + 1
  /\ pc' = [pc EXCEPT ![c] = "write"]
  /\ UNCHANGED <<file, mem, summary, window, crashes, faults>>

(***************************************************************************)
(* appendFile, and what follows it in appendEntry and setLeafId.           *)
(***************************************************************************)
Line(e, end) == [entry |-> e, end |-> end]

\* Bug: memory is updated before the line is in the file.
Bug_CommitFirst(c) ==
  /\ pc[c] = "write"
  /\ entries' = Append(entries, draft[c]) /\ leaf' = LeafAfter(draft[c])
  /\ pc' = [pc EXCEPT ![c] = "done"]
  /\ UNCHANGED <<file, state, draft, summary, window, uuids, crashes, faults>>

LineWritten(c) ==
  /\ pc[c] = "write"
  /\ file' = Append(file, Line(draft[c], "newline"))
  /\ pc' = [pc EXCEPT ![c] = "written"]
  /\ UNCHANGED <<mem, draft, summary, window, uuids, crashes, faults>>

\* What a write that does not complete leaves of its line: nothing, or part of it.
Leftover(c) ==
  file' \in {file} \cup {Append(file, Line(draft[c], end)) : end \in Cuts}

WriteFails(c) ==
  /\ pc[c] = "write"
  /\ faults < MaxFaults /\ faults' = faults + 1
  /\ Leftover(c)
  /\ pc' = [pc EXCEPT ![c] = "rejected"]
  /\ UNCHANGED <<mem, draft, summary, window, uuids, crashes>>

Commit(c) ==
  /\ pc[c] = "written"
  /\ entries' = Append(entries, draft[c]) /\ leaf' = LeafAfter(draft[c])
  /\ pc' = [pc EXCEPT ![c] = IF draft[c].kind = "leaf" /\ summary[c] THEN "summary" ELSE "done"]
  /\ UNCHANGED <<file, state, draft, summary, window, uuids, crashes, faults>>

(***************************************************************************)
(* The clock, crashes and opening the file again.                          *)
(***************************************************************************)
Tick ==
  /\ window < MaxWindows /\ window' = window + 1
  /\ UNCHANGED <<file, mem, pc, draft, summary, uuids, crashes, faults>>

Crash ==
  /\ state = "open" /\ state' = "closed"
  /\ crashes < MaxCrashes /\ crashes' = crashes + 1
  /\ \/ UNCHANGED file
     \/ \E c \in Calls : pc[c] = "write" /\ Leftover(c)
  /\ entries' = <<>> /\ leaf' = Root
  /\ pc' = [c \in Calls |-> IF c \in InFlight THEN "lost" ELSE pc[c]]
  /\ UNCHANGED <<draft, summary, window, uuids, faults>>

\* Every line is JSON on a line of its own; only the last may lack its newline.
Readable(f) ==
  \A i \in DOMAIN f : f[i].end = "newline" \/ (f[i].end = "open" /\ i = Len(f))

Parsed(f) == [i \in DOMAIN f |-> f[i].entry]

\* Bug: loadJsonlStorage takes the last line's id for the leaf.
Bug_LeafIsLastId(f) ==
  /\ entries' = Parsed(f)
  /\ leaf' = IF f = <<>> THEN Root ELSE f[Len(f)].entry.id

Load(f) == entries' = Parsed(f) /\ leaf' = LeafOf(Parsed(f))

Open ==
  /\ state = "closed"
  /\ IF Readable(file) THEN Load(file) /\ state' = "open"
                       ELSE state' = "unreadable" /\ UNCHANGED <<entries, leaf>>
  /\ UNCHANGED <<file, pc, draft, summary, window, uuids, crashes, faults>>

Next ==
  \/ \E c \in Calls : CreateEntryId(c) \/ ReadLeaf(c) \/ MoveTo(c) \/ SummaryId(c)
                      \/ LineWritten(c) \/ WriteFails(c) \/ Commit(c)
  \/ Tick \/ Crash \/ Open

Spec == Init /\ [][Next]_vars

(***************************************************************************)
(* Properties.                                                             *)
(***************************************************************************)
PCs == {"new", "id", "write", "written", "summary", "done", "rejected", "lost"}

\* A call past its first await has an entry in hand, and no call outlives its process.
CallTypeOK ==
  /\ pc \in [Calls -> PCs] /\ draft \in [Calls -> Entry \cup {NoEntry}]
  /\ \A c \in InFlight : draft[c] \in Entry
  /\ \A c \in Calls : pc[c] = "summary" => draft[c].kind = "leaf"
  /\ (InFlight # {} => state = "open")

\* Every variable has its type; a leaf entry, and nothing else, moves the leaf to its target.
TypeOK ==
  /\ CallTypeOK
  /\ file \in Seq([entry : Entry, end : {"newline", "cut", "open"}])
  /\ entries \in Seq(Entry) /\ leaf \in Nodes
  /\ state \in {"open", "closed", "unreadable"}
  /\ summary \in [Calls -> BOOLEAN]
  /\ window \in Nat /\ uuids \in Nat /\ crashes \in Nat /\ faults \in Nat

\* getLeafId and getPathToRoot never meet an id they do not know: not after a crash, not with
\* any number of calls in flight.
PathsResolve ==
  state = "open" =>
    /\ leaf \in Known(entries) \cup {Root}
    /\ \A i \in DOMAIN entries : entries[i].parent \in Known(entries) \cup {Root}

\* A call that has answered is in the file for good, and in memory whenever the session is open.
AnsweredIsKept == \A c \in Calls : pc[c] = "done" =>
  /\ \E i \in DOMAIN file : file[i] = Line(draft[c], "newline")
  /\ state = "open" => \E i \in DOMAIN entries : entries[i] = draft[c]

\* When nothing is being written, memory is what opening the file again would build.
MemoryIsFile ==
  state = "open" /\ (\A c \in Calls : pc[c] # "written") =>
    entries = Parsed(file) /\ leaf = LeafOf(Parsed(file))

\* The entry getPathToRoot goes to from an id: the last one with this id, in byId.
ById(id) == entries[CHOOSE i \in DOMAIN entries :
              entries[i].id = id /\ \A j \in DOMAIN entries : entries[j].id = id => j <= i]

\* The k-th ancestor of an id.
Ancestor(id, k) ==
  LET up[n \in 0..k] == IF n = 0 THEN id
                        ELSE IF up[n-1] = Root THEN Root ELSE ById(up[n-1]).parent
  IN up[k]

\* "Session entries form a tree structure via id/parentId fields": ids are unique and every
\* path ends at the root.
EntriesFormTree ==
  /\ \A i, j \in DOMAIN entries : entries[i].id = entries[j].id => i = j
  /\ \A i \in DOMAIN entries : Ancestor(entries[i].id, Len(entries)) = Root

\* Calls made one after another, with crashes and failing writes between and during them,
\* leave a log in which every line continues the branch of the line before.
Log       == INSTANCE SessionLog WITH log <- Parsed(file)
FileIsLog == Log!Spec
=============================================================================
