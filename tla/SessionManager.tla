--------------------------- MODULE SessionManager ---------------------------
(***************************************************************************)
(* The session files of the coding agent                                   *)
(* (coding-agent/src/core/session-manager.ts, and the sessions that        *)
(* agent-session-runtime.ts replaces by others).  Entries are kept in      *)
(* memory until the first reply, then written at once and one by one; all  *)
(* calls are synchronous.  A write may fail at any byte, and the process   *)
(* may be killed and a file opened again at any time.                      *)
(***************************************************************************)
EXTENDS Naturals, SequencesExt, FiniteSetsExt

CONSTANTS
  SessionFiles,    \* names of session files
  MaxIds,          \* bound on the entries appended
  MaxOfType,       \* bound on the entries of each type in a session
  MaxDetours       \* bound on the moves of the leaf and the writes that fail

VARIABLES
  fileEntries,  \* of the session that is open, without its header
  leafId,       \* 0: before the first entry
  flushed,
  sessionFile,
  disk,         \* the files there are: their lines, and whether the last one lacks its newline
  lastId,
  damaged,      \* files of which a write failed since they were opened, or that lack a newline
  detours

sessionVars == <<fileEntries, leafId, flushed, sessionFile, disk, lastId, damaged, detours>>

\* ref: the target of a label, the first entry that a compaction keeps.
NewEntry(id, parent, type, ref) == [id |-> id, parent |-> parent, type |-> type, ref |-> ref]
Header == NewEntry(0, 0, "session", 0)
Garbled == NewEntry(0, 0, "malformed", 0)

IsLabel(e) == e.type \in {"label", "unlabel"}
Ids(es) == {es[i].id : i \in DOMAIN es}
HasAssistant(es) == \E i \in DOMAIN es : es[i].type = "assistant"

SessionInit ==
  /\ fileEntries = <<>> /\ leafId = 0 /\ flushed = FALSE
  /\ sessionFile \in SessionFiles /\ disk = <<>>
  /\ lastId = 0 /\ damaged = {} /\ detours = 0

(***************************************************************************)
(* Reading: getBranch, buildSessionContext, loadEntriesFromFile.           *)
(***************************************************************************)
\* The elements of s at the places of I, in their order.
Chosen(s, I) ==
  LET chosen[n \in 0..Len(s)] ==
        IF n = 0 THEN <<>> ELSE IF n \in I THEN Append(chosen[n - 1], s[n]) ELSE chosen[n - 1]
  IN chosen[Len(s)]

\* A parent comes before its children in fileEntries.
getBranch(es, id) ==
  LET walk[n \in 0..Len(es)] ==
        IF n = 0 THEN [path |-> <<>>, next |-> id]
        ELSE LET w == walk[n - 1]
                 e == es[Len(es) - n + 1]
             IN IF e.id = w.next THEN [path |-> <<e>> \o w.path, next |-> e.parent] ELSE w
  IN walk[Len(es)].path

\* The entries on a path whose messages the model gets.
SessionContext(path) ==
  LET last  == Max({0} \cup {i \in DOMAIN path : path[i].type = "compaction"})
      first == {i \in 1..(last - 1) : path[i].id = path[last].ref}
      from  == IF last = 0 THEN 1 ELSE IF first = {} THEN last ELSE Min(first)
      shown == Chosen(path, {i \in from..Len(path) : path[i].type \in {"user", "assistant", "branch_summary"}})
  IN [summary |-> IF last = 0 THEN 0 ELSE path[last].id, messages |-> [i \in DOMAIN shown |-> shown[i].id]]

Labelled(es) == {t \in Ids(es) : \E i \in DOMAIN es :
  /\ es[i].type = "label" /\ es[i].ref = t
  /\ \A j \in (i + 1)..Len(es) : ~(IsLabel(es[j]) /\ es[j].ref = t)}

\* Malformed lines are skipped; a file without a header is taken for an empty one.
Parsed(file) == Chosen(file.lines, {i \in DOMAIN file.lines : file.lines[i].type # "malformed"})
HasHeader(file) == Parsed(file) # <<>> /\ Head(Parsed(file)).type = "session"
LoadedEntries(file) == IF HasHeader(file) THEN Tail(Parsed(file)) ELSE <<>>

(***************************************************************************)
(* Writing.                                                                *)
(***************************************************************************)
EndedLines(lines) == [lines |-> lines, open |-> FALSE]
NoFile == EndedLines(<<>>)
FileAt(f) == IF f \in DOMAIN disk THEN disk[f] ELSE NoFile

\* Text after a line without its newline joins that line, which is no JSON then.
Written(file, lines) ==
  IF file.open /\ lines # <<>>
  THEN EndedLines(Front(file.lines) \o <<Garbled>> \o Tail(lines))
  ELSE [lines |-> file.lines \o lines, open |-> file.open /\ lines = <<>>]

\* What a write leaves that fails: whole lines, then part of one or all of it but the newline.
Cut(file, lines) ==
  {Written(file, SubSeq(lines, 1, n)) : n \in 0..(Len(lines) - 1)} \cup
  {[Written(file, SubSeq(lines, 1, n)) EXCEPT !.open = TRUE] : n \in DOMAIN lines} \cup
  {[Written(file, Append(SubSeq(lines, 1, n - 1), Garbled)) EXCEPT !.open = TRUE] : n \in DOMAIN lines}

Stored(f, file) == disk' = [g \in DOMAIN disk \cup {f} |-> IF g = f THEN file ELSE disk[g]]

Detour == detours < MaxDetours /\ detours' = detours + 1

\* A write of lines to f after what file holds, and whether it succeeds.
WriteLines(f, file, lines, ok) ==
  IF ok
  THEN Stored(f, Written(file, lines)) /\ UNCHANGED <<damaged, detours>>
  ELSE /\ Detour
       /\ damaged' = damaged \cup {f}
       /\ UNCHANGED disk \/ \E cut \in Cut(file, lines) : Stored(f, cut)

\* _persist: the file is created with the first reply, and must not exist before; what a failed
\* attempt has left of it makes every later one fail.
persist(es, ok) ==
  CASE flushed -> WriteLines(sessionFile, FileAt(sessionFile), <<Last(es)>>, ok) /\ UNCHANGED flushed
    [] ~flushed /\ HasAssistant(es) /\ sessionFile \notin DOMAIN disk ->
         WriteLines(sessionFile, NoFile, <<Header>> \o es, ok) /\ flushed' = ok
    [] OTHER -> ok /\ UNCHANGED <<disk, damaged, detours, flushed>>

AnotherEntry(type) ==
  /\ lastId < MaxIds
  /\ Cardinality({i \in DOMAIN fileEntries : fileEntries[i].type = type}) < MaxOfType[type]

\* _appendEntry: memory has the entry even if the write fails.
appendEntry(parent, type, ref) ==
  LET es == Append(fileEntries, NewEntry(lastId + 1, parent, type, ref))
  IN /\ AnotherEntry(type)
     /\ lastId' = lastId + 1
     /\ fileEntries' = es
     /\ leafId' = lastId + 1
     /\ \E ok \in BOOLEAN : persist(es, ok)
     /\ UNCHANGED sessionFile

\* appendMessage; an entry of an extension or a change of model is chained and kept like a message.
AppendMessage(role) == appendEntry(leafId, role, 0)
AppendLabelChange(target, type) ==
  target \in Ids(fileEntries) /\ appendEntry(leafId, type, target)

\* findCutPoint: from a message or a summary it goes back to the message or compaction before it; the
\* entries between, labels among them, are kept.
FirstKept(path) ==
  LET ends == {0} \cup {i \in DOMAIN path : path[i].type \in {"user", "assistant", "compaction"}}
      cuts == {i \in DOMAIN path : path[i].type \in {"user", "assistant", "branch_summary"}}
  IN {path[Max({i \in ends : i < cut}) + 1].id : cut \in cuts}

RecordCompaction == \E kept \in FirstKept(getBranch(fileEntries, leafId)) :
  appendEntry(leafId, "compaction", kept)

Branch(id) ==
  /\ id \in (Ids(fileEntries) \cup {0}) \ {leafId} /\ Detour
  /\ leafId' = id
  /\ UNCHANGED <<fileEntries, flushed, sessionFile, disk, lastId, damaged>>

BranchWithSummary(id) == id \in Ids(fileEntries) \cup {0} /\ appendEntry(id, "branch_summary", 0)

(***************************************************************************)
(* Replacing the session.                                                  *)
(***************************************************************************)
UnusedFiles == SessionFiles \ (DOMAIN disk \cup damaged \cup {sessionFile})

Adopt(f, es, saved) ==
  /\ sessionFile' = f /\ fileEntries' = es /\ flushed' = saved
  /\ leafId' = IF es = <<>> THEN 0 ELSE Last(es).id

NewSession ==
  /\ \E f \in UnusedFiles : Adopt(f, <<>>, FALSE)
  /\ UNCHANGED <<disk, lastId, damaged, detours>>

\* setSessionFile: a file without a header is started afresh.
Reopened(file) == IF HasHeader(file) THEN file ELSE EndedLines(<<Header>>)

\* The session, or another one, is opened; so it is when the process was killed.
OpenSession(f) ==
  /\ f \in DOMAIN disk
  /\ Adopt(f, LoadedEntries(disk[f]), TRUE)
  /\ Stored(f, Reopened(disk[f]))
  /\ damaged' = IF Reopened(disk[f]).open THEN damaged ELSE damaged \ {f}
  /\ UNCHANGED <<lastId, detours>>

\* The header cannot be written again: the session that was open stays, or the process ends.
OpenFails(f) ==
  /\ f \in DOMAIN disk /\ ~HasHeader(disk[f])
  /\ \E cut \in Cut(NoFile, <<Header>>) : Stored(f, cut)
  /\ damaged' = damaged \cup {f}
  /\ UNCHANGED <<fileEntries, leafId, flushed, sessionFile, lastId, detours>>

Bug_Rechained(path) == path

\* Labels are entries that others descend from: without them the path is chained again ...
Rechained(path) ==
  [i \in DOMAIN path |-> [path[i] EXCEPT !.parent = IF i = 1 THEN 0 ELSE path[i - 1].id]]

\* ... and the labels its entries have are put at its end.
Forked(es, id) ==
  LET path    == getBranch(es, id)
      kept    == Chosen(path, {i \in DOMAIN path : ~IsLabel(path[i])})
      targets == Chosen([n \in 1..lastId |-> n], Labelled(es) \cap Ids(kept))
      end     == IF kept = <<>> THEN 0 ELSE Last(kept).id
  IN Rechained(kept) \o
     [n \in DOMAIN targets |->
        NewEntry(lastId + n, IF n = 1 THEN end ELSE lastId + n - 1, "label", targets[n])]

\* fork: the file is opened again, and createBranchedSession makes another one of a path, unless it
\* holds no reply.  If that fails the session stays open.
Fork(id) ==
  /\ id \in Ids(fileEntries) /\ sessionFile \in DOMAIN disk
  /\ id \in Ids(LoadedEntries(disk[sessionFile]))
  /\ LET es == Forked(LoadedEntries(disk[sessionFile]), id)
     IN \E f \in UnusedFiles :
          /\ Max({0} \cup Ids(es)) <= MaxIds
          /\ lastId' = Max({lastId} \cup Ids(es))
          /\ \/ /\ Adopt(f, es, HasAssistant(es))
                /\ IF HasAssistant(es)
                   THEN WriteLines(f, NoFile, <<Header>> \o es, TRUE)
                   ELSE UNCHANGED <<disk, damaged, detours>>
             \/ /\ HasAssistant(es) /\ WriteLines(f, NoFile, <<Header>> \o es, FALSE)
                /\ UNCHANGED <<fileEntries, leafId, flushed, sessionFile>>

\* fork of a session whose file has no header: the file is started afresh, and no entry is found.
ForkNothing ==
  /\ fileEntries # <<>> /\ sessionFile \in DOMAIN disk /\ ~HasHeader(disk[sessionFile])
  /\ Stored(sessionFile, Reopened(disk[sessionFile]))
  /\ UNCHANGED <<fileEntries, leafId, flushed, sessionFile, lastId, damaged, detours>>

\* forkFrom: all of a file is copied, and the copy opened.
ForkFrom(g) ==
  /\ g \in DOMAIN disk /\ HasHeader(disk[g])
  /\ \E f \in UnusedFiles :
       /\ WriteLines(f, NoFile, <<Header>> \o LoadedEntries(disk[g]), TRUE)
       /\ Adopt(f, LoadedEntries(disk[g]), TRUE)
  /\ UNCHANGED lastId

SessionNext ==
  \/ \E role \in {"user", "assistant"} : AppendMessage(role)
  \/ RecordCompaction
  \/ \E target \in 1..MaxIds : AppendLabelChange(target, "label") \/ AppendLabelChange(target, "unlabel")
  \/ \E id \in 0..MaxIds : Branch(id) \/ BranchWithSummary(id) \/ Fork(id)
  \/ NewSession \/ ForkNothing
  \/ \E f \in SessionFiles : OpenSession(f) \/ OpenFails(f) \/ ForkFrom(f)

SessionSpec == SessionInit /\ [][SessionNext]_sessionVars

(***************************************************************************)
(* Properties.                                                             *)
(***************************************************************************)
\* Unless a write has failed, opening the file gives what is in memory; before the first reply there
\* is no file, and nothing that would be in it but messages nobody has answered.
Restorable == sessionFile \notin damaged =>
  IF flushed
  THEN sessionFile \in DOMAIN disk /\ LoadedEntries(disk[sessionFile]) = fileEntries
  ELSE sessionFile \notin DOMAIN disk /\ ~HasAssistant(fileEntries)

\* What a session file holds stays in it, whatever is branched, forked, opened or resumed.
Grown == \A f \in DOMAIN disk \ (damaged \cup damaged') : IsPrefix(disk[f].lines, disk'[f].lines)

\* The last compaction keeps what follows a label.
KeepsFromLabel(path) == \E i, j \in DOMAIN path :
  /\ path[i].type = "compaction" /\ \A h \in DOMAIN path : path[h].type = "compaction" => h <= i
  /\ IsLabel(path[j]) /\ path[j].id = path[i].ref

\* A fork has the context and the labels of the path it was made of; when the last compaction keeps from
\* a label on, only the labels: the fork has another entry for it, and keeps no message before the
\* compaction.
SamePath(id) ==
  LET es   == LoadedEntries(disk[sessionFile])
      path == getBranch(es, id)
  IN /\ Labelled(fileEntries') = Labelled(es) \cap {e.id : e \in {x \in ToSet(path) : ~IsLabel(x)}}
     /\ KeepsFromLabel(path) \/ SessionContext(getBranch(fileEntries', leafId')) = SessionContext(path)

\* Sessions survive: a restart, an opened or forked session, and a label in the middle of a path.
SessionSurvives ==
  /\ []Restorable
  /\ [][Grown /\ \A id \in 1..MaxIds : (sessionFile' # sessionFile /\ Fork(id)) => SamePath(id)]_sessionVars
=============================================================================
