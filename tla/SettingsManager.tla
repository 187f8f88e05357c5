--------------------------- MODULE SettingsManager ---------------------------
(***************************************************************************)
(* SettingsManager of coding-agent/src/core/settings-manager.ts, and       *)
(* FileSettingsStorage below it: a process keeps the settings in memory    *)
(* and the set of fields it modified; a save queues a snapshot of both,    *)
(* and the write merges the modified fields into what the file holds then. *)
(* Several processes share the files.  A field stands for a top-level      *)
(* field, or for a nested key of one (both are merged the same way).       *)
(***************************************************************************)
EXTENDS Naturals, Sequences

CONSTANTS
  Processes,
  Fields,
  ScopeOf,   \* the file it is in: "global" or "project"
  MaxSets    \* bound: settings made; the n-th is given the value n, and 0 is a field that is not there

Scopes == {"global", "project"}

ASSUME SettingsAssumption == ScopeOf \in [Fields -> Scopes] /\ MaxSets \in Nat

VARIABLES
  settings,   \* of each process: globalSettings and projectSettings
  modified,   \* modifiedFields and modifiedProjectFields
  loadErrors, \* globalSettingsLoadError and projectSettingsLoadError
  trusted,    \* projectTrusted
  writes,     \* writeQueue
  reloading,  \* 0, or 1 + the writes reload() still awaits
  draft,      \* <<>>, or what a write to a missing file is about to create it with
  contents,   \* what the files hold
  missing,    \* the scopes whose file is not there
  broken,     \* the scopes whose file is not JSON at the moment
  broke,      \* a file was broken
  sets,       \* how many settings were made
  made,       \* history: the values each process set
  saved,      \* history: the values that were in the files
  dropped     \* history: the values of failed writes whose fields were not marked any more

settingsFiles   == <<contents, missing, broken, broke>>
settingsHistory == <<made, saved, dropped>>
settingsVars == <<settings, modified, loadErrors, trusted, writes, reloading, draft, settingsFiles, sets,
                  settingsHistory>>

In(s) == {f \in Fields : ScopeOf[f] = s}
NoSettings == [f \in Fields |-> 0]

SettingsInit ==
  /\ settings = [p \in Processes |-> NoSettings]
  /\ modified = [p \in Processes |-> {}] /\ loadErrors = [p \in Processes |-> {}]
  /\ trusted = [p \in Processes |-> TRUE]
  /\ writes = [p \in Processes |-> <<>>]
  /\ reloading = [p \in Processes |-> 0]
  /\ draft = [p \in Processes |-> <<>>]
  /\ contents = NoSettings /\ missing = Scopes
  /\ broken = {} /\ broke = FALSE
  /\ sets = 0
  /\ made = [p \in Processes |-> {}] /\ saved = {} /\ dropped = {}

\* save and saveProjectSettings, by a setter of any process: what cannot be loaded is not written.
Set(p, f) ==
  LET s == ScopeOf[f]
      now == [settings[p] EXCEPT ![f] = sets + 1]
      fields == modified[p] \cup {f}
  IN /\ sets < MaxSets /\ draft[p] = <<>>
     /\ s = "project" => trusted[p]
     /\ sets' = sets + 1 /\ made' = [made EXCEPT ![p] = @ \cup {sets'}]
     /\ settings' = [settings EXCEPT ![p] = now]
     /\ modified' = [modified EXCEPT ![p] = fields]
     /\ writes' = [writes EXCEPT ![p] =
          IF s \in loadErrors[p] THEN @
          ELSE Append(@, [scope |-> s, snapshot |-> now, fields |-> fields \cap In(s)])]
     /\ UNCHANGED <<loadErrors, trusted, reloading, draft, settingsFiles, saved, dropped>>

\* persistScopedSettings
Merged(w, current) == [f \in Fields |-> IF f \in w.fields THEN w.snapshot[f] ELSE current[f]]

\* The next link of writeQueue, whether its task succeeded or not.
Done(p) ==
  /\ writes' = [writes EXCEPT ![p] = Tail(@)]
  /\ reloading' = [reloading EXCEPT ![p] = IF @ > 1 THEN @ - 1 ELSE @]

Bug_Permitted(p, w) == draft[p] = <<>>

\* assertProjectTrustedForWrite
Permitted(p, w) == draft[p] = <<>> /\ (w.scope = "project" => trusted[p])

\* clearModifiedScope
Cleared(p, w) ==
  /\ modified' = [modified EXCEPT ![p] = @ \ In(w.scope)]
  /\ Done(p)

Puts(new) == contents' = new /\ saved' = saved \cup {new[f] : f \in Fields}

Readable(s) == s \notin missing \cup broken

\* The file is locked, read, merged and written in one go.
WriteExisting(p) ==
  /\ writes[p] # <<>>
  /\ LET w == Head(writes[p])
     IN /\ Permitted(p, w)
        /\ Readable(w.scope)
        /\ Puts(Merged(w, contents))
        /\ Cleared(p, w)
  /\ UNCHANGED <<settings, loadErrors, trusted, draft, missing, broken, broke, sets, made, dropped>>

\* There is no file to lock: what it will hold is made before the lock is taken ...
FindNone(p) ==
  /\ writes[p] # <<>>
  /\ LET w == Head(writes[p])
     IN /\ Permitted(p, w)
        /\ w.scope \in missing
        /\ draft' = [draft EXCEPT ![p] = <<Merged(w, NoSettings)>>]
  /\ UNCHANGED <<settings, modified, loadErrors, trusted, writes, reloading, settingsFiles, sets, settingsHistory>>

\* ... and written, even over a file another process has created since.
Create(p) ==
  /\ draft[p] # <<>>
  /\ LET w == Head(writes[p])
     IN /\ Puts([f \in Fields |-> IF f \in In(w.scope) THEN draft[p][1][f] ELSE contents[f]])
        /\ missing' = missing \ {w.scope}
        /\ broken' = broken \ {w.scope}
        /\ Cleared(p, w)
  /\ draft' = [draft EXCEPT ![p] = <<>>]
  /\ UNCHANGED <<settings, loadErrors, trusted, broke, sets, made, dropped>>

Unmarked(p, w) == {w.snapshot[f] : f \in w.fields \ modified[p]}

Bug_WriteFails(p) ==
  /\ writes[p] # <<>>
  /\ Cleared(p, Head(writes[p]))
  /\ dropped' = dropped \cup Unmarked(p, Head(writes[p]))
  /\ draft' = [draft EXCEPT ![p] = <<>>]
  /\ UNCHANGED <<settings, loadErrors, trusted, settingsFiles, sets, made, saved>>

\* The project is not trusted any more, the file is not JSON, or cannot be locked or written: the
\* error is recorded.  A field whose mark an earlier write cleared stays unmarked.
WriteFails(p) ==
  /\ writes[p] # <<>>
  /\ Done(p)
  /\ dropped' = dropped \cup Unmarked(p, Head(writes[p]))
  /\ draft' = [draft EXCEPT ![p] = <<>>]
  /\ UNCHANGED <<settings, modified, loadErrors, trusted, settingsFiles, sets, made, saved>>

\* loadFromStorage and tryLoadFromStorage: a file is not JSON, or another process has its lock for long.
Ignored(s, trust)   == s = "project" /\ ~trust
Unread(trust, busy) == {s \in broken \cup busy : ~Ignored(s, trust)}
Loaded(f, trust)    == IF Ignored(ScopeOf[f], trust) THEN 0 ELSE contents[f]

Reload(p) ==
  /\ reloading[p] = 0 /\ draft[p] = <<>>
  /\ reloading' = [reloading EXCEPT ![p] = Len(writes[p]) + 1]
  /\ UNCHANGED <<settings, modified, loadErrors, trusted, writes, draft, settingsFiles, sets, settingsHistory>>

\* reload, after the writes it found queued: what cannot be loaded is kept as it was.
Reloaded(p) == \E busy \in SUBSET (Scopes \ missing) :
  LET unread == Unread(trusted[p], busy) IN
  /\ reloading[p] = 1 /\ draft[p] = <<>>
  /\ reloading' = [reloading EXCEPT ![p] = 0]
  /\ settings' = [settings EXCEPT ![p] = [f \in Fields |->
       IF ScopeOf[f] \in unread THEN @[f] ELSE Loaded(f, trusted[p])]]
  /\ loadErrors' = [loadErrors EXCEPT ![p] = unread]
  /\ modified' = [modified EXCEPT ![p] = {}]
  /\ UNCHANGED <<trusted, writes, draft, settingsFiles, sets, settingsHistory>>

\* Here what cannot be loaded is emptied.
SetProjectTrusted(p, trust) == \E busy \in SUBSET ({"project"} \ missing) :
  LET unread == Unread(trust, busy) \cap {"project"} IN
  /\ trusted[p] # trust /\ draft[p] = <<>>
  /\ trusted' = [trusted EXCEPT ![p] = trust]
  /\ modified' = [modified EXCEPT ![p] = @ \ In("project")]
  /\ settings' = [settings EXCEPT ![p] = [f \in Fields |->
       IF f \notin In("project") THEN @[f] ELSE IF unread # {} THEN 0 ELSE Loaded(f, trust)]]
  /\ loadErrors' = [loadErrors EXCEPT ![p] = (@ \ {"project"}) \cup unread]
  /\ UNCHANGED <<writes, reloading, draft, settingsFiles, sets, settingsHistory>>

\* Somebody edits a file by hand.
Break(s) ==
  /\ ~broke /\ s \notin missing
  /\ broke' = TRUE /\ broken' = {s}
  /\ UNCHANGED <<settings, modified, loadErrors, trusted, writes, reloading, draft, contents, missing, sets,
                 settingsHistory>>

Repair(s) ==
  /\ s \in broken
  /\ broken' = {}
  /\ UNCHANGED <<settings, modified, loadErrors, trusted, writes, reloading, draft, contents, missing, broke,
                 sets, settingsHistory>>

SettingsNext ==
  \/ \E p \in Processes :
       \/ \E f \in Fields : Set(p, f)
       \/ WriteExisting(p) \/ FindNone(p) \/ Create(p) \/ WriteFails(p)
       \/ Reload(p) \/ Reloaded(p)
       \/ \E trust \in BOOLEAN : SetProjectTrusted(p, trust)
  \/ \E s \in Scopes : Break(s) \/ Repair(s)

SettingsSpec == SettingsInit /\ [][SettingsNext]_settingsVars

(***************************************************************************)
(* Properties.                                                             *)
(***************************************************************************)
\* A process with nothing left to write knows what it has not saved: a value in its memory was in the
\* file, or its field is marked modified, so that the next save writes it - a write that fails keeps its
\* marks, though other processes set the same field, load and create the file meanwhile.  Excepted are a
\* file the process could not load, which it does not write either, and the value of a failed write
\* whose mark an earlier write had cleared when it succeeded: a save marks, every write clears.
UnsavedIsMarked == \A p \in Processes, f \in Fields :
  writes[p] = <<>> /\ ScopeOf[f] \notin loadErrors[p]
  => settings[p][f] \in saved \cup dropped \cup {0} \/ f \in modified[p]

\* What changes in a file is by a process that trusts the project at the time of the write, for the
\* project's settings, though the write was queued when it did; a file that is not JSON at the moment is
\* never written - unless by a process that had found no file at all and creates it meanwhile.  A process
\* changes a field to a value it was given itself: never back to one it loaded.  Only the creation of
\* the file takes away what another process has put into it since.
TrustedWrites ==
  [][\A f \in Fields : contents'[f] # contents[f] =>
       \E p \in Processes :
         /\ writes'[p] # writes[p]
         /\ ScopeOf[f] = "project" => trusted[p]
         /\ ScopeOf[f] \in broken => draft[p] # <<>>
         /\ contents'[f] \in made[p] \/ (contents'[f] = 0 /\ draft[p] # <<>>)]_settingsVars
=============================================================================
