------------------------- MODULE SessionTreeProofs -------------------------
(***************************************************************************)
(* Theorems about SessionTree, for any number of calls in flight, crashes, *)
(* failing and cut-off writes.                                             *)
(***************************************************************************)
EXTENDS SessionTree, FiniteSetTheorems, TLAPS

(***************************************************************************)
(* Appending to a sequence.                                                *)
(***************************************************************************)

\* What Append keeps and what it adds: the lines of the file and the entries in memory only grow.
LEMMA AppendGrows ==
  ASSUME NEW S, NEW s \in Seq(S), NEW e \in S
  PROVE  /\ Append(s, e) \in Seq(S)
         /\ DOMAIN Append(s, e) = DOMAIN s \cup {Len(s) + 1}
         /\ \A i \in DOMAIN s : Append(s, e)[i] = s[i]
         /\ Append(s, e)[Len(s) + 1] = e
  OBVIOUS

\* The ids known after one more entry, in byId.
LEMMA KnownGrows ==
  ASSUME NEW s \in Seq(Entry), NEW e \in Entry
  PROVE  Known(Append(s, e)) = Known(s) \cup {e.id}
<1> DEFINE t == Append(s, e)
<1>1. /\ DOMAIN t = DOMAIN s \cup {Len(s) + 1}
      /\ \A i \in DOMAIN s : t[i] = s[i]
      /\ t[Len(s) + 1] = e
  BY AppendGrows
<1>2. Known(t) \subseteq Known(s) \cup {e.id}  BY <1>1 DEF Known
<1>3. Known(s) \cup {e.id} \subseteq Known(t)  BY <1>1 DEF Known
<1> QED BY <1>2, <1>3

Lines == [entry : Entry, end : {"newline", "cut", "open"}]

\* Parsing a file of lines gives a sequence of entries.
LEMMA ParsedType ==
  ASSUME NEW f \in Seq(Lines)
  PROVE  /\ Parsed(f) \in Seq(Entry)
         /\ Len(Parsed(f)) = Len(f)
         /\ DOMAIN Parsed(f) = DOMAIN f
         /\ \A i \in DOMAIN f : Parsed(f)[i] = f[i].entry
<1>1. \A i \in 1..Len(f) : f[i] \in Lines  OBVIOUS
<1>2. \A i \in 1..Len(f) : f[i].entry \in Entry  BY <1>1 DEF Lines
<1> QED BY <1>2 DEF Parsed

\* The leaf after a sequence of entries is an id or the root.
LEMMA LeafType ==
  ASSUME NEW s \in Seq(Entry)
  PROVE  LeafOf(s) \in Nodes
<1>1. CASE s = <<>>  BY <1>1 DEF LeafOf, Nodes
<1>2. CASE s # <<>>
  <2>1. s[Len(s)] \in Entry  BY <1>2
  <2> QED BY <1>2, <2>1 DEF LeafOf, LeafAfter, Entry, Nodes
<1> QED BY <1>1, <1>2

\* generateEntryId answers an id.
LEMMA NewIdType ==
  ASSUME window \in Nat, uuids \in Nat
  PROVE  NewId \in Ids
  BY DEF NewId, Short, Full, Ids

(***************************************************************************)
(* Types.                                                                  *)
(***************************************************************************)

\* A new session has its type.
LEMMA InitTypes == Init => TypeOK
  BY DEF Init, TypeOK, CallTypeOK, InFlight, PCs, Nodes

\* A step that gives one call a new place and leaves the process open keeps the calls' types.
LEMMA CallTypes ==
  ASSUME CallTypeOK, NEW c \in Calls, NEW p \in PCs, NEW d \in Entry,
         pc' = [pc EXCEPT ![c] = p], draft' = [draft EXCEPT ![c] = d],
         state' = "open", p = "summary" => d.kind = "leaf"
  PROVE  CallTypeOK'
  BY DEF CallTypeOK, CallTypeOK, InFlight

\* The same for a step that leaves the entry in hand alone.
LEMMA PlaceTypes ==
  ASSUME CallTypeOK, NEW c \in Calls, NEW p \in PCs, c \in InFlight,
         pc' = [pc EXCEPT ![c] = p], draft' = draft,
         state' = "open", p = "summary" => draft[c].kind = "leaf"
  PROVE  CallTypeOK'
  BY DEF CallTypeOK, CallTypeOK, InFlight

\* A line of an entry in hand.
LEMMA LineType ==
  ASSUME NEW e \in Entry, NEW end \in {"newline", "cut", "open"}
  PROVE  Line(e, end) \in Lines
  BY DEF Line, Lines

\* What a write that does not complete leaves is a file.
LEMMA LeftoverType ==
  ASSUME TypeOK, NEW c \in Calls, draft[c] \in Entry, Leftover(c)
  PROVE  file' \in Seq(Lines)
<1>1. file \in Seq(Lines)  BY DEF TypeOK, Lines
<1>2. CASE file' = file  BY <1>1, <1>2
<1>3. ASSUME NEW end \in Cuts, file' = Append(file, Line(draft[c], end))  PROVE file' \in Seq(Lines)
  <2>1. end \in {"newline", "cut", "open"}  BY SessionAssumption
  <2>2. Line(draft[c], end) \in Lines  BY <2>1, LineType
  <2> QED BY <1>1, <1>3, <2>2, AppendGrows
<1> QED BY <1>2, <1>3 DEF Leftover

\* Every step keeps the types.
LEMMA StepTypes == TypeOK /\ [Next]_vars => TypeOK'
<1> SUFFICES ASSUME TypeOK, [Next]_vars PROVE TypeOK'
  OBVIOUS
<1> USE DEF mem
<1>0. file \in Seq(Lines) /\ entries \in Seq(Entry) /\ CallTypeOK  BY DEF TypeOK, Lines
<1>1. ASSUME NEW c \in Calls, CreateEntryId(c) PROVE TypeOK'
  <2>1. NewId \in Ids  BY NewIdType DEF TypeOK
  <2> DEFINE e == [kind |-> "append", id |-> NewId, parent |-> Root, target |-> Undefined, by |-> c]
  <2>2. e \in Entry  BY <2>1 DEF Entry, Kinds, Nodes
  <2>3. pc' = [pc EXCEPT ![c] = "id"] /\ draft' = [draft EXCEPT ![c] = e] /\ state' = "open"
    BY <1>1 DEF CreateEntryId, May
  <2>4. "id" \in PCs  BY DEF PCs
  <2> HIDE DEF e
  <2>5. CallTypeOK'  BY <1>0, <2>2, <2>3, <2>4, CallTypes
  <2>6. uuids' \in Nat  BY <1>1 DEF CreateEntryId, TypeOK
  <2> QED BY <1>1, <2>5, <2>6 DEF CreateEntryId, TypeOK
<1>2. ASSUME NEW c \in Calls, ReadLeaf(c) PROVE TypeOK'
  <2> DEFINE e == [draft[c] EXCEPT !.parent = CurrentLeaf]
  <2>1. draft[c] \in Entry /\ state = "open"  BY <1>2 DEF ReadLeaf, TypeOK, CallTypeOK, InFlight
  <2>2. e \in Entry  BY <2>1 DEF Entry, Nodes, CurrentLeaf, TypeOK
  <2>3. pc' = [pc EXCEPT ![c] = "write"] /\ draft' = [draft EXCEPT ![c] = e] /\ state' = "open"
    BY <1>2, <2>1 DEF ReadLeaf
  <2>4. "write" \in PCs  BY DEF PCs
  <2> HIDE DEF e
  <2> QED BY <1>2, <2>2, <2>3, <2>4, CallTypes DEF ReadLeaf, TypeOK
<1>3. ASSUME NEW c \in Calls, MoveTo(c) PROVE TypeOK'
  <2>1. NewId \in Ids  BY NewIdType DEF TypeOK
  <2>2. PICK target \in Targets, summarize \in BOOLEAN :
          /\ May(c)
          /\ draft' = [draft EXCEPT ![c] =
               [kind |-> "leaf", id |-> NewId, parent |-> leaf, target |-> target, by |-> c]]
          /\ summary' = [summary EXCEPT ![c] = summarize]
          /\ uuids' = uuids + 1
          /\ pc' = [pc EXCEPT ![c] = "write"]
          /\ UNCHANGED <<file, mem, window, crashes, faults>>
    BY <1>3 DEF MoveTo
  <2> DEFINE e == [kind |-> "leaf", id |-> NewId, parent |-> leaf, target |-> target, by |-> c]
  <2>3. target \in Nodes
    <3>1. \A i \in DOMAIN entries : entries[i].id \in Ids  BY <1>0 DEF Entry
    <3> QED BY <2>2, <3>1 DEF Targets, Known, Nodes
  <2>4. e \in Entry  BY <2>1, <2>3 DEF Entry, Kinds, TypeOK
  <2>5. pc' = [pc EXCEPT ![c] = "write"] /\ draft' = [draft EXCEPT ![c] = e] /\ state' = "open"
    BY <2>2 DEF May
  <2>6. "write" \in PCs  BY DEF PCs
  <2> HIDE DEF e
  <2>7. summary' \in [Calls -> BOOLEAN]  BY <2>2, Zenon DEF TypeOK
  <2>8. CallTypeOK'  BY <1>0, <2>4, <2>5, <2>6, CallTypes
  <2>9. uuids' \in Nat  BY <2>2 DEF TypeOK
  <2> QED BY <2>2, <2>7, <2>8, <2>9 DEF TypeOK
<1>4. ASSUME NEW c \in Calls, SummaryId(c) PROVE TypeOK'
  <2>1. NewId \in Ids  BY NewIdType DEF TypeOK
  <2> DEFINE e == [draft[c] EXCEPT !.kind = "summary", !.id = NewId, !.parent = draft[c].target,
                                   !.target = Undefined]
  <2>2. draft[c] \in Entry /\ draft[c].kind = "leaf" /\ state = "open"
    BY <1>4 DEF SummaryId, TypeOK, CallTypeOK, InFlight
  <2>3. draft[c].target \in Nodes  BY <2>2 DEF Entry
  <2>4. e \in Entry  BY <2>1, <2>2, <2>3 DEF Entry, Kinds
  <2>5. pc' = [pc EXCEPT ![c] = "write"] /\ draft' = [draft EXCEPT ![c] = e] /\ state' = "open"
    BY <1>4, <2>2 DEF SummaryId
  <2>6. "write" \in PCs  BY DEF PCs
  <2> HIDE DEF e
  <2>7. CallTypeOK'  BY <1>0, <2>4, <2>5, <2>6, CallTypes
  <2>8. uuids' \in Nat  BY <1>4 DEF SummaryId, TypeOK
  <2> QED BY <1>4, <2>7, <2>8 DEF SummaryId, TypeOK
<1>5. ASSUME NEW c \in Calls, LineWritten(c) PROVE TypeOK'
  <2>1. c \in InFlight /\ draft[c] \in Entry /\ state' = "open"
    BY <1>5 DEF LineWritten, TypeOK, CallTypeOK, InFlight
  <2>2. Line(draft[c], "newline") \in Lines  BY <2>1, LineType
  <2>3. file' \in Seq(Lines)  BY <1>0, <1>5, <2>2, AppendGrows DEF LineWritten
  <2>4. "written" \in PCs  BY DEF PCs
  <2> QED BY <1>5, <2>1, <2>3, <2>4, PlaceTypes DEF LineWritten, TypeOK, Lines
<1>6. ASSUME NEW c \in Calls, WriteFails(c) PROVE TypeOK'
  <2>1. c \in InFlight /\ draft[c] \in Entry /\ state' = "open"
    BY <1>6 DEF WriteFails, TypeOK, CallTypeOK, InFlight
  <2>2. file' \in Seq(Lines)  BY <1>6, <2>1, LeftoverType DEF WriteFails
  <2>3. "rejected" \in PCs  BY DEF PCs
  <2>4. CallTypeOK'  BY <1>0, <1>6, <2>1, <2>3, PlaceTypes DEF WriteFails
  <2>5. faults' \in Nat  BY <1>6 DEF WriteFails, TypeOK
  <2> QED BY <1>6, <2>2, <2>4, <2>5 DEF WriteFails, TypeOK, Lines
<1>7. ASSUME NEW c \in Calls, Commit(c) PROVE TypeOK'
  <2>1. c \in InFlight /\ draft[c] \in Entry /\ state' = "open"
    BY <1>7 DEF Commit, TypeOK, CallTypeOK, InFlight
  <2>2. entries' \in Seq(Entry)  BY <1>0, <1>7, <2>1, AppendGrows DEF Commit
  <2>3. leaf' \in Nodes  BY <1>7, <2>1 DEF Commit, LeafAfter, Entry, Nodes
  <2> DEFINE p == IF draft[c].kind = "leaf" /\ summary[c] THEN "summary" ELSE "done"
  <2>4. p \in PCs /\ (p = "summary" => draft[c].kind = "leaf")  BY DEF PCs
  <2>5. pc' = [pc EXCEPT ![c] = p] /\ draft' = draft  BY <1>7 DEF Commit
  <2> HIDE DEF p
  <2> QED BY <1>7, <2>1, <2>2, <2>3, <2>4, <2>5, PlaceTypes DEF Commit, TypeOK
<1>8. CASE Tick
  BY <1>8 DEF Tick, TypeOK, CallTypeOK, InFlight
<1>9. CASE Crash
  <2>1. file' \in Seq(Lines)
    <3>1. \A c \in Calls : pc[c] = "write" => draft[c] \in Entry  BY DEF TypeOK, CallTypeOK, InFlight
    <3> QED BY <1>0, <1>9, <3>1, LeftoverType DEF Crash
  <2>2. pc' \in [Calls -> PCs] /\ InFlight' = {}
    BY <1>9 DEF Crash, TypeOK, CallTypeOK, InFlight, PCs
  <2>3. CallTypeOK'  BY <1>9, <2>2 DEF Crash, InFlight, TypeOK, CallTypeOK
  <2> QED BY <1>9, <2>1, <2>2, <2>3 DEF Crash, TypeOK, Lines, Nodes
<1>10. CASE Open
  <2>1. entries' \in Seq(Entry) /\ leaf' \in Nodes
    <3>1. Parsed(file) \in Seq(Entry)  BY <1>0, ParsedType
    <3>2. LeafOf(Parsed(file)) \in Nodes  BY <3>1, LeafType
    <3> QED BY <1>10, <3>1, <3>2 DEF Open, Load, TypeOK
  <2>2. InFlight = {}  BY <1>10 DEF Open, TypeOK, CallTypeOK
  <2>3. state' \in {"open", "closed", "unreadable"}  BY <1>10 DEF Open, Load
  <2>4. CallTypeOK'  BY <1>10, <2>2 DEF Open, InFlight, TypeOK, CallTypeOK
  <2> QED BY <1>10, <2>1, <2>3, <2>4 DEF Open, TypeOK
<1>11. CASE UNCHANGED vars
  BY <1>11 DEF vars, TypeOK, CallTypeOK, InFlight
<1> QED BY <1>1, <1>2, <1>3, <1>4, <1>5, <1>6, <1>7, <1>8, <1>9, <1>10, <1>11 DEF Next

\* Whatever is in flight, crashes or fails, the session keeps its type.
THEOREM TypeCorrect == Spec => []TypeOK
<1>1. Init => TypeOK  BY InitTypes
<1>2. TypeOK /\ [Next]_vars => TypeOK'  BY StepTypes
<1> QED BY <1>1, <1>2, PTL DEF Spec

(***************************************************************************)
(* Every id can be resolved.                                               *)
(***************************************************************************)

FileIds == {file[i].entry.id : i \in DOMAIN file}

\* Everything an entry refers to is among the ids K.
Rooted(e, K) == /\ e.parent \in K \cup {Root}
                /\ e.kind = "leaf" => e.target \in K \cup {Root}

\* What makes PathsResolve inductive: nothing is in memory before it is in the file, lines and
\* entries in hand refer to nothing newer than themselves.
Resolvable ==
  /\ Known(entries) \subseteq FileIds
  /\ leaf \in Known(entries) \cup {Root}
  /\ \A i \in DOMAIN entries : Rooted(entries[i], Known(entries))
  /\ \A i \in DOMAIN file : Rooted(file[i].entry, FileIds)
  /\ \A c \in InFlight : Rooted(draft[c], Known(entries))
  /\ \A c \in Calls : pc[c] = "written" => draft[c].id \in FileIds

\* The ids in a parsed file are the ids of its lines.
LEMMA ParsedKnown ==
  ASSUME file \in Seq(Lines)
  PROVE  Known(Parsed(file)) = FileIds
  BY ParsedType DEF Known, FileIds

\* What was rooted stays rooted when more ids are known.
LEMMA RootedGrows ==
  ASSUME NEW e, NEW K, NEW L, K \subseteq L, Rooted(e, K)
  PROVE  Rooted(e, L)
  BY DEF Rooted

\* A file grows by a line for a rooted entry and stays rooted.
LEMMA FileGrows ==
  ASSUME file \in Seq(Lines), NEW e \in Entry, NEW end, Line(e, end) \in Lines,
         file' = Append(file, Line(e, end)),
         \A i \in DOMAIN file : Rooted(file[i].entry, FileIds), Rooted(e, FileIds)
  PROVE  /\ FileIds' = FileIds \cup {e.id}
         /\ \A i \in DOMAIN file' : Rooted(file'[i].entry, FileIds')
<1>1. /\ DOMAIN file' = DOMAIN file \cup {Len(file) + 1}
      /\ \A i \in DOMAIN file : file'[i] = file[i]
      /\ file'[Len(file) + 1] = Line(e, end)
  BY AppendGrows
<1>2. file'[Len(file) + 1].entry = e  BY <1>1 DEF Line
<1>3. FileIds' \subseteq FileIds \cup {e.id}  BY <1>1, <1>2 DEF FileIds
<1>4. FileIds \cup {e.id} \subseteq FileIds'  BY <1>1, <1>2 DEF FileIds
<1>5. \A i \in DOMAIN file' : Rooted(file'[i].entry, FileIds)  BY <1>1, <1>2
<1> QED BY <1>3, <1>4, <1>5, RootedGrows

\* The same for what a write that does not complete may leave.
LEMMA LeftoverGrows ==
  ASSUME file \in Seq(Lines), NEW c \in Calls, draft[c] \in Entry, Leftover(c),
         \A i \in DOMAIN file : Rooted(file[i].entry, FileIds), Rooted(draft[c], FileIds)
  PROVE  /\ FileIds \subseteq FileIds'
         /\ \A i \in DOMAIN file' : Rooted(file'[i].entry, FileIds')
<1>1. CASE file' = file  BY <1>1 DEF FileIds
<1>2. ASSUME NEW end \in Cuts, file' = Append(file, Line(draft[c], end))
      PROVE  /\ FileIds \subseteq FileIds'
             /\ \A i \in DOMAIN file' : Rooted(file'[i].entry, FileIds')
  <2>1. end \in {"newline", "cut", "open"}  BY SessionAssumption
  <2>2. Line(draft[c], end) \in Lines  BY <2>1, LineType
  <2> QED BY <1>2, <2>2, FileGrows
<1> QED BY <1>1, <1>2 DEF Leftover

\* A step of one call that touches neither memory nor file.
LEMMA CallRooted ==
  ASSUME TypeOK, Resolvable, NEW c \in Calls, NEW p \in PCs \ {"written"}, NEW d,
         pc' = [pc EXCEPT ![c] = p], draft' = [draft EXCEPT ![c] = d],
         UNCHANGED <<file, entries, leaf>>, Rooted(d, Known(entries))
  PROVE  Resolvable'
<1>1. FileIds' = FileIds /\ Known(entries)' = Known(entries)  BY DEF FileIds, Known
<1>2. \A x \in Calls \ {c} : pc'[x] = pc[x] /\ draft'[x] = draft[x]
  BY DEF TypeOK, CallTypeOK
<1>3. pc'[c] = p /\ draft'[c] = d  BY DEF TypeOK, CallTypeOK
<1>4. \A x \in InFlight' : Rooted(draft'[x], Known(entries))
  BY <1>2, <1>3 DEF Resolvable, InFlight
<1>5. \A x \in Calls : pc'[x] = "written" => draft'[x].id \in FileIds
  BY <1>2, <1>3 DEF Resolvable
<1> QED BY <1>1, <1>4, <1>5 DEF Resolvable

\* A step of one call that leaves the entry in hand and memory alone.
LEMMA FileRooted ==
  ASSUME TypeOK, Resolvable, NEW c \in InFlight, NEW p \in PCs,
         pc' = [pc EXCEPT ![c] = p], UNCHANGED <<draft, entries, leaf>>,
         FileIds \subseteq FileIds',
         \A i \in DOMAIN file' : Rooted(file'[i].entry, FileIds'),
         p = "written" => draft[c].id \in FileIds'
  PROVE  Resolvable'
<1>1. Known(entries)' = Known(entries)  BY DEF Known
<1>2. \A x \in Calls \ {c} : pc'[x] = pc[x]  BY DEF TypeOK, CallTypeOK
<1>3. pc'[c] = p /\ c \in Calls  BY DEF TypeOK, CallTypeOK, InFlight
<1>4. \A x \in InFlight' : Rooted(draft[x], Known(entries))
  BY <1>2, <1>3 DEF Resolvable, InFlight
<1>5. \A x \in Calls : pc'[x] = "written" => draft[x].id \in FileIds'
  BY <1>2, <1>3 DEF Resolvable
<1> QED BY <1>1, <1>4, <1>5 DEF Resolvable

\* A new session refers to nothing.
LEMMA InitResolvable == Init => Resolvable
  BY DEF Init, Resolvable, InFlight, Known, FileIds, Rooted

\* Every step keeps everything resolvable.
LEMMA StepResolvable == TypeOK /\ Resolvable /\ [Next]_vars => Resolvable'
<1> SUFFICES ASSUME TypeOK, Resolvable, [Next]_vars PROVE Resolvable'
  OBVIOUS
<1> USE DEF mem
<1>0. file \in Seq(Lines) /\ entries \in Seq(Entry)  BY DEF TypeOK, Lines
<1>a. \A c \in InFlight : draft[c] \in Entry /\ Rooted(draft[c], FileIds)
  <2>1. \A c \in InFlight : Rooted(draft[c], Known(entries)) /\ draft[c] \in Entry
    BY DEF Resolvable, TypeOK, CallTypeOK
  <2>2. Known(entries) \subseteq FileIds  BY DEF Resolvable
  <2> QED BY <2>1, <2>2, RootedGrows
<1>1. ASSUME NEW c \in Calls, CreateEntryId(c) PROVE Resolvable'
  <2> DEFINE e == [kind |-> "append", id |-> NewId, parent |-> Root, target |-> Undefined, by |-> c]
  <2>1. Rooted(e, Known(entries))  BY DEF Rooted
  <2>2. /\ pc' = [pc EXCEPT ![c] = "id"] /\ draft' = [draft EXCEPT ![c] = e]
        /\ UNCHANGED <<file, entries, leaf>>
    BY <1>1 DEF CreateEntryId
  <2>3. "id" \in PCs \ {"written"}  BY DEF PCs
  <2> HIDE DEF e
  <2> QED BY <2>1, <2>2, <2>3, CallRooted
<1>2. ASSUME NEW c \in Calls, ReadLeaf(c) PROVE Resolvable'
  <2> DEFINE e == [draft[c] EXCEPT !.parent = CurrentLeaf]
  <2>1. draft[c] \in Entry /\ Rooted(draft[c], Known(entries))
    BY <1>2 DEF ReadLeaf, InFlight, TypeOK, CallTypeOK, Resolvable
  <2>2. /\ e.parent = leaf /\ e.kind = draft[c].kind /\ e.target = draft[c].target
    BY <2>1 DEF Entry, CurrentLeaf
  <2>3. Rooted(e, Known(entries))  BY <2>1, <2>2 DEF Rooted, Resolvable
  <2>4. /\ pc' = [pc EXCEPT ![c] = "write"] /\ draft' = [draft EXCEPT ![c] = e]
        /\ UNCHANGED <<file, entries, leaf>>
    BY <1>2 DEF ReadLeaf
  <2>5. "write" \in PCs \ {"written"}  BY DEF PCs
  <2> HIDE DEF e
  <2> QED BY <2>3, <2>4, <2>5, CallRooted
<1>3. ASSUME NEW c \in Calls, MoveTo(c) PROVE Resolvable'
  <2>1. PICK target \in Targets :
          /\ draft' = [draft EXCEPT ![c] =
               [kind |-> "leaf", id |-> NewId, parent |-> leaf, target |-> target, by |-> c]]
          /\ pc' = [pc EXCEPT ![c] = "write"]
          /\ UNCHANGED <<file, entries, leaf>>
    BY <1>3 DEF MoveTo
  <2> DEFINE e == [kind |-> "leaf", id |-> NewId, parent |-> leaf, target |-> target, by |-> c]
  <2>2. Rooted(e, Known(entries))  BY <2>1 DEF Rooted, Targets, Resolvable
  <2>3. "write" \in PCs \ {"written"}  BY DEF PCs
  <2>4. draft' = [draft EXCEPT ![c] = e]  BY <2>1
  <2> HIDE DEF e
  <2> QED BY <2>1, <2>2, <2>3, <2>4, CallRooted
<1>4. ASSUME NEW c \in Calls, SummaryId(c) PROVE Resolvable'
  <2> DEFINE e == [draft[c] EXCEPT !.kind = "summary", !.id = NewId, !.parent = draft[c].target,
                                   !.target = Undefined]
  <2>1. draft[c] \in Entry /\ Rooted(draft[c], Known(entries)) /\ draft[c].kind = "leaf"
    BY <1>4 DEF SummaryId, InFlight, TypeOK, CallTypeOK, Resolvable
  <2>2. e.parent = draft[c].target /\ e.kind = "summary"  BY <2>1 DEF Entry
  <2>3. Rooted(e, Known(entries))  BY <2>1, <2>2 DEF Rooted
  <2>4. /\ pc' = [pc EXCEPT ![c] = "write"] /\ draft' = [draft EXCEPT ![c] = e]
        /\ UNCHANGED <<file, entries, leaf>>
    BY <1>4 DEF SummaryId
  <2>5. "write" \in PCs \ {"written"}  BY DEF PCs
  <2> HIDE DEF e
  <2> QED BY <2>3, <2>4, <2>5, CallRooted
<1>5. ASSUME NEW c \in Calls, LineWritten(c) PROVE Resolvable'
  <2>1. c \in InFlight /\ "written" \in PCs  BY <1>5 DEF LineWritten, InFlight, PCs
  <2>2. Line(draft[c], "newline") \in Lines  BY <1>a, <2>1, LineType
  <2>3. /\ FileIds' = FileIds \cup {draft[c].id}
        /\ \A i \in DOMAIN file' : Rooted(file'[i].entry, FileIds')
    BY <1>0, <1>5, <1>a, <2>1, <2>2, FileGrows DEF LineWritten, Resolvable
  <2> QED BY <1>5, <2>1, <2>3, FileRooted DEF LineWritten
<1>6. ASSUME NEW c \in Calls, WriteFails(c) PROVE Resolvable'
  <2>1. c \in InFlight /\ "rejected" \in PCs  BY <1>6 DEF WriteFails, InFlight, PCs
  <2>2. /\ FileIds \subseteq FileIds'
        /\ \A i \in DOMAIN file' : Rooted(file'[i].entry, FileIds')
    BY <1>0, <1>6, <1>a, <2>1, LeftoverGrows DEF WriteFails, Resolvable
  <2> QED BY <1>6, <2>1, <2>2, FileRooted DEF WriteFails
<1>7. ASSUME NEW c \in Calls, Commit(c) PROVE Resolvable'
  <2>1. c \in InFlight /\ draft[c] \in Entry /\ draft[c].id \in FileIds
    BY <1>7, <1>a DEF Commit, InFlight, Resolvable
  <2>2. Known(entries') = Known(entries) \cup {draft[c].id}
    BY <1>0, <1>7, <2>1, KnownGrows DEF Commit
  <2>3. /\ DOMAIN entries' = DOMAIN entries \cup {Len(entries) + 1}
        /\ \A i \in DOMAIN entries : entries'[i] = entries[i]
        /\ entries'[Len(entries) + 1] = draft[c]
    BY <1>0, <1>7, <2>1, AppendGrows DEF Commit
  <2>4. \A i \in DOMAIN entries' : Rooted(entries'[i], Known(entries'))
    <3>1. \A i \in DOMAIN entries' : Rooted(entries'[i], Known(entries))
      BY <2>1, <2>3 DEF Resolvable
    <3> QED BY <2>2, <3>1, RootedGrows
  <2>5. leaf' \in Known(entries') \cup {Root}
    BY <1>7, <2>1, <2>2 DEF Commit, LeafAfter, Resolvable, Rooted
  <2>6. FileIds' = FileIds /\ draft' = draft  BY <1>7 DEF Commit, FileIds
  <2>7. InFlight' \subseteq InFlight  BY <1>7 DEF Commit, InFlight, TypeOK, CallTypeOK
  <2>8. \A x \in InFlight' : Rooted(draft[x], Known(entries'))
    BY <2>2, <2>7, RootedGrows DEF Resolvable
  <2>9. \A x \in Calls : pc'[x] = "written" => pc[x] = "written"
    BY <1>7 DEF Commit, TypeOK, CallTypeOK
  <2> QED BY <1>7, <2>1, <2>2, <2>4, <2>5, <2>6, <2>8, <2>9 DEF Commit, Resolvable
<1>8. CASE Tick
  BY <1>8 DEF Tick, Resolvable, InFlight, FileIds
<1>9. CASE Crash
  <2>1. /\ FileIds \subseteq FileIds'
        /\ \A i \in DOMAIN file' : Rooted(file'[i].entry, FileIds')
    <3>1. CASE UNCHANGED file  BY <3>1 DEF FileIds, Resolvable
    <3>2. ASSUME NEW c \in Calls, pc[c] = "write", Leftover(c)
          PROVE  /\ FileIds \subseteq FileIds'
                 /\ \A i \in DOMAIN file' : Rooted(file'[i].entry, FileIds')
      BY <1>0, <1>a, <3>2, LeftoverGrows DEF InFlight, Resolvable
    <3> QED BY <1>9, <3>1, <3>2 DEF Crash
  <2>2. \A x \in Calls : pc'[x] \notin {"id", "write", "written", "summary"}
    BY <1>9 DEF Crash, InFlight, TypeOK, CallTypeOK
  <2>3. InFlight' = {}  BY <2>2 DEF InFlight
  <2>4. entries' = <<>> /\ leaf' = Root  BY <1>9 DEF Crash
  <2>5. Known(entries') = {}  BY <2>4 DEF Known
  <2> QED BY <2>1, <2>2, <2>3, <2>4, <2>5 DEF Resolvable
<1>10. CASE Open
  <2>1. /\ FileIds' = FileIds /\ InFlight' = InFlight /\ pc' = pc /\ draft' = draft
        /\ file' = file
    BY <1>10 DEF Open, FileIds, InFlight
  <2>2. InFlight = {}  BY <1>10 DEF Open, TypeOK, CallTypeOK
  <2>3. CASE UNCHANGED <<entries, leaf>>
    BY <2>1, <2>3 DEF Resolvable, Known
  <2>4. CASE Load(file)
    <3>1. Known(entries') = FileIds  BY <1>0, <2>4, ParsedKnown DEF Load
    <3>2. \A i \in DOMAIN entries' : i \in DOMAIN file /\ entries'[i] = file[i].entry
      BY <1>0, <2>4, ParsedType DEF Load
    <3>3. \A i \in DOMAIN entries' : Rooted(entries'[i], Known(entries'))
      BY <3>1, <3>2 DEF Resolvable
    <3>4. leaf' \in Known(entries') \cup {Root}
      <4>1. CASE entries' = <<>>  BY <2>4, <4>1 DEF Load, LeafOf
      <4>2. CASE entries' # <<>>
        <5>1. entries' \in Seq(Entry)  BY <1>0, <2>4, ParsedType DEF Load
        <5>2. Len(entries') \in DOMAIN entries'  BY <4>2, <5>1
        <5>3. entries'[Len(entries')].id \in Known(entries')  BY <5>2 DEF Known
        <5>4. Rooted(entries'[Len(entries')], Known(entries'))  BY <3>3, <5>2
        <5>5. leaf' = LeafAfter(entries'[Len(entries')])  BY <2>4, <4>2 DEF Load, LeafOf
        <5> QED BY <5>3, <5>4, <5>5 DEF LeafAfter, Rooted
      <4> QED BY <4>1, <4>2
    <3> QED BY <2>1, <2>2, <3>1, <3>3, <3>4 DEF Resolvable
  <2> QED BY <1>10, <2>3, <2>4 DEF Open
<1>11. CASE UNCHANGED vars
  BY <1>11 DEF vars, Resolvable, InFlight, FileIds, Known
<1> QED BY <1>1, <1>2, <1>3, <1>4, <1>5, <1>6, <1>7, <1>8, <1>9, <1>10, <1>11 DEF Next

\* No path of an open session ever meets an id the session does not know, however many appends,
\* moves, crashes and failing writes overlap.
THEOREM PathsAlwaysResolve == Spec => []PathsResolve
<1>1. Init => TypeOK /\ Resolvable  BY InitTypes, InitResolvable
<1>2. (TypeOK /\ Resolvable) /\ [Next]_vars => (TypeOK /\ Resolvable)'
  BY StepTypes, StepResolvable
<1>3. Resolvable => PathsResolve  BY DEF Resolvable, PathsResolve, Rooted
<1> QED BY <1>1, <1>2, <1>3, PTL DEF Spec

(***************************************************************************)
(* What was answered is kept.                                              *)
(***************************************************************************)

\* What makes AnsweredIsKept inductive: a call whose write has completed has its line as well.
Kept ==
  /\ \A c \in Calls : pc[c] \in {"written", "done"} =>
       \E i \in DOMAIN file : file[i] = Line(draft[c], "newline")
  /\ AnsweredIsKept

\* The lines of the file stay where they are.
LEMMA LinesStay ==
  ASSUME TypeOK, [Next]_vars
  PROVE  /\ \A i \in DOMAIN file : i \in DOMAIN file' /\ file'[i] = file[i]
<1> USE DEF mem
<1>0. file \in Seq(Lines)  BY DEF TypeOK, Lines
<1>1. ASSUME NEW c \in InFlight, NEW end \in {"newline", "cut", "open"},
             file' = Append(file, Line(draft[c], end))
      PROVE  \A i \in DOMAIN file : i \in DOMAIN file' /\ file'[i] = file[i]
  <2>1. Line(draft[c], end) \in Lines  BY LineType DEF TypeOK, CallTypeOK
  <2> QED BY <1>0, <1>1, <2>1, AppendGrows
<1>2. ASSUME NEW c \in InFlight, Leftover(c)
      PROVE  \A i \in DOMAIN file : i \in DOMAIN file' /\ file'[i] = file[i]
  <2>1. Cuts \subseteq {"newline", "cut", "open"}  BY SessionAssumption
  <2> QED BY <1>1, <1>2, <2>1 DEF Leftover
<1>3. ASSUME NEW c \in Calls, LineWritten(c) \/ WriteFails(c)
      PROVE  \A i \in DOMAIN file : i \in DOMAIN file' /\ file'[i] = file[i]
  BY <1>1, <1>2, <1>3 DEF LineWritten, WriteFails, InFlight
<1>4. CASE Crash  BY <1>2, <1>4 DEF Crash, InFlight
<1>5. CASE UNCHANGED file  BY <1>5
<1>6. \A c \in Calls : CreateEntryId(c) \/ ReadLeaf(c) \/ MoveTo(c) \/ SummaryId(c) \/ Commit(c)
        => UNCHANGED file
  BY DEF CreateEntryId, ReadLeaf, MoveTo, SummaryId, Commit
<1>7. Tick \/ Open \/ UNCHANGED vars => UNCHANGED file  BY DEF Tick, Open, vars
<1> QED BY <1>3, <1>4, <1>5, <1>6, <1>7 DEF Next

\* A step that makes no call answered or written, and forgets no entry, keeps what is kept.
LEMMA OthersKept ==
  ASSUME TypeOK, Kept, [Next]_vars,
         \A c \in Calls : pc'[c] \in {"written", "done"} =>
            pc[c] = pc'[c] /\ draft'[c] = draft[c],
         state' = "open" => state = "open" /\ entries' = entries
  PROVE  Kept'
  BY LinesStay DEF Kept, AnsweredIsKept

\* Every step keeps what was answered.
LEMMA StepKept == TypeOK /\ Kept /\ [Next]_vars => Kept'
<1> SUFFICES ASSUME TypeOK, Kept, [Next]_vars PROVE Kept'
  OBVIOUS
<1> USE DEF mem
<1>0. file \in Seq(Lines) /\ entries \in Seq(Entry)  BY DEF TypeOK, Lines
<1>1. ASSUME NEW c \in Calls, NEW p \in {"id", "write", "rejected"},
             pc' = [pc EXCEPT ![c] = p], \A x \in Calls \ {c} : draft'[x] = draft[x],
             UNCHANGED <<state, entries>>
      PROVE  Kept'
  BY <1>1, OthersKept DEF TypeOK, CallTypeOK
<1>2. ASSUME NEW c \in Calls, CreateEntryId(c) \/ ReadLeaf(c) \/ MoveTo(c) \/ SummaryId(c)
      PROVE  Kept'
  <2>1. \A x \in Calls \ {c} : draft'[x] = draft[x]
    BY <1>2 DEF CreateEntryId, ReadLeaf, MoveTo, SummaryId, TypeOK, CallTypeOK
  <2>2. pc' \in {[pc EXCEPT ![c] = "id"], [pc EXCEPT ![c] = "write"]} /\ UNCHANGED <<state, entries>>
    BY <1>2 DEF CreateEntryId, ReadLeaf, MoveTo, SummaryId
  <2> QED BY <1>1, <2>1, <2>2
<1>3. ASSUME NEW c \in Calls, WriteFails(c) PROVE Kept'
  BY <1>1, <1>3 DEF WriteFails
<1>4. ASSUME NEW c \in Calls, LineWritten(c) PROVE Kept'
  <2>1. Line(draft[c], "newline") \in Lines
    BY <1>4, LineType DEF LineWritten, InFlight, TypeOK, CallTypeOK
  <2>2. \E i \in DOMAIN file' : file'[i] = Line(draft[c], "newline")
    BY <1>0, <1>4, <2>1, AppendGrows DEF LineWritten
  <2>3. /\ pc'[c] = "written" /\ draft' = draft /\ entries' = entries /\ state' = state
        /\ \A x \in Calls \ {c} : pc'[x] = pc[x]
    BY <1>4 DEF LineWritten, TypeOK, CallTypeOK
  <2> QED BY <2>2, <2>3, LinesStay DEF Kept, AnsweredIsKept
<1>5. ASSUME NEW c \in Calls, Commit(c) PROVE Kept'
  <2>1. draft[c] \in Entry  BY <1>5 DEF Commit, InFlight, TypeOK, CallTypeOK
  <2>2. /\ DOMAIN entries' = DOMAIN entries \cup {Len(entries) + 1}
        /\ \A i \in DOMAIN entries : entries'[i] = entries[i]
        /\ entries'[Len(entries) + 1] = draft[c]
    BY <1>0, <1>5, <2>1, AppendGrows DEF Commit
  <2>3. /\ pc'[c] \in {"summary", "done"} /\ draft' = draft /\ file' = file /\ state' = state
        /\ pc[c] = "written"
        /\ \A x \in Calls \ {c} : pc'[x] = pc[x]
    BY <1>5 DEF Commit, TypeOK, CallTypeOK
  <2> QED BY <2>2, <2>3 DEF Kept, AnsweredIsKept
<1>6. CASE Tick  BY <1>6, OthersKept DEF Tick
<1>7. CASE Crash
  <2>1. \A c \in Calls : pc'[c] \in {"written", "done"} => pc[c] = pc'[c] /\ draft'[c] = draft[c]
    BY <1>7 DEF Crash, InFlight, TypeOK, CallTypeOK
  <2>2. state' = "closed"  BY <1>7 DEF Crash
  <2> QED BY <2>1, <2>2, OthersKept
<1>8. CASE Open
  <2>1. pc' = pc /\ draft' = draft /\ file' = file  BY <1>8 DEF Open
  <2>2. CASE state' = "unreadable"  BY <2>1, <2>2, OthersKept
  <2>3. CASE Load(file)
    <3>1. \A i \in DOMAIN file : i \in DOMAIN entries' /\ entries'[i] = file[i].entry
      BY <1>0, <2>3, ParsedType DEF Load
    <3>2. \A e : Line(e, "newline").entry = e  BY DEF Line
    <3> QED BY <2>1, <3>1, <3>2 DEF Kept, AnsweredIsKept
  <2> QED BY <1>8, <2>2, <2>3 DEF Open
<1>9. CASE UNCHANGED vars  BY <1>9, OthersKept DEF vars
<1> QED BY <1>2, <1>3, <1>4, <1>5, <1>6, <1>7, <1>8, <1>9 DEF Next

\* A call that has answered stays in the file, and is in memory whenever the session is open,
\* whatever crashes or fails afterwards.
THEOREM AnswersAreKept == Spec => []AnsweredIsKept
<1>1. Init => TypeOK /\ Kept
  <2>1. Init => Kept  BY DEF Init, Kept, AnsweredIsKept
  <2> QED BY <2>1, InitTypes
<1>2. (TypeOK /\ Kept) /\ [Next]_vars => (TypeOK /\ Kept)'  BY StepTypes, StepKept
<1>3. Kept => AnsweredIsKept  BY DEF Kept
<1> QED BY <1>1, <1>2, <1>3, PTL DEF Spec

(***************************************************************************)
(* Calls made one after another extend the log.                            *)
(***************************************************************************)

\* An id that is not a uuid generated from the n-th on.
Before(id, n) == \A k \in Nat : id = Full(k) => k < n

\* What makes the refinement inductive when a call is only made when none is in flight: memory
\* lags behind the file by the line just written and no more, the entry in hand has a new id and
\* continues the active branch, and no uuid comes twice.
Serial ==
  /\ \A c, d \in InFlight : c = d
  /\ state = "open" => leaf = LeafOf(entries)
  /\ state = "open" /\ (\A c \in Calls : pc[c] # "written") => entries = Parsed(file)
  /\ \A c \in Calls : pc[c] = "written" => Parsed(file) = Append(entries, draft[c])
  /\ \A c \in Calls : pc[c] \in {"id", "write"} => draft[c].id \notin Known(entries)
  /\ \A c \in Calls : pc[c] = "write" => draft[c].parent = leaf
  /\ \A c \in Calls : pc[c] = "summary" => draft[c].target = leaf
  /\ \A i \in DOMAIN file : Before(file[i].entry.id, uuids)
  /\ \A c \in InFlight : Before(draft[c].id, uuids)

\* With no more than one call in flight, a call is made when there is none.
LEMMA AloneInFlight ==
  ASSUME MaxInFlight \leq 1, NEW c \in Calls, May(c)
  PROVE  InFlight = {}
<1>1. IsFiniteSet(InFlight)  BY SessionAssumption, FS_Subset DEF InFlight
<1>2. Cardinality(InFlight) \in Nat /\ MaxInFlight \in Nat
  BY <1>1, FS_CardinalityType, SessionAssumption
<1>3. Cardinality(InFlight) = 0  BY <1>2 DEF May
<1> QED BY <1>1, <1>3, FS_EmptySet

\* A new id is an id nobody has, and its uuid is used up.
LEMMA NewIdIsNew ==
  ASSUME TypeOK, Resolvable, Serial, uuids' = uuids + 1
  PROVE  /\ NewId \notin Known(entries)
         /\ Before(NewId, uuids')
         /\ \A id : Before(id, uuids) => Before(id, uuids')
<1>0. uuids \in Nat /\ window \in Nat  BY DEF TypeOK
<1>1. Full(uuids) \notin FileIds  BY <1>0 DEF Serial, Before, FileIds
<1>2. Known(entries) \subseteq FileIds  BY DEF Resolvable
<1>3. NewId \notin Known(entries)  BY <1>1, <1>2 DEF NewId
<1>4. \A n \in Nat : NewId = Full(n) => n = uuids  BY DEF NewId, Short, Full
<1>5. \A n \in Nat : n < uuids => n < uuids'  BY <1>0
<1>6. \A id : Before(id, uuids) => Before(id, uuids')  BY <1>5 DEF Before
<1> QED BY <1>0, <1>3, <1>4, <1>6 DEF Before

\* A call that only takes another entry in hand keeps the calls serial.
LEMMA HandSerial ==
  ASSUME TypeOK, Serial, NEW c \in Calls, NEW p \in {"id", "write"}, NEW e \in Entry,
         pc' = [pc EXCEPT ![c] = p], draft' = [draft EXCEPT ![c] = e],
         pc[c] # "written", InFlight \subseteq {c},
         UNCHANGED <<file, entries, leaf, state>>, uuids' \in Nat,
         e.id \notin Known(entries), p = "write" => e.parent = leaf,
         Before(e.id, uuids'), \A id : Before(id, uuids) => Before(id, uuids')
  PROVE  Serial'
<1>1. \A x \in Calls \ {c} : pc'[x] = pc[x] /\ draft'[x] = draft[x] /\ x \notin InFlight
  BY DEF TypeOK, CallTypeOK
<1>2. pc'[c] = p /\ draft'[c] = e  BY DEF TypeOK, CallTypeOK
<1>3. InFlight' \subseteq {c}  BY <1>1, <1>2 DEF InFlight
<1>4. \A x \in Calls : pc[x] # "written" /\ pc'[x] # "written" /\ pc'[x] # "summary"
  BY <1>1, <1>2 DEF InFlight
<1>5. \A x \in Calls : pc'[x] \in {"id", "write"} => x = c  BY <1>1 DEF InFlight
<1>6. Known(entries)' = Known(entries)  BY DEF Known
<1>7. LeafOf(entries)' = LeafOf(entries) /\ Parsed(file)' = Parsed(file)  BY DEF LeafOf, LeafAfter, Parsed
<1> QED BY <1>2, <1>3, <1>4, <1>5, <1>6, <1>7 DEF Serial

\* A new session is serial.
LEMMA InitSerial == Init => Serial
<1> SUFFICES ASSUME Init PROVE Serial
  OBVIOUS
<1>1. Parsed(<<>>) = <<>>  BY DEF Parsed
<1> QED BY <1>1 DEF Init, Serial, InFlight, LeafOf

\* Without writes that are cut off, every step keeps calls serial that are made one at a time.
LEMMA StepSerial ==
  ASSUME MaxInFlight \leq 1, Cuts = {}, TypeOK, Resolvable, Serial, [Next]_vars
  PROVE  Serial'
<1> USE DEF mem
<1>0. /\ file \in Seq(Lines) /\ entries \in Seq(Entry) /\ uuids \in Nat
      /\ uuids' \in Nat
  BY StepTypes DEF TypeOK, Lines
<1>1. ASSUME NEW c \in Calls, CreateEntryId(c) PROVE Serial'
  <2> DEFINE e == [kind |-> "append", id |-> NewId, parent |-> Root, target |-> Undefined, by |-> c]
  <2>1. InFlight = {} /\ pc[c] = "new" /\ uuids' = uuids + 1
    BY <1>1, AloneInFlight DEF CreateEntryId, May
  <2>2. e \in Entry  BY NewIdType DEF Entry, Kinds, Nodes, TypeOK
  <2>3. e.id \notin Known(entries) /\ Before(e.id, uuids') /\ \A id : Before(id, uuids) => Before(id, uuids')
    BY <2>1, NewIdIsNew
  <2>4. /\ pc' = [pc EXCEPT ![c] = "id"] /\ draft' = [draft EXCEPT ![c] = e]
        /\ UNCHANGED <<file, entries, leaf, state>>
    BY <1>1 DEF CreateEntryId
  <2> HIDE DEF e
  <2>5. InFlight \subseteq {c} /\ pc[c] # "written" /\ "id" \in {"id", "write"}  BY <2>1
  <2> QED BY <1>0, <2>2, <2>3, <2>4, <2>5, HandSerial
<1>2. ASSUME NEW c \in Calls, ReadLeaf(c) PROVE Serial'
  <2> DEFINE e == [draft[c] EXCEPT !.parent = CurrentLeaf]
  <2>1. c \in InFlight /\ draft[c] \in Entry /\ pc[c] = "id" /\ uuids' = uuids
    BY <1>2 DEF ReadLeaf, InFlight, TypeOK, CallTypeOK
  <2>2. e \in Entry /\ e.parent = leaf /\ e.id = draft[c].id
    BY <2>1 DEF Entry, Nodes, CurrentLeaf, TypeOK
  <2>3. e.id \notin Known(entries) /\ Before(e.id, uuids') /\ \A id : Before(id, uuids) => Before(id, uuids')
    BY <2>1, <2>2 DEF Serial, Before
  <2>4. InFlight \subseteq {c}  BY <2>1 DEF Serial
  <2>5. /\ pc' = [pc EXCEPT ![c] = "write"] /\ draft' = [draft EXCEPT ![c] = e]
        /\ UNCHANGED <<file, entries, leaf, state>>
    BY <1>2 DEF ReadLeaf
  <2> HIDE DEF e
  <2> QED BY <1>0, <2>1, <2>2, <2>3, <2>4, <2>5, HandSerial
<1>3. ASSUME NEW c \in Calls, MoveTo(c) PROVE Serial'
  <2>1. PICK target \in Targets :
          /\ May(c)
          /\ draft' = [draft EXCEPT ![c] =
               [kind |-> "leaf", id |-> NewId, parent |-> leaf, target |-> target, by |-> c]]
          /\ pc' = [pc EXCEPT ![c] = "write"]
          /\ uuids' = uuids + 1
          /\ UNCHANGED <<file, entries, leaf, state>>
    BY <1>3 DEF MoveTo
  <2> DEFINE e == [kind |-> "leaf", id |-> NewId, parent |-> leaf, target |-> target, by |-> c]
  <2>2. InFlight = {} /\ pc[c] = "new"  BY <2>1, AloneInFlight DEF May
  <2>3. target \in Nodes
    <3>1. \A i \in DOMAIN entries : entries[i].id \in Ids  BY <1>0 DEF Entry
    <3> QED BY <2>1, <3>1 DEF Targets, Known, Nodes
  <2>4. e \in Entry  BY <2>3, NewIdType DEF Entry, Kinds, TypeOK
  <2>5. e.id \notin Known(entries) /\ Before(e.id, uuids') /\ \A id : Before(id, uuids) => Before(id, uuids')
    BY <2>1, NewIdIsNew
  <2>6. draft' = [draft EXCEPT ![c] = e] /\ e.parent = leaf  BY <2>1
  <2> HIDE DEF e
  <2>7. InFlight \subseteq {c} /\ pc[c] # "written" /\ UNCHANGED <<file, entries, leaf, state>>
    BY <2>1, <2>2
  <2>8. pc' = [pc EXCEPT ![c] = "write"] /\ "write" \in {"id", "write"}  BY <2>1
  <2> QED BY <1>0, <2>4, <2>5, <2>6, <2>7, <2>8, HandSerial
<1>4. ASSUME NEW c \in Calls, SummaryId(c) PROVE Serial'
  <2> DEFINE e == [draft[c] EXCEPT !.kind = "summary", !.id = NewId, !.parent = draft[c].target,
                                   !.target = Undefined]
  <2>1. /\ c \in InFlight /\ draft[c] \in Entry /\ draft[c].kind = "leaf" /\ pc[c] = "summary"
        /\ uuids' = uuids + 1
    BY <1>4 DEF SummaryId, InFlight, TypeOK, CallTypeOK
  <2>2. draft[c].target = leaf /\ InFlight \subseteq {c}  BY <2>1 DEF Serial
  <2>3. draft[c].target \in Nodes /\ NewId \in Ids  BY <2>1, NewIdType DEF Entry, TypeOK
  <2>4. e \in Entry /\ e.parent = leaf /\ e.id = NewId
    BY <2>1, <2>2, <2>3 DEF Entry, Kinds
  <2>5. e.id \notin Known(entries) /\ Before(e.id, uuids') /\ \A id : Before(id, uuids) => Before(id, uuids')
    BY <2>1, <2>4, NewIdIsNew
  <2>6. /\ pc' = [pc EXCEPT ![c] = "write"] /\ draft' = [draft EXCEPT ![c] = e]
        /\ UNCHANGED <<file, entries, leaf, state>>
    BY <1>4 DEF SummaryId
  <2> HIDE DEF e
  <2>7. InFlight \subseteq {c} /\ pc[c] # "written" /\ "write" \in {"id", "write"}  BY <2>1, <2>2
  <2> QED BY <1>0, <2>4, <2>5, <2>6, <2>7, HandSerial
<1>5. ASSUME NEW c \in Calls, LineWritten(c) PROVE Serial'
  <2>1. c \in InFlight /\ draft[c] \in Entry /\ pc[c] = "write" /\ state = "open"
    BY <1>5 DEF LineWritten, InFlight, TypeOK, CallTypeOK
  <2>2. /\ \A x \in Calls \ {c} : pc'[x] = pc[x] /\ x \notin InFlight
        /\ pc'[c] = "written"
    BY <1>5, <2>1 DEF LineWritten, TypeOK, CallTypeOK, Serial
  <2>3. entries = Parsed(file)  BY <2>1, <2>2 DEF Serial, InFlight
  <2>4. Line(draft[c], "newline") \in Lines  BY <2>1, LineType
  <2>5. /\ file' = Append(file, Line(draft[c], "newline"))
        /\ DOMAIN file' = DOMAIN file \cup {Len(file) + 1}
        /\ \A i \in DOMAIN file : file'[i] = file[i]
        /\ file'[Len(file) + 1].entry = draft[c]
    BY <1>0, <1>5, <2>4, AppendGrows DEF LineWritten, Line
  <2>6. Parsed(file') = Append(Parsed(file), draft[c])
    <3>1. file' \in Seq(Lines) /\ Len(file') = Len(file) + 1  BY <1>0, <2>4, <2>5
    <3>2. /\ Parsed(file) \in Seq(Entry) /\ Len(Parsed(file)) = Len(file)
          /\ \A i \in 1..Len(file) : Parsed(file)[i] = file[i].entry
      BY <1>0, ParsedType
    <3>3. /\ Parsed(file') \in Seq(Entry) /\ Len(Parsed(file')) = Len(file')
          /\ \A i \in 1..Len(file') : Parsed(file')[i] = file'[i].entry
      BY <3>1, ParsedType
    <3>4. \A i \in 1..Len(file') : Parsed(file')[i] = Append(Parsed(file), draft[c])[i]
      BY <1>0, <2>1, <2>5, <3>1, <3>2, <3>3
    <3> QED BY <2>1, <3>1, <3>2, <3>3, <3>4
  <2>7. UNCHANGED <<entries, leaf, state, draft, uuids>>  BY <1>5 DEF LineWritten
  <2>8. \A i \in DOMAIN file' : Before(file'[i].entry.id, uuids)
    BY <2>1, <2>5 DEF Serial
  <2>9. InFlight' = InFlight  BY <2>1, <2>2 DEF InFlight
  <2>10. \A x \in Calls : pc'[x] \in {"id", "write", "written", "summary"} => x = c
    BY <2>2 DEF InFlight
  <2>11. LeafOf(entries)' = LeafOf(entries) /\ \A id : Before(id, uuids') = Before(id, uuids)
    BY <2>7 DEF LeafOf, LeafAfter, Before
  <2> QED BY <2>1, <2>2, <2>3, <2>6, <2>7, <2>8, <2>9, <2>10, <2>11 DEF Serial
<1>6. ASSUME NEW c \in Calls, WriteFails(c) PROVE Serial'
  <2>1. file' = file  BY <1>6 DEF WriteFails, Leftover
  <2>2. /\ \A x \in Calls \ {c} : pc'[x] = pc[x]
        /\ pc'[c] = "rejected" /\ pc[c] = "write"
        /\ UNCHANGED <<entries, leaf, state, draft, uuids>>
    BY <1>6 DEF WriteFails, TypeOK, CallTypeOK
  <2>3. \A x \in Calls : pc'[x] # "rejected" => pc'[x] = pc[x]  BY <2>2
  <2>4. InFlight' \subseteq InFlight  BY <2>3 DEF InFlight
  <2>5. \A x \in Calls : pc'[x] = "written" <=> pc[x] = "written"  BY <2>2
  <2>6. /\ LeafOf(entries)' = LeafOf(entries) /\ Parsed(file)' = Parsed(file)
        /\ Known(entries)' = Known(entries) /\ \A id : Before(id, uuids') = Before(id, uuids)
    BY <2>1, <2>2 DEF LeafOf, LeafAfter, Before, Parsed, Known
  <2> QED BY <2>1, <2>2, <2>3, <2>4, <2>5, <2>6 DEF Serial
<1>7. ASSUME NEW c \in Calls, Commit(c) PROVE Serial'
  <2>1. c \in InFlight /\ draft[c] \in Entry /\ pc[c] = "written" /\ state = "open"
    BY <1>7 DEF Commit, InFlight, TypeOK, CallTypeOK
  <2>2. /\ \A x \in Calls \ {c} : pc'[x] = pc[x] /\ x \notin InFlight
        /\ pc'[c] = IF draft[c].kind = "leaf" /\ summary[c] THEN "summary" ELSE "done"
        /\ UNCHANGED <<file, state, draft, uuids>>
        /\ entries' = Append(entries, draft[c]) /\ leaf' = LeafAfter(draft[c])
    BY <1>7, <2>1 DEF Commit, TypeOK, CallTypeOK, Serial
  <2>3. entries' = Parsed(file')
    <3>1. Parsed(file') = Parsed(file)  BY <2>2
    <3> QED BY <2>1, <2>2, <3>1 DEF Serial
  <2>4. leaf' = LeafOf(entries')
    <3>1. entries' # <<>> /\ entries'[Len(entries')] = draft[c]  BY <1>0, <2>1, <2>2
    <3> QED BY <2>2, <3>1 DEF LeafOf
  <2>5. \A x \in Calls : pc'[x] \notin {"id", "write", "written"}
    BY <2>2 DEF InFlight
  <2>6. InFlight' \subseteq {c}  BY <2>2 DEF InFlight
  <2>7. \A x \in Calls : pc'[x] = "summary" => x = c /\ draft[c].kind = "leaf"
    BY <2>2 DEF InFlight
  <2>8. \A x \in Calls : pc'[x] = "summary" => draft'[x].target = leaf'
    BY <2>2, <2>7 DEF LeafAfter
  <2>9. \A id : Before(id, uuids') = Before(id, uuids)  BY <2>2 DEF Before
  <2> QED BY <2>1, <2>2, <2>3, <2>4, <2>5, <2>6, <2>8, <2>9 DEF Serial
<1>8. CASE Tick \/ UNCHANGED vars
  <2>1. UNCHANGED <<file, mem, pc, draft, uuids>>  BY <1>8 DEF Tick, vars
  <2>2. /\ LeafOf(entries)' = LeafOf(entries) /\ Parsed(file)' = Parsed(file)
        /\ Known(entries)' = Known(entries) /\ \A id : Before(id, uuids') = Before(id, uuids)
        /\ InFlight' = InFlight
    BY <2>1 DEF LeafOf, LeafAfter, Before, Parsed, Known, InFlight
  <2> QED BY <2>1, <2>2 DEF Serial
<1>9. CASE Crash
  <2>1. file' = file /\ state' = "closed" /\ uuids' = uuids  BY <1>9 DEF Crash, Leftover
  <2>2. \A x \in Calls : pc'[x] \notin {"id", "write", "written", "summary"}
    BY <1>9 DEF Crash, InFlight, TypeOK, CallTypeOK
  <2>3. InFlight' = {}  BY <2>2 DEF InFlight
  <2>4. \A id : Before(id, uuids') = Before(id, uuids)  BY <2>1 DEF Before
  <2> QED BY <2>1, <2>2, <2>3, <2>4 DEF Serial
<1>10. CASE Open
  <2>1. UNCHANGED <<file, pc, draft, uuids>>  BY <1>10 DEF Open
  <2>2. InFlight = {}  BY <1>10 DEF Open, TypeOK, CallTypeOK
  <2>3. InFlight' = {}  BY <2>1, <2>2 DEF InFlight
  <2>4. \A x \in Calls : pc'[x] \notin {"id", "write", "written", "summary"}
    BY <2>3 DEF InFlight
  <2>5. state' = "open" => entries' = Parsed(file') /\ leaf' = LeafOf(entries')
    BY <1>10, <2>1 DEF Open, Load
  <2>6. \A id : Before(id, uuids') = Before(id, uuids)  BY <2>1 DEF Before
  <2> QED BY <2>1, <2>3, <2>4, <2>5, <2>6 DEF Serial
<1> QED BY <1>1, <1>2, <1>3, <1>4, <1>5, <1>6, <1>7, <1>8, <1>9, <1>10 DEF Next

\* A sequence is the front of what is appended to it.
LEMMA FrontOfAppend ==
  ASSUME NEW S, NEW s \in Seq(S), NEW e \in S
  PROVE  /\ Len(Append(s, e)) = Len(s) + 1
         /\ Append(s, e)[Len(s) + 1] = e
         /\ SubSeq(Append(s, e), 1, Len(s)) = s
<1> DEFINE t == Append(s, e)
           u == SubSeq(t, 1, Len(s))
<1>1. t \in Seq(S) /\ Len(t) = Len(s) + 1 /\ t[Len(s) + 1] = e /\ \A i \in 1..Len(s) : t[i] = s[i]
  OBVIOUS
<1>2. u \in Seq(S) /\ Len(u) = Len(s) /\ \A i \in 1..Len(s) : u[i] = t[i]
  BY <1>1
<1>3. u = s  BY <1>1, <1>2
<1> QED BY <1>1, <1>3

\* A line written by a serial call is a line the log promises.
LEMMA WriteExtends ==
  ASSUME TypeOK, Resolvable, Serial, NEW c \in Calls, LineWritten(c), Serial'
  PROVE  Log!Extend
<1> DEFINE e == draft[c]
           log == Parsed(file)
<1>0. /\ file \in Seq(Lines) /\ entries \in Seq(Entry) /\ e \in Entry /\ c \in InFlight
      /\ state = "open" /\ pc[c] = "write"
  BY DEF TypeOK, CallTypeOK, Lines, LineWritten, InFlight
<1>1. entries = log  BY <1>0 DEF Serial, InFlight
<1>2. pc'[c] = "written" /\ draft' = draft /\ entries' = entries
  BY DEF LineWritten, mem, TypeOK, CallTypeOK
<1>3. log' = Append(log, e)  BY <1>1, <1>2 DEF Serial
<1>4. log \in Seq(Entry)  BY <1>0, <1>1
<1>5. Len(log') = Len(log) + 1 /\ SubSeq(log', 1, Len(log)) = log /\ log'[Len(log')] = e
  BY <1>0, <1>3, <1>4, FrontOfAppend
<1>6. e.id \notin Log!Known
  <2>1. e.id \notin Known(entries)  BY <1>0 DEF Serial
  <2> QED BY <1>1, <2>1 DEF Known, Log!Known
<1>7. e.parent = Log!LeafOf(log)
  <2>1. e.parent = LeafOf(entries)  BY <1>0 DEF Serial
  <2> QED BY <1>1, <2>1 DEF LeafOf, LeafAfter, Log!LeafOf
<1>8. e.kind = "leaf" => e.target \in Log!Known \cup {Root}
  <2>1. e.kind = "leaf" => e.target \in Known(entries) \cup {Root}
    BY <1>0 DEF Resolvable, Rooted
  <2> QED BY <1>1, <2>1 DEF Known, Log!Known
<1> QED BY <1>5, <1>6, <1>7, <1>8 DEF Log!Extend

\* Calls made one after another implement the log: whatever crashes, and whichever writes fail
\* without leaving part of a line, every line continues the active branch under a new id.
THEOREM SerialCallsKeepLog ==
  ASSUME MaxInFlight \leq 1, Cuts = {}
  PROVE  Spec => FileIsLog
<1> DEFINE Inv == TypeOK /\ Resolvable /\ Serial
<1>1. Init => Inv /\ Log!Init
  <2>1. Init => Log!Init  BY DEF Init, Log!Init, Parsed
  <2> QED BY <2>1, InitTypes, InitResolvable, InitSerial
<1>2. Inv /\ [Next]_vars => Inv'  BY StepTypes, StepResolvable, StepSerial
<1>3. Inv /\ [Next]_vars => [Log!Extend]_(Parsed(file))
  <2> SUFFICES ASSUME Inv, [Next]_vars PROVE Log!Extend \/ UNCHANGED Parsed(file)
    OBVIOUS
  <2>1. ASSUME NEW c \in Calls, LineWritten(c) PROVE Log!Extend
    BY <1>2, <2>1, WriteExtends
  <2>2. CASE UNCHANGED file  BY <2>2
  <2>3. \A c \in Calls : CreateEntryId(c) \/ ReadLeaf(c) \/ MoveTo(c) \/ SummaryId(c)
                         \/ WriteFails(c) \/ Commit(c) => UNCHANGED file
    BY DEF CreateEntryId, ReadLeaf, MoveTo, SummaryId, WriteFails, Commit, Leftover
  <2>4. Tick \/ Crash \/ Open \/ UNCHANGED vars => UNCHANGED file
    BY DEF Tick, Crash, Open, vars, Leftover
  <2> QED BY <2>1, <2>2, <2>3, <2>4 DEF Next
<1> QED BY <1>1, <1>2, <1>3, PTL DEF Spec, FileIsLog, Log!Spec

\* Under the same conditions memory is what opening the file again would build, whenever no line
\* has just been written.
THEOREM SerialMemoryIsFile ==
  ASSUME MaxInFlight \leq 1, Cuts = {}
  PROVE  Spec => []MemoryIsFile
<1> DEFINE Inv == TypeOK /\ Resolvable /\ Serial
<1>1. Init => Inv  BY InitTypes, InitResolvable, InitSerial
<1>2. Inv /\ [Next]_vars => Inv'  BY StepTypes, StepResolvable, StepSerial
<1>3. Inv => MemoryIsFile  BY DEF Serial, MemoryIsFile
<1> QED BY <1>1, <1>2, <1>3, PTL DEF Spec
=============================================================================
