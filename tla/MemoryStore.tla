----------------------------- MODULE MemoryStore -----------------------------
(***************************************************************************)
(* The memory tools of coding-agent/src/core/memory: MemoryStore.write and *)
(* compact (memory-store.ts) read the file of a target, compute its new    *)
(* entries and rename a new file over it; memory_compact and               *)
(* memory_research_report (memory-tools.ts) are built on them.  Tools run  *)
(* in parallel, and there is no lock.  A target holds a set of entries, of *)
(* which a call adds one; the limit of a target counts entries.            *)
(***************************************************************************)
EXTENDS Naturals, FiniteSets

CONSTANTS
  MemoryCalls,
  KindOf,      \* of each call: "add", "replace", "compact" or "report"
  TargetOf,
  LimitOf,     \* of each target
  MaxStamps    \* bound: milliseconds at which temporary files are made

Targets == DOMAIN LimitOf

ASSUME MemoryAssumption ==
  /\ KindOf \in [MemoryCalls -> {"add", "replace", "compact", "report"}]
  /\ TargetOf \in [MemoryCalls -> Targets] /\ LimitOf \in [Targets -> Nat]
  /\ MaxStamps \in Nat \ {0}

VARIABLES
  memory,     \* the file of each target; an entry is the call that added it
  temps,      \* temporary files: [stamp, entries]
  clock,      \* Date.now()
  memoryCall, \* the await each call is at
  seen,       \* of a compaction: the entries the agent counted and summarised
  working,    \* of each call: the entries it is about to write
  stamp,      \* of each call: what its temporary file is named after
  rollback,   \* the reports that take their entry back
  filed,      \* the reports that are in .pi/research
  overlapped, \* history: targets two calls have worked on at once
  clashed     \* history: two temporary files had the same name

memoryVars == <<memory, temps, clock, memoryCall, seen, working, stamp, rollback, filed, overlapped, clashed>>

MemoryInit ==
  /\ memory = [t \in Targets |-> {}]
  /\ temps = {} /\ clock = 1
  /\ memoryCall = [c \in MemoryCalls |-> "new"]
  /\ seen = [c \in MemoryCalls |-> {}] /\ working = [c \in MemoryCalls |-> {}]
  /\ stamp = [c \in MemoryCalls |-> 0]
  /\ rollback = {} /\ filed = {} /\ overlapped = {} /\ clashed = FALSE

Answered(c) == memoryCall[c] \in {"ok", "error", "threw"}
Working(c) == memoryCall[c] \in {"read", "temp", "rename", "report"}
MemoryGoto(c, there) == memoryCall' = [memoryCall EXCEPT ![c] = there]

\* The agent lists the target before it compacts it.
Observe(c) ==
  /\ memoryCall[c] = "new" /\ KindOf[c] = "compact"
  /\ seen' = [seen EXCEPT ![c] = memory[TargetOf[c]]]
  /\ MemoryGoto(c, "seen")
  /\ UNCHANGED <<memory, temps, clock, working, stamp, rollback, filed, overlapped, clashed>>

Call(c) ==
  /\ memoryCall[c] = IF KindOf[c] = "compact" THEN "seen" ELSE "new"
  /\ MemoryGoto(c, "read")
  /\ overlapped' = overlapped \cup
       {TargetOf[d] : d \in {e \in MemoryCalls : Working(e) /\ TargetOf[e] = TargetOf[c]}}
  /\ UNCHANGED <<memory, temps, clock, seen, working, stamp, rollback, filed, clashed>>

\* What an operation makes of the entries it read; an entry it asks for may not be there.
Results(c, entries) ==
  CASE c \in rollback -> IF c \in entries THEN {entries \ {c}} ELSE {}
    [] c \notin rollback /\ KindOf[c] = "replace" -> {(entries \ {e}) \cup {c} : e \in entries}
    [] c \notin rollback /\ KindOf[c] = "compact" -> IF Cardinality(entries) = Cardinality(seen[c]) THEN {{c}} ELSE {}
    [] OTHER -> {entries \cup {c}}

Bug_Fits(c, entries) == TRUE

Fits(c, entries) == Cardinality(entries) <= LimitOf[TargetOf[c]]

\* readEntries, which takes every error for an empty file, and the operations on what was read.  "threw"
\* stands for a call that rejects, and for a report that could not take its entry back.
ReadEntries(c) ==
  /\ memoryCall[c] = "read"
  /\ \E entries \in {memory[TargetOf[c]], {}} :
       LET results == {new \in Results(c, entries) : Fits(c, new)}
       IN IF results = {}
          THEN MemoryGoto(c, IF c \in rollback THEN "threw" ELSE "error") /\ UNCHANGED working
          ELSE MemoryGoto(c, "temp") /\ \E new \in results : working' = [working EXCEPT ![c] = new]
  /\ UNCHANGED <<memory, temps, clock, seen, stamp, rollback, filed, overlapped, clashed>>

\* Date.now(), once the directory is there.
StampNow(c) == clock'

Named(c) ==
  /\ clock' \in {clock, clock + 1} /\ clock' <= MaxStamps
  /\ stamp' = [stamp EXCEPT ![c] = StampNow(c)]
  /\ clashed' = (clashed \/ \E d \in MemoryCalls : memoryCall[d] = "rename" /\ stamp[d] = clock')

\* writeEntries: the temporary file is written, or removed if it cannot be, ...
WriteTemp(c) ==
  /\ memoryCall[c] = "temp"
  /\ Named(c)
  /\ LET others == {x \in temps : x.stamp # StampNow(c)}
     IN \/ /\ temps' = others \cup {[stamp |-> StampNow(c), entries |-> working[c]]}
           /\ MemoryGoto(c, "rename")
        \/ temps' = others /\ MemoryGoto(c, "threw")
  /\ UNCHANGED <<memory, seen, working, rollback, filed, overlapped>>

AfterRename(c) ==
  IF c \in rollback THEN "error" ELSE IF KindOf[c] = "report" THEN "report" ELSE "ok"

\* ... and renamed, if it is still there; what is left of it is removed.
Rename(c) ==
  /\ memoryCall[c] = "rename"
  /\ temps' = {x \in temps : x.stamp # stamp[c]}
  /\ \/ \E x \in temps :
          /\ x.stamp = stamp[c]
          /\ memory' = [memory EXCEPT ![TargetOf[c]] = x.entries]
          /\ MemoryGoto(c, AfterRename(c))
     \/ /\ \A x \in temps : x.stamp # stamp[c]
        /\ MemoryGoto(c, "threw")
        /\ UNCHANGED memory
  /\ UNCHANGED <<clock, seen, working, stamp, rollback, filed, overlapped, clashed>>

\* memory_research_report writes the report once its entry is in the memory ...
FileReport(c) ==
  /\ memoryCall[c] = "report"
  /\ filed' = filed \cup {c}
  /\ MemoryGoto(c, "ok")
  /\ UNCHANGED <<memory, temps, clock, seen, working, stamp, rollback, overlapped, clashed>>

\* ... and removes the entry if it cannot.
ReportFails(c) ==
  /\ memoryCall[c] = "report"
  /\ rollback' = rollback \cup {c}
  /\ MemoryGoto(c, "read")
  /\ UNCHANGED <<memory, temps, clock, seen, working, stamp, filed, overlapped, clashed>>

MemoryNext == \E c \in MemoryCalls :
  \/ Observe(c) \/ Call(c) \/ ReadEntries(c) \/ WriteTemp(c) \/ Rename(c)
  \/ FileReport(c) \/ ReportFails(c)

MemorySpec == MemoryInit /\ [][MemoryNext]_memoryVars

(***************************************************************************)
(* Properties.                                                             *)
(***************************************************************************)
\* A report whose call is over is in .pi/research if the memory names it, unless taking the entry back
\* failed as well, or calls overlapped: "report 文件写入失败时会回滚 compact memory index".
ReportIsFiled(c) ==
  (KindOf[c] = "report" /\ memoryCall[c] \in {"ok", "error"} /\ TargetOf[c] \notin overlapped)
    => (c \in memory[TargetOf[c]] => c \in filed)

\* The file of a target holds entries of that target only, and no more than its limit, whatever calls
\* overlap: writes are whole.  The reports it names are filed.  Excepted are temporary files made in
\* the same millisecond.
MemoryIsWhole == clashed \/
  /\ \A t \in Targets :
       (\A c \in memory[t] : TargetOf[c] = t) /\ Cardinality(memory[t]) <= LimitOf[t]
  /\ \A c \in MemoryCalls : ReportIsFiled(c)
=============================================================================
