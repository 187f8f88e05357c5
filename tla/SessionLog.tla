----------------------------- MODULE SessionLog -----------------------------
(***************************************************************************)
(* What a session promises when its calls are made one after another: a    *)
(* log of entries that only grows, each line continuing the branch that    *)
(* was active after the line before it.  The leaf is not state of its own: *)
(* it is what the last line says.                                          *)
(***************************************************************************)
EXTENDS Sequences, Naturals

CONSTANT Root
VARIABLE log

LeafOf(s) ==
  IF s = <<>> THEN Root
  ELSE IF s[Len(s)].kind = "leaf" THEN s[Len(s)].target ELSE s[Len(s)].id

Known == {log[i].id : i \in DOMAIN log}

Init == log = <<>>

\* One new entry, under a new id, on the active branch; a leaf entry names a known target.
Extend ==
  /\ Len(log') = Len(log) + 1 /\ SubSeq(log', 1, Len(log)) = log
  /\ LET e == log'[Len(log')] IN
       /\ e.id \notin Known
       /\ e.parent = LeafOf(log)
       /\ e.kind = "leaf" => e.target \in Known \cup {Root}

Spec == Init /\ [][Extend]_log
=============================================================================
