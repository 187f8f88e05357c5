--------------------------- MODULE MCAgentHarness ---------------------------
(***************************************************************************)
(* AgentHarness on small instances.                                        *)
(***************************************************************************)
EXTENDS AgentHarness, TLC

Symmetry == Permutations(Runs) \cup Permutations(Writes) \cup Permutations(Msgs)

Unused(ops) == \A o \in ops : pc[o] = "new"

\* Two runs with the writes and structural operations, or with the messages and aborts.  With a
\* structural operation there is one write and one failure at most.
StoreAlone == Unused(Msgs \cup Aborts) /\ (Unused(Structs) \/ (faults <= 1 /\ \E w \in Writes : Unused({w})))
MailAlone  == Unused(Writes \cup Structs) /\ faults <= 1 /\ \A r \in Runs : run[r].turns = 0

EitherSpec == Init /\ [][Next /\ (StoreAlone \/ MailAlone)']_vars
=============================================================================
