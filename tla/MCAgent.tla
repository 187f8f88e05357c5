------------------------------- MODULE MCAgent -------------------------------
(***************************************************************************)
(* Agent on small instances.                                               *)
(***************************************************************************)
EXTENDS Agent, TLC

Symmetry == Permutations(Msgs)

\* The second run finds both queues in the default mode.
ModesFirst == runs' = 2 => \A q \in Queues : qmode'[q] = "one-at-a-time"
==============================================================================
