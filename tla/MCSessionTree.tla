--------------------------- MODULE MCSessionTree ---------------------------
(***************************************************************************)
(* SessionTree on small instances.                                         *)
(***************************************************************************)
EXTENDS SessionTree, TLC

Symmetry == Permutations(Calls)
=============================================================================
