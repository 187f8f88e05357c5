--------------------------- MODULE MCAgentSession ---------------------------
(* A small instance of AgentSession for TLC. *)
EXTENDS AgentSession, TLC

CONSTANTS u1, u2, b1

Symmetry == Permutations(Users)
=============================================================================
