----------------------------- MODULE MCStateFile -----------------------------
(* Bounded instances of StateFile for TLC. *)
EXTENDS StateFile

CONSTANTS board, mcp, c1, i1, p1
==============================================================================
