---------------------------- MODULE MCBoardSessions ----------------------------
EXTENDS BoardSessions, TLC

CONSTANTS
  i1, i2,       \* two issues
  s1, s2,       \* two sessions: one can be superseded by a relaunch
  p1,           \* a project
  MaxIds        \* bound: how many ids are given out

Symmetry == Permutations(Issues) \cup Permutations(Sessions)

(* A behaviour uses any MaxIds of the ids, over all restarts.              *)
MCSpec == Init /\ [][Next /\ Cardinality(used') <= MaxIds]_vars
================================================================================
