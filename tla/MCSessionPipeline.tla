-------------------------- MODULE MCSessionPipeline --------------------------
EXTENDS SessionPipeline, TLC

CONSTANTS
  s1, s2,        \* two sessions
  small, large   \* two window sizes

(* One talkative session and one that only says a word: both orders of     *)
(* their chunks in the shared channel occur.                               *)
Chunks21 == [s \in Sessions |-> IF s = s1 THEN 2 ELSE 1]
Chunks3 == [s \in Sessions |-> 3]
=============================================================================
