------------------------------ MODULE MCEventFlow ------------------------------
(* A bounded instance of EventFlow for TLC. *)
EXTENDS EventFlow

(* A way through the table with branches, loops and two ends.               *)
MCGoals == {"starting", "running", "failed", "terminated", "suspended", "busy"}
=============================================================================
