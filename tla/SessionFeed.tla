----------------------------- MODULE SessionFeed -----------------------------
(***************************************************************************)
(* What the session pipeline promises, with every thread and channel       *)
(* hidden: the chunks a child process emits are shown on the screen of its *)
(* session one by one, in the order they were emitted, none lost and none  *)
(* twice, until the application ends.  A chunk is known by its position in *)
(* the child's output.                                                     *)
(***************************************************************************)
EXTENDS Naturals, Sequences

CONSTANT Sessions   \* the session ids

VARIABLES
  open,     \* the application has not ended
  emitted,  \* emitted[s]: how many chunks the child of s has produced
  shown     \* shown[s]: the chunks fed to the terminal parser of s, in order

vars == <<open, emitted, shown>>

Init ==
  /\ open = TRUE
  /\ emitted = [s \in Sessions |-> 0]
  /\ shown = [s \in Sessions |-> <<>>]

Emit(s) ==
  /\ open
  /\ emitted' = [emitted EXCEPT ![s] = @ + 1]
  /\ UNCHANGED <<open, shown>>

(* Only the next chunk may be shown, and only after it was emitted. *)
Show(s) ==
  /\ open
  /\ Len(shown[s]) < emitted[s]
  /\ shown' = [shown EXCEPT ![s] = Append(@, Len(@) + 1)]
  /\ UNCHANGED <<open, emitted>>

End ==
  /\ open
  /\ open' = FALSE
  /\ UNCHANGED <<emitted, shown>>

Next == End \/ \E s \in Sessions : Emit(s) \/ Show(s)

SafeSpec == Init /\ [][Next]_vars

(* Whatever was emitted is eventually shown, unless the application ends. *)
Spec == SafeSpec /\ \A s \in Sessions : WF_vars(Show(s))
=============================================================================
