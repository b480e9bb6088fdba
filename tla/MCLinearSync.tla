------------------------------ MODULE MCLinearSync ------------------------------
(* A bounded instance of LinearSync and the store for TLC. *)
EXTENDS LinearSync

(* A mapping that knows half of the statuses, and one that knows all.      *)
MCProfiles == {[external |-> {"Todo"}, local |-> {"todo"}],
               [external |-> {"Todo", "Doing"}, local |-> {"todo", "in_progress"}]}

(* Links and synchronisation read nothing of each other, so they are       *)
(* explored one beside the migrations at a time.                           *)
OnePart == profile = None \/ \A i \in Issues : links[i] = <<>>

Symmetry == Permutations(Sessions)
=============================================================================
