----------------------------- MODULE MCBoardInput -----------------------------
(* Bounded instances of BoardInput for TLC. *)
EXTENDS BoardInput

MCStatuses == <<"backlog", "in_progress">>
MCFilters == {None, <<"status", "backlog">>}

(* Boards whose first issue is in the first column, without a project.     *)
MCInit == Init /\ issues[1].status = "backlog" /\ issues[1].project = None /\ issues[1].session = "none"
MCSpec == MCInit /\ [][Next]_vars
==============================================================================
