------------------------------ MODULE MCApiTickets ------------------------------
(* Bounded instance of ApiTickets for TLC.  Comments are read page by page  *)
(* in a small part of it: one issue, one project and one key.               *)
EXTENDS ApiTickets

CONSTANTS
  DEV, DEV2, DEV22,  \* a derived key, and keys made from it with suffixes
  development,       \* the name it is derived from
  MaxNotes           \* bound on the comments outside the small part

MCDeriveKey == [n \in Names |-> DEV]

MCVariants ==
  [k \in Keys |-> SelectSeq(IF k = DEV THEN <<DEV, DEV2, DEV22>>
                            ELSE IF k = DEV2 THEN <<DEV2, DEV22>> ELSE <<DEV22>>,
                            LAMBDA v : v \in Keys)]

Small ==
  /\ used \subseteq {1} /\ DOMAIN projects \subseteq {1}
  /\ \A p \in DOMAIN projects : projects[p].key = DEV

Bounded == Small \/ (reader = Idle /\ lastComment <= MaxNotes)

(* The steps of Next that stay within the bounds.                           *)
MCNext ==
  \/ \E p \in Projects, name \in Names : ProjectCreate(p, name) /\ Bounded'
  \/ \E p \in Projects, key \in Keys : ProjectSetIdentifier(p, key) /\ Bounded'
  \/ \E i \in Issues : IssueCreate(i) /\ Bounded'
  \/ \E i \in Issues, p \in Projects : IssueAssignProject(i, p) /\ Bounded'
  \/ \E i \in Issues : IssueUnassignProject(i) /\ Bounded'
  \/ \E i \in Issues : IssueDelete(i) /\ Bounded'
  \/ \E e \in Entities : CommentAdd(e) /\ Bounded'
  \/ \E e \in Entities, order \in {"asc", "desc"}, limit \in Limits :
        ReadFirst(e, order, limit) /\ Bounded'
  \/ ReadPage /\ Bounded'
  \/ Reload /\ Bounded'

MCSpec == Init /\ [][MCNext]_vars
================================================================================
