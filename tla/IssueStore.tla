------------------------------ MODULE IssueStore ------------------------------
(***************************************************************************)
(* The DuckDB database of store-duckdb: open_and_migrate, which runs every *)
(* statement of the four migrations again whenever the file is opened, and *)
(* the links between issues and sessions.  A statement is on disk when it  *)
(* returns; the process may die between any two of them.                   *)
(***************************************************************************)
EXTENDS Naturals, Sequences, FiniteSets, SequencesExt

CONSTANTS Issues, Sessions

VARIABLES
  schema,    \* the tables, columns, indexes and recorded versions on disk
  step,      \* statements done by the open in progress; 0 when closed
  status,    \* the issues that have a row, with their status
  links      \* per issue the links, oldest first

storeVars == <<schema, step, status, links>>

-----------------------------------------------------------------------------
(* Migrations *)

Adds(x) == [adds |-> {x}, drops |-> {}]
Drops(x) == [adds |-> {}, drops |-> {x}]

(* Tables and columns that come together stand as one object.              *)
Migration001 == <<Adds("tables"), Adds("idx_sessions"), Adds("idx_events"),
                  Adds("idx_issues_board"), Adds("idx_mappings"), Adds("version 1")>>
Migration002 == <<Adds("project columns"), Adds("issue columns"), Adds("version 2")>>
Migration003 == <<Adds("uq_projects"), Adds("uq_issues"), Adds("version 3")>>

(* ALTER TABLE is refused while an index of the table is there; this one   *)
(* changes the table at every open.                                        *)
Migration004 == <<Drops("uq_issues"), Drops("idx_issues_board"), Adds("optional project"),
                  Adds("uq_issues"), Adds("idx_issues_board"), Adds("issue_migrations"),
                  Adds("idx_issue_migrations"), Adds("version 4")>>

Statements == Migration001 \o Migration002 \o Migration003 \o Migration004
Latest == UNION {Statements[i].adds : i \in DOMAIN Statements}

Closed == step = 0
Open == step > Len(Statements)

(* Nothing is done when the recorded version looks recent enough.          *)
FaultyOpenFile ==
  /\ Closed
  /\ step' = IF "version 3" \in schema THEN Len(Statements) + 1 ELSE 1
  /\ UNCHANGED <<schema, status, links>>

(* Connection::open; the versions recorded are not looked at.              *)
OpenFile ==
  /\ Closed
  /\ step' = 1
  /\ UNCHANGED <<schema, status, links>>

(* apply_all, one statement                                                *)
Apply ==
  /\ step \in DOMAIN Statements
  /\ schema' = (schema \ Statements[step].drops) \cup Statements[step].adds
  /\ step' = step + 1
  /\ UNCHANGED <<status, links>>

(* The connection is dropped, or the process dies, at any statement.       *)
CloseFile ==
  /\ ~Closed
  /\ step' = 0
  /\ UNCHANGED <<schema, status, links>>

-----------------------------------------------------------------------------
(* Links *)

InProgress(i) == i \in DOMAIN status /\ status[i] = "in_progress"
Link(s, p) == [session |-> s, primary |-> p]
Linked(q, s) == \E k \in DOMAIN q : q[k].session = s
Demoted(q, s) == [k \in DOMAIN q |-> IF q[k].session # s THEN Link(q[k].session, FALSE) ELSE q[k]]

(* INSERT ... ON CONFLICT DO UPDATE: a link that is there keeps its place. *)
Upserted(q, s, p) ==
  IF Linked(q, s) THEN [k \in DOMAIN q |-> IF q[k].session = s THEN Link(s, p) ELSE q[k]]
                  ELSE Append(q, Link(s, p))

Primaries(q) == {k \in DOMAIN q : q[k].primary}

(* The others are demoted only when the link is new.                       *)
FaultyWithLink(i, s, p) ==
  Upserted(IF p /\ InProgress(i) /\ ~Linked(links[i], s) THEN Demoted(links[i], s) ELSE links[i], s, p)

(* The links of an issue after create_link.                                *)
WithLink(i, s, p) ==
  Upserted(IF p /\ InProgress(i) THEN Demoted(links[i], s) ELSE links[i], s, p)

(* create_link, one transaction.  A primary link of an issue without a row *)
(* fails and leaves nothing; a secondary one needs no row.                 *)
CreateLink(i, s, p) ==
  /\ Open
  /\ p => i \in DOMAIN status
  /\ links' = [links EXCEPT ![i] = WithLink(i, s, p)]
  /\ UNCHANGED <<schema, step, status>>

(* primary_for_issue: the oldest link that is primary.                     *)
PrimaryForIssue(i) ==
  LET q == links[i] IN {q[k].session : k \in {k \in Primaries(q) : \A j \in Primaries(q) : k <= j}}

(* Nothing in the crates writes issue rows but tests; they come and change *)
(* their status as the caller likes.                                       *)
SetStatus(i, st) ==
  /\ Open
  /\ status' = [j \in DOMAIN status \cup {i} |-> IF j = i THEN st ELSE status[j]]
  /\ UNCHANGED <<schema, step, links>>

-----------------------------------------------------------------------------
StoreInit ==
  /\ schema = {} /\ step = 0
  /\ status = <<>> /\ links = [i \in Issues |-> <<>>]

-----------------------------------------------------------------------------
(* Properties *)

(* Wherever earlier opens were cut off, an open that finishes has every    *)
(* table, column and index of the latest schema, the two unique indexes    *)
(* that the last migration drops and makes again among them; a recorded    *)
(* version alone does not say so while a file is being opened.             *)
SchemaIsWhole == Open => schema = Latest

(* While an issue is in progress no link becomes primary beside another,   *)
(* so that the one made primary last is the one looked up; several that    *)
(* were made before the issue was taken up stay until then.                *)
OnePrimary ==
  [][\A i \in Issues : InProgress(i) =>
       \A k \in Primaries(links'[i]) \ Primaries(links[i]) :
          Primaries(links'[i]) = {k} /\ PrimaryForIssue(i)' = {links'[i][k].session}]_storeVars
=============================================================================
