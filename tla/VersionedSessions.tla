--------------------------- MODULE VersionedSessions ---------------------------
(***************************************************************************)
(* What the stdio daemon promises its clients, with every lock hidden:     *)
(* each call takes effect in one indivisible step between its invocation   *)
(* and its return, and a status write that names a version succeeds only   *)
(* if that version is still the current one.                               *)
(***************************************************************************)
EXTENDS Naturals

CONSTANTS
  Clients,   \* threads that issue calls
  Sessions,  \* session ids
  Restored,  \* sessions that exist initially, unchanged since their creation
  Statuses,  \* session states a client may set
  Created,   \* the state of a new session
  Versions,  \* versions a client may expect
  None       \* no expected version, no call, no reply

VARIABLES
  records,  \* records[s]: version (0: there is no such session) and status
  call,     \* call[c]: the call in progress, or None
  reply     \* reply[c]: its outcome once it took effect, or None

vars == <<records, call, reply>>

Calls ==
       [op : {"create", "list"}]
  \cup [op : {"set"}, session : Sessions, status : Statuses,
        expected : {None} \cup Versions]

Replies ==
  [outcome : {"ok", "not_found", "conflict"},
   found : SUBSET [session : Sessions, version : Nat, status : Statuses \cup {Created}]]

Absent == [version |-> 0, status |-> Created]
New == [version |-> 1, status |-> Created]

Reply(outcome, found) == [outcome |-> outcome, found |-> found]

(* The session records a reply shows. *)
View(recs, ids) ==
  {[session |-> s, version |-> recs[s].version, status |-> recs[s].status] : s \in ids}

Existing(recs) == {s \in Sessions : recs[s].version > 0}

Init ==
  /\ records = [s \in Sessions |-> IF s \in Restored THEN New ELSE Absent]
  /\ call = [c \in Clients |-> None]
  /\ reply = [c \in Clients |-> None]

Invoke(c) ==
  /\ call[c] = None
  /\ \E k \in Calls : call' = [call EXCEPT ![c] = k]
  /\ UNCHANGED <<records, reply>>

Create(c) ==
  \E s \in Sessions :
    /\ records[s].version = 0
    /\ records' = [records EXCEPT ![s] = New]
    /\ reply' = [reply EXCEPT ![c] = Reply("ok", View(records', {s}))]

List(c) ==
  /\ reply' = [reply EXCEPT ![c] = Reply("ok", View(records, Existing(records)))]
  /\ UNCHANGED records

Set(c) ==
  LET s == call[c].session
      current == records[s].version
  IN  \/ /\ current = 0
         /\ reply' = [reply EXCEPT ![c] = Reply("not_found", {})]
         /\ UNCHANGED records
      \/ /\ current > 0
         /\ call[c].expected \notin {None, current}
         /\ reply' = [reply EXCEPT ![c] = Reply("conflict", {})]
         /\ UNCHANGED records
      \/ /\ current > 0
         /\ call[c].expected \in {None, current}
         /\ records' = [records EXCEPT ![s] = [version |-> current + 1,
                                               status |-> call[c].status]]
         /\ reply' = [reply EXCEPT ![c] = Reply("ok", View(records', {s}))]

(* The call takes effect. *)
Perform(c) ==
  /\ call[c] # None
  /\ reply[c] = None
  /\ \/ call[c].op = "create" /\ Create(c)
     \/ call[c].op = "list" /\ List(c)
     \/ call[c].op = "set" /\ Set(c)
  /\ UNCHANGED call

Return(c) ==
  /\ reply[c] # None
  /\ call' = [call EXCEPT ![c] = None]
  /\ reply' = [reply EXCEPT ![c] = None]
  /\ UNCHANGED records

Next == \E c \in Clients : Invoke(c) \/ Perform(c) \/ Return(c)

Spec == Init /\ [][Next]_vars
================================================================================
