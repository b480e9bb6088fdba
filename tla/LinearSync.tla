------------------------------ MODULE LinearSync ------------------------------
(***************************************************************************)
(* integration-linear on top of the database: the mapping profile it keeps *)
(* there, and the engine that pulls the issues of Linear and pushes the    *)
(* statuses of the local ones.  The engine remembers in memory what it has *)
(* done; its caller keeps the cursor.  What is pulled and pushed is only   *)
(* counted or reported as quarantined: nothing is written or sent.         *)
(***************************************************************************)
EXTENDS IssueStore

CONSTANTS
  ExternalIds,
  ExternalStatuses,
  Profiles,      \* the mappings: [external, local] statuses that are known
  None

VARIABLES
  profile,    \* the saved mapping
  remote,     \* the issues that Linear lists
  cursor,     \* last_offset
  processed,  \* processed_operation_ids
  outcome,    \* history: per operation how it ended the last time
  shrunk      \* history: the list of Linear has lost an issue

syncVars == <<profile, remote, cursor, processed, outcome, shrunk>>
vars == <<storeVars, syncVars>>

-----------------------------------------------------------------------------
(* The name of a pull has no status: a change of an issue that was pulled  *)
(* is passed over.  That of a push has: going back to a status that was    *)
(* pushed before is passed over.                                           *)
PullOp(issue) == <<"pull", issue.id>>
PushOp(i) == <<"push", i, status[i]>>

(* linear_mapping_profiles: the row of the one profile is replaced.        *)
SaveProfile(p) ==
  /\ Open
  /\ profile' = p
  /\ UNCHANGED <<storeVars, remote, cursor, processed, outcome, shrunk>>

(* A new operation counts as done before its status is looked at, so one   *)
(* that is quarantined is not tried again when the mapping has changed.    *)
Done(ops, Known(_)) ==
  LET fresh == ops \ processed IN
  /\ processed' = processed \cup fresh
  /\ outcome' = [op \in DOMAIN outcome \cup fresh |->
       IF op \notin fresh THEN outcome[op] ELSE IF Known(op) THEN "counted" ELSE "quarantined"]

Ready == Open /\ profile # None

(* Issues of unknown status are passed over without a word.                *)
FaultyPull ==
  LET news == SubSeq(remote, cursor + 1, Len(remote))
      Known(op) == \E x \in Range(news) : PullOp(x) = op /\ x.status \in profile.external
      known == {x \in Range(news) : x.status \in profile.external}
  IN /\ Ready
     /\ Done({PullOp(x) : x \in known}, Known)
     /\ cursor' = Len(remote)
     /\ UNCHANGED <<storeVars, profile, remote, shrunk>>

(* The cursor moves to the end of the list, also when that got shorter.    *)
Pull ==
  LET news == SubSeq(remote, cursor + 1, Len(remote))
      Known(op) == \E x \in Range(news) : PullOp(x) = op /\ x.status \in profile.external
  IN /\ Ready
     /\ Done({PullOp(x) : x \in Range(news)}, Known)
     /\ cursor' = Len(remote)
     /\ UNCHANGED <<storeVars, profile, remote, shrunk>>

Push ==
  LET Known(op) == op[3] \in profile.local
  IN /\ Ready
     /\ Done({PushOp(i) : i \in DOMAIN status}, Known)
     /\ UNCHANGED <<storeVars, profile, remote, cursor, shrunk>>

(* Linear: an issue is added at the end, changes its status or is removed. *)
RemoteChange ==
  /\ \/ \E x \in ExternalIds, st \in ExternalStatuses :
          /\ \A y \in Range(remote) : y.id # x
          /\ remote' = Append(remote, [id |-> x, status |-> st])
          /\ UNCHANGED shrunk
     \/ \E k \in DOMAIN remote, st \in ExternalStatuses :
          remote' = [remote EXCEPT ![k].status = st] /\ UNCHANGED shrunk
     \/ \E k \in DOMAIN remote : remote' = RemoveAt(remote, k) /\ shrunk' = TRUE
  /\ UNCHANGED <<storeVars, profile, cursor, processed, outcome>>

(* The process ends, in the middle of an open or later.  The cursor may    *)
(* have been kept by the caller; what the engine has done is forgotten.    *)
Restart ==
  /\ CloseFile
  /\ processed' = {}
  /\ cursor' \in {0, cursor}
  /\ UNCHANGED <<profile, remote, outcome, shrunk>>

-----------------------------------------------------------------------------
Init ==
  /\ StoreInit
  /\ profile = None /\ remote = <<>> /\ cursor = 0
  /\ processed = {} /\ outcome = <<>> /\ shrunk = FALSE

Next ==
  \/ OpenFile /\ UNCHANGED syncVars
  \/ Apply /\ UNCHANGED syncVars
  \/ \E i \in Issues, s \in Sessions, p \in BOOLEAN : CreateLink(i, s, p) /\ UNCHANGED syncVars
  \/ \E i \in Issues, st \in {"todo", "in_progress"} : SetStatus(i, st) /\ UNCHANGED syncVars
  \/ Restart
  \/ \E p \in Profiles : SaveProfile(p)
  \/ Pull \/ Push \/ RemoteChange

Spec == Init /\ [][Next]_vars

-----------------------------------------------------------------------------
(* Properties *)

(* Whatever is listed, changed, remapped and restarted in between, with    *)
(* the cursor kept or lost: an issue below the cursor was counted or       *)
(* reported at some time, unless the list of Linear has become shorter;    *)
(* and so was every operation that the engine would not do again.          *)
NothingPassedOver ==
  /\ processed \subseteq DOMAIN outcome
  /\ ~shrunk => /\ cursor <= Len(remote)
                /\ \A k \in 1..cursor : PullOp(remote[k]) \in DOMAIN outcome
=============================================================================
