-------------------------- MODULE BoardSessionsProofs --------------------------
(***************************************************************************)
(* Theorems about BoardSessions: for any number of issues and sessions,    *)
(* either format of the state file and any sequence of handlers, failures, *)
(* crashes and restarts, the board, the state file, the session table and  *)
(* the worktrees agree.                                                    *)
(***************************************************************************)
EXTENDS BoardSessions, TLAPS

(* A snapshot whose links resolve and which knows only ids given out.      *)
InOrder(b, ids) ==
  /\ b \in Board
  /\ LinksOf(b)
  /\ \A i \in Issues : b.issue[i] # "none" => i \in ids
  /\ \A s \in Sessions : b.status[s] # "none" => s \in ids
  /\ \A p \in Projects : b.key[p] # "none" => p \in ids

(* Every id in use was given out, so that a new one is nowhere in use.     *)
Snapshots == InOrder(board, used) /\ InOrder(disk, used) /\ home \subseteq used

(* Nobody runs a session while the application is down.                    *)
DownIsQuiet == phase = "down" => live = {}

IInv ==
  /\ TypeOK
  /\ Snapshots
  /\ DownIsQuiet
  /\ LiveIsRecordedRunning
  /\ LiveWorktreeKept
  /\ OnlyRefusedProjectsUnsaved

-----------------------------------------------------------------------------
(* Snapshots *)

LEMMA EmptyInOrder == ASSUME NEW ids PROVE InOrder(Empty, ids)
BY BoardAssumption DEF InOrder, Empty, Board, LinksOf, Linked

LEMMA MoreIds ==
  ASSUME NEW b, NEW ids, NEW more, InOrder(b, ids), ids \subseteq more
  PROVE  InOrder(b, more)
BY DEF InOrder

(* A new issue has no link yet; its project is one of the board.           *)
LEMMA CreatedInOrder ==
  ASSUME InOrder(board, used), NEW i \in Issues, i \notin used,
         NEW p \in ProjectsOf(board) \cup {None}
  PROVE  InOrder([board EXCEPT !.issue[i] = "open", !.owner[i] = p], used \cup {i})
<1> DEFINE b == [board EXCEPT !.issue[i] = "open", !.owner[i] = p]
<1>1. /\ b \in Board
      /\ b.issue = [board.issue EXCEPT ![i] = "open"]
      /\ b.owner = [board.owner EXCEPT ![i] = p]
      /\ b.status = board.status /\ b.link = board.link /\ b.key = board.key
  BY DEF InOrder, Board, ProjectsOf
<1> HIDE DEF b
<1>2. LinksOf(b)
  BY <1>1 DEF InOrder, Board, LinksOf, Linked, Exists, ProjectsOf
<1> QED
  BY <1>1, <1>2 DEF InOrder, Board, b

(* An issue that exists stays linked wherever it is moved.                 *)
LEMMA MovedInOrder ==
  ASSUME InOrder(board, used), NEW i \in Issues, Exists(board, i),
         NEW st \in {"open", "in_progress"}
  PROVE  InOrder([board EXCEPT !.issue[i] = st], used)
BY DEF InOrder, Board, LinksOf, Linked, Exists, ProjectsOf

(* A project that is added, or gets another key, is there afterwards.      *)
LEMMA KeyedInOrder ==
  ASSUME InOrder(board, used), NEW p \in Projects, NEW k \in {"made", "chosen"}
  PROVE  InOrder([board EXCEPT !.key[p] = k], used \cup {p})
BY DEF InOrder, Board, LinksOf, Linked, Exists, ProjectsOf

LEMMA AssignedInOrder ==
  ASSUME InOrder(board, used), NEW i \in Issues,
         NEW p \in ProjectsOf(board) \cup {None}
  PROVE  InOrder([board EXCEPT !.owner[i] = p], used)
BY DEF InOrder, Board, LinksOf, Linked, Exists, ProjectsOf

(* A new session has no record and is linked by no issue.                  *)
LEMMA LaunchInOrder ==
  ASSUME InOrder(board, used), selected \in Issues, Exists(board, selected),
         NEW s \in Sessions, s \notin used, NEW outcome \in {"running", "failed"}
  PROVE  InOrder(LaunchRecord(s, outcome), used \cup {s})
<1> DEFINE b == LaunchRecord(s, outcome)
<1>1. /\ b \in Board
      /\ b.issue = [board.issue EXCEPT ![selected] = "in_progress"]
      /\ b.status = [board.status EXCEPT ![s] = outcome]
      /\ b.link = [board.link EXCEPT ![selected] = s]
      /\ b.owner = board.owner /\ b.key = board.key
  BY DEF LaunchRecord, InOrder, Board
<1>2. \A i \in Linked(board) : board.link[i] # s
  BY DEF InOrder, Linked, LinksOf
<1> HIDE DEF b
<1>3. LinksOf(b)
  BY <1>1, <1>2, BoardAssumption DEF InOrder, Board, LinksOf, Linked, Exists, ProjectsOf
<1> QED
  BY <1>1, <1>3 DEF InOrder, Board, Exists, b

(* What is closed is linked by nobody else.                                *)
LEMMA ClosedInOrder ==
  ASSUME InOrder(board, used), NEW i \in Issues, board.link[i] # None
  PROVE  InOrder(Closed(i), used)
<1> DEFINE b == Closed(i)
<1>1. /\ b \in Board
      /\ b.issue = board.issue
      /\ b.status = [board.status EXCEPT ![board.link[i]] = "terminated"]
      /\ b.link = [board.link EXCEPT ![i] = None]
      /\ b.owner = board.owner /\ b.key = board.key
  BY DEF Closed, InOrder, Board
<1> HIDE DEF b
<1>2. LinksOf(b)
  BY <1>1 DEF InOrder, Board, LinksOf, Linked, Exists, ProjectsOf
<1> QED
  BY <1>1, <1>2 DEF InOrder, Board, LinksOf, Linked, b

LEMMA WithoutInOrder ==
  ASSUME NEW b, NEW ids, InOrder(b, ids), NEW i \in Issues, b.issue[i] # "none"
  PROVE  InOrder(Without(b, i), ids)
<1> DEFINE d == Without(b, i)
<1>1. /\ d \in Board
      /\ d.issue = [b.issue EXCEPT ![i] = "deleted"]
      /\ d.status = b.status
      /\ d.link = [b.link EXCEPT ![i] = None]
      /\ d.owner = [b.owner EXCEPT ![i] = None]
      /\ d.key = b.key
  BY DEF Without, InOrder, Board
<1> HIDE DEF d
<1>2. LinksOf(d)
  BY <1>1 DEF InOrder, Board, LinksOf, Linked, Exists, ProjectsOf
<1> QED
  BY <1>1, <1>2 DEF InOrder, Board, d

(* Unless a load or save failed, the refused projects are all that is not  *)
(* in the file.                                                            *)
LeavingOut(b, ps) ==
  [b EXCEPT !.key = [p \in Projects |-> IF p \in ps THEN "none" ELSE @[p]]]

LEMMA NothingLeftOut == ASSUME NEW b \in Board PROVE LeavingOut(b, {}) = b
BY DEF LeavingOut, Board

(* A save leaves the new snapshot in the file, or the old, or nothing.     *)
LEMMA PersistInOrder ==
  ASSUME InOrder(board', used'), InOrder(disk, used), used \subseteq used',
         refused \in SUBSET Projects, NEW save \in Saves, Persist(save)
  PROVE  /\ InOrder(disk', used')
         /\ stale' \in BOOLEAN /\ refused' \in SUBSET Projects
         /\ ~stale' => disk' = LeavingOut(board', refused')
<1>1. /\ disk' \in {board', disk, Empty} /\ stale' \in BOOLEAN
      /\ refused' \in {refused, {}}
      /\ ~stale' => disk' = board' /\ refused' = {}
  BY DEF Persist, AfterFailedWrite
<1>2. board' \in Board
  BY DEF InOrder
<1> QED
  BY <1>1, <1>2, NothingLeftOut, EmptyInOrder, MoreIds

-----------------------------------------------------------------------------
(* Steps *)

LEMMA InitIsInOrder == Init => IInv
<1> SUFFICES ASSUME Init PROVE IInv
  OBVIOUS
<1>1. Snapshots
  BY EmptyInOrder DEF Init, Snapshots
<1>2. Empty \in Board
  BY <1>1 DEF Init, Snapshots, InOrder
<1>3. OnlyRefusedProjectsUnsaved
  BY <1>2, NothingLeftOut DEF Init, OnlyRefusedProjectsUnsaved, LeavingOut
<1> QED
  BY <1>1, <1>3 DEF Init, IInv, TypeOK, Snapshots, InOrder, DownIsQuiet,
                    LiveIsRecordedRunning, LiveWorktreeKept

(* What IInv asks of a step that ends by saving, besides the new board.    *)
LEMMA SavedStep ==
  ASSUME IInv, used \subseteq used', used' \subseteq Issues \cup Sessions \cup Projects,
         InOrder(board', used'), NEW save \in Saves, Persist(save),
         home' \subseteq used'
  PROVE  /\ Snapshots'
         /\ board' \in Board /\ disk' \in Board
         /\ used' \in SUBSET (Issues \cup Sessions \cup Projects)
         /\ stale' \in BOOLEAN /\ refused' \in SUBSET Projects
         /\ OnlyRefusedProjectsUnsaved'
<1>1. /\ InOrder(disk', used')
      /\ stale' \in BOOLEAN /\ refused' \in SUBSET Projects
      /\ ~stale' => disk' = LeavingOut(board', refused')
  BY PersistInOrder DEF IInv, Snapshots, TypeOK
<1> QED
  BY <1>1 DEF Snapshots, InOrder, OnlyRefusedProjectsUnsaved, LeavingOut

LEMMA EditInOrder ==
  ASSUME IInv, Edit PROVE IInv'
<1>1. ASSUME NEW i \in Issues, NEW p \in Projects \cup {None}, NEW save \in Saves,
             CreateIssue(i, p, save)
      PROVE  IInv'
  <2>1. InOrder(board', used')
    BY <1>1, CreatedInOrder DEF CreateIssue, IInv, Snapshots
  <2>2. /\ used' = used \cup {i}
        /\ board' = [board EXCEPT !.issue[i] = "open", !.owner[i] = p]
        /\ selected' = i
        /\ Persist(save)
        /\ phase = "up" /\ phase' \in {"up", "ending"}
        /\ UNCHANGED <<mode, live, proc, workspaces, worktrees, home>>
    BY <1>1 DEF CreateIssue, KeyResult, Up, runVars, treeVars
  <2>3. /\ Snapshots'
        /\ board' \in Board /\ disk' \in Board
        /\ used' \in SUBSET (Issues \cup Sessions \cup Projects)
        /\ stale' \in BOOLEAN /\ refused' \in SUBSET Projects
        /\ OnlyRefusedProjectsUnsaved'
    BY <2>1, <2>2, SavedStep DEF IInv, TypeOK, Snapshots
  <2>4. Exists(board', i) /\ board'.status = board.status
    BY <2>2 DEF IInv, TypeOK, Board, Exists
  <2> QED
    BY <2>2, <2>3, <2>4 DEF IInv, TypeOK, DownIsQuiet, LiveIsRecordedRunning, LiveWorktreeKept
<1>2. ASSUME NEW i \in Issues \cup {None}, Select(i)
      PROVE  IInv'
  <2>1. /\ selected' = i
        /\ i = None \/ (i \in Issues /\ Exists(board, i))
        /\ UNCHANGED <<board, disk, phase, mode, live, proc, workspaces, worktrees,
                       home, used, stale, refused>>
    BY <1>2 DEF Select, Selectable, runVars, treeVars, saveVars
  <2> QED
    BY <2>1 DEF IInv, TypeOK, Snapshots, InOrder, DownIsQuiet, LiveIsRecordedRunning,
                LiveWorktreeKept, OnlyRefusedProjectsUnsaved, Exists, LinksOf, Linked, ProjectsOf
<1>3. ASSUME NEW st \in {"open", "in_progress"}, NEW save \in Saves, MoveIssue(st, save)
      PROVE  IInv'
  <2>1. /\ selected \in Issues /\ Exists(board, selected)
        /\ board' = [board EXCEPT !.issue[selected] = st]
        /\ Persist(save)
        /\ phase = "up" /\ phase' \in {"up", "ending"}
        /\ UNCHANGED <<selected, mode, live, proc, workspaces, worktrees, home, used>>
    BY <1>3 DEF MoveIssue, KeyResult, Up, runVars, treeVars, IInv, TypeOK
  <2>2. InOrder(board', used')
    BY <2>1, MovedInOrder DEF IInv, Snapshots
  <2>3. /\ Snapshots'
        /\ board' \in Board /\ disk' \in Board
        /\ used' \in SUBSET (Issues \cup Sessions \cup Projects)
        /\ stale' \in BOOLEAN /\ refused' \in SUBSET Projects
        /\ OnlyRefusedProjectsUnsaved'
    BY <2>1, <2>2, SavedStep DEF IInv, TypeOK, Snapshots
  <2>4. Exists(board', selected) /\ board'.status = board.status
    BY <2>1 DEF IInv, TypeOK, Board, Exists
  <2> QED
    BY <2>1, <2>3, <2>4 DEF IInv, TypeOK, DownIsQuiet, LiveIsRecordedRunning, LiveWorktreeKept
<1> QED
  BY <1>1, <1>2, <1>3 DEF Edit

(* A handler that changes projects only leaves issues and sessions alone.  *)
LEMMA ProjectStep ==
  ASSUME IInv, NEW save \in Saves, Persist(save),
         InOrder(board', used'), board'.issue = board.issue, board'.status = board.status,
         used \subseteq used', used' \subseteq Issues \cup Sessions \cup Projects,
         phase = "up", phase' \in {"up", "ending"},
         UNCHANGED <<selected, mode, live, proc, workspaces, worktrees, home>>
  PROVE  IInv'
<1>1. home' \subseteq used'
  BY DEF IInv, Snapshots
<1>2. /\ Snapshots'
      /\ board' \in Board /\ disk' \in Board
      /\ used' \in SUBSET (Issues \cup Sessions \cup Projects)
      /\ stale' \in BOOLEAN /\ refused' \in SUBSET Projects
      /\ OnlyRefusedProjectsUnsaved'
  BY <1>1, SavedStep
<1> QED
  BY <1>2 DEF IInv, TypeOK, DownIsQuiet, LiveIsRecordedRunning, LiveWorktreeKept, Exists

LEMMA EditProjectInOrder ==
  ASSUME IInv, EditProject PROVE IInv'
<1>1. ASSUME NEW p \in Projects, NEW byForm \in BOOLEAN, NEW save \in Saves,
             CreateProject(p, byForm, save) \/ SetProjectKey(p, byForm, save)
      PROVE  IInv'
  <2>1. /\ board' = [board EXCEPT !.key[p] = "chosen"]
        /\ used' \in {used, used \cup {p}}
        /\ Persist(save)
        /\ phase = "up" /\ phase' \in {"up", "ending"}
        /\ UNCHANGED <<selected, mode, live, proc, workspaces, worktrees, home>>
    BY <1>1 DEF CreateProject, SetProjectKey, SaveResult, KeyResult, Up, runVars, treeVars
  <2>2. p \in used'
    BY <1>1 DEF CreateProject, SetProjectKey, ProjectsOf, IInv, Snapshots, InOrder
  <2>3. used' = used \cup {p}
    BY <2>1, <2>2
  <2>4. InOrder(board', used')
    BY <2>1, <2>3, KeyedInOrder DEF IInv, Snapshots
  <2>5. /\ board'.issue = board.issue /\ board'.status = board.status
        /\ used' \subseteq Issues \cup Sessions \cup Projects
    BY <2>1, <2>3 DEF IInv, TypeOK, Board
  <2> QED
    BY <2>1, <2>3, <2>4, <2>5, ProjectStep
<1>2. ASSUME NEW p \in Projects, CreateProjectRefused(p) PROVE IInv'
  <2>1. /\ p \notin used /\ used' = used \cup {p}
        /\ board' = [board EXCEPT !.key[p] = "made"]
        /\ refused' = refused \cup {p}
        /\ UNCHANGED <<disk, stale, phase, selected, mode, live, proc, workspaces,
                       worktrees, home>>
    BY <1>2 DEF CreateProjectRefused, uiVars, runVars, treeVars
  <2>2. InOrder(board', used')
    BY <2>1, KeyedInOrder DEF IInv, Snapshots
  <2>3. InOrder(disk', used') /\ home' \subseteq used'
    BY <2>1, MoreIds DEF IInv, Snapshots
  <2>4. /\ board.key[p] = "none"
        /\ board'.issue = board.issue /\ board'.status = board.status
        /\ board' \in Board
    BY <2>1, <2>2 DEF IInv, TypeOK, Snapshots, InOrder, Board
  <2>5. LeavingOut(board', refused') = LeavingOut(board, refused)
    <3>1. board'.key = [board.key EXCEPT ![p] = "made"] /\ board.key \in [Projects -> {"none", "made", "chosen"}]
      BY <2>1 DEF IInv, TypeOK, Board
    <3>2. [q \in Projects |-> IF q \in refused' THEN "none" ELSE board'.key[q]]
            = [q \in Projects |-> IF q \in refused THEN "none" ELSE board.key[q]]
      BY <2>1, <2>4, <3>1
    <3> QED
      BY <2>1, <3>2 DEF LeavingOut, IInv, TypeOK, Board
  <2>6. OnlyRefusedProjectsUnsaved'
    BY <2>1, <2>5 DEF IInv, OnlyRefusedProjectsUnsaved, LeavingOut
  <2> QED
    BY <2>1, <2>2, <2>3, <2>4, <2>6
       DEF IInv, TypeOK, Snapshots, DownIsQuiet, LiveIsRecordedRunning, LiveWorktreeKept, Exists
<1>3. ASSUME NEW p \in Projects \cup {None}, NEW save \in Saves, AssignIssue(p, save)
      PROVE  IInv'
  <2>1. /\ selected \in Issues
        /\ p \in ProjectsOf(board) \cup {None}
        /\ board' = [board EXCEPT !.owner[selected] = p]
        /\ Persist(save)
        /\ phase = "up"
        /\ UNCHANGED <<phase, selected, mode, live, proc, workspaces, worktrees, home, used>>
    BY <1>3 DEF AssignIssue, Up, runVars, treeVars, IInv, TypeOK
  <2>2. InOrder(board', used')
    BY <2>1, AssignedInOrder DEF IInv, Snapshots
  <2>3. /\ board'.issue = board.issue /\ board'.status = board.status
        /\ used' \subseteq Issues \cup Sessions \cup Projects
    BY <2>1 DEF IInv, TypeOK, Board
  <2> QED
    BY <2>1, <2>2, <2>3, ProjectStep
<1> QED
  BY <1>1, <1>2, <1>3 DEF EditProject

(* The session launched is new, so nothing that runs is disturbed.         *)
LEMMA LaunchKeepsOrder ==
  ASSUME IInv, Launch PROVE IInv'
<1>1. ASSUME NEW s \in Sessions, NEW tree \in BOOLEAN, NEW save \in Saves,
             LaunchOk(s, tree, save)
      PROVE  IInv'
  <2>1. /\ selected \in Issues /\ Exists(board, selected)
        /\ s \notin used /\ used' = used \cup {s}
        /\ board' = LaunchRecord(s, "running")
        /\ live' = live \cup {s} /\ proc' = proc \cup {s}
        /\ \/ /\ workspaces' = workspaces \cup {s}
              /\ worktrees' = worktrees \cup {s} /\ home' = home \cup {s}
           \/ UNCHANGED <<workspaces, worktrees, home>>
        /\ Persist(save)
        /\ mode' \in {"normal", "terminal"}
        /\ phase = "up" /\ UNCHANGED <<phase, selected>>
    BY <1>1 DEF LaunchOk, Up, treeVars, IInv, TypeOK
  <2>2. InOrder(board', used')
    BY <2>1, LaunchInOrder DEF IInv, Snapshots
  <2>3. /\ Snapshots'
        /\ board' \in Board /\ disk' \in Board
        /\ used' \in SUBSET (Issues \cup Sessions \cup Projects)
        /\ stale' \in BOOLEAN /\ refused' \in SUBSET Projects
        /\ OnlyRefusedProjectsUnsaved'
    <3>1. home' \subseteq used'
      BY <2>1 DEF IInv, Snapshots
    <3> QED
      BY <3>1, <2>1, <2>2, SavedStep DEF IInv, TypeOK
  <2>4. /\ Exists(board', selected)
        /\ board'.status = [board.status EXCEPT ![s] = "running"]
    BY <2>1 DEF LaunchRecord, IInv, TypeOK, Board, Exists
  <2>5. LiveIsRecordedRunning'
    BY <2>1, <2>4 DEF IInv, TypeOK, Board, LiveIsRecordedRunning
  <2>6. LiveWorktreeKept'
    BY <2>1 DEF IInv, LiveWorktreeKept, Snapshots
  <2> QED
    BY <2>1, <2>3, <2>4, <2>5, <2>6 DEF IInv, TypeOK, DownIsQuiet
<1>2. ASSUME NEW s \in Sessions, NEW tree \in BOOLEAN, NEW started \in BOOLEAN,
             NEW removed \in BOOLEAN, NEW save \in Saves,
             LaunchFailed(s, tree, started, removed, save)
      PROVE  IInv'
  <2>1. /\ selected \in Issues /\ Exists(board, selected)
        /\ s \notin used /\ used' = used \cup {s}
        /\ board' = LaunchRecord(s, "failed")
        /\ worktrees' \in {worktrees, worktrees \cup {s}}
        /\ proc' \in {proc, proc \cup {s}}
        /\ Persist(save)
        /\ phase = "up" /\ UNCHANGED <<phase, selected, mode, live, workspaces, home>>
    BY <1>2 DEF LaunchFailed, Up, uiVars, IInv, TypeOK
  <2>2. InOrder(board', used')
    BY <2>1, LaunchInOrder DEF IInv, Snapshots
  <2>3. /\ Snapshots'
        /\ board' \in Board /\ disk' \in Board
        /\ used' \in SUBSET (Issues \cup Sessions \cup Projects)
        /\ stale' \in BOOLEAN /\ refused' \in SUBSET Projects
        /\ OnlyRefusedProjectsUnsaved'
    <3>1. home' \subseteq used'
      BY <2>1 DEF IInv, Snapshots
    <3> QED
      BY <3>1, <2>1, <2>2, SavedStep DEF IInv, TypeOK
  <2>4. /\ Exists(board', selected)
        /\ board'.status = [board.status EXCEPT ![s] = "failed"]
    BY <2>1 DEF LaunchRecord, IInv, TypeOK, Board, Exists
  <2>5. LiveIsRecordedRunning'
    <3>1. s \notin live
      BY <2>1 DEF IInv, TypeOK, LiveIsRecordedRunning, Snapshots, InOrder
    <3> QED
      BY <3>1, <2>1, <2>4 DEF IInv, TypeOK, Board, LiveIsRecordedRunning
  <2>6. LiveWorktreeKept'
    BY <2>1 DEF IInv, LiveWorktreeKept
  <2> QED
    BY <2>1, <2>3, <2>4, <2>5, <2>6 DEF IInv, TypeOK, DownIsQuiet
<1> QED
  BY <1>1, <1>2 DEF Launch

(* The worktree that a close removes is that of the session it kills.      *)
LEMMA ClosesKeeps ==
  ASSUME IInv, NEW i \in Issues, NEW removed \in BOOLEAN, Closes(i, removed)
  PROVE  /\ live' \in SUBSET Sessions /\ proc' \in SUBSET Sessions
         /\ workspaces' \in SUBSET Sessions /\ worktrees' \in SUBSET Sessions
         /\ live' = live \ {board.link[i]}
         /\ home' = home
         /\ LiveWorktreeKept'
BY DEF Closes, Kill, IInv, TypeOK, LiveWorktreeKept

LEMMA CloseKeepsOrder ==
  ASSUME IInv, Close PROVE IInv'
<1>1. ASSUME NEW byKey \in BOOLEAN, NEW removed \in BOOLEAN, NEW save \in Saves,
             CloseSelected(byKey, removed, save)
      PROVE  IInv'
  <2>1. /\ selected \in Issues /\ Exists(board, selected)
        /\ board.link[selected] # None
        /\ Closes(selected, removed)
        /\ board' = Closed(selected)
        /\ Persist(save)
        /\ mode' = "normal"
        /\ phase = "up" /\ phase' \in {"up", "ending"}
        /\ UNCHANGED <<selected, used>>
    <3>1. board.link[selected] # None
      BY <1>1 DEF CloseSelected, Closes
    <3> QED
      BY <1>1, <3>1 DEF CloseSelected, KeyResult, Up, IInv, TypeOK
  <2>2. InOrder(board', used')
    BY <2>1, ClosedInOrder DEF IInv, Snapshots
  <2>3. /\ live' \in SUBSET Sessions /\ proc' \in SUBSET Sessions
        /\ workspaces' \in SUBSET Sessions /\ worktrees' \in SUBSET Sessions
        /\ live' = live \ {board.link[selected]}
        /\ home' = home
        /\ LiveWorktreeKept'
    BY <2>1, ClosesKeeps
  <2>4. /\ Snapshots'
        /\ board' \in Board /\ disk' \in Board
        /\ used' \in SUBSET (Issues \cup Sessions \cup Projects)
        /\ stale' \in BOOLEAN /\ refused' \in SUBSET Projects
        /\ OnlyRefusedProjectsUnsaved'
    BY <2>1, <2>2, <2>3, SavedStep DEF IInv, TypeOK, Snapshots
  <2>5. /\ Exists(board', selected)
        /\ board'.status = [board.status EXCEPT ![board.link[selected]] = "terminated"]
    BY <2>1 DEF Closed, IInv, TypeOK, Board, Exists
  <2>6. LiveIsRecordedRunning'
    BY <2>3, <2>5 DEF IInv, TypeOK, Board, LiveIsRecordedRunning
  <2> QED
    BY <2>1, <2>3, <2>4, <2>5, <2>6 DEF IInv, TypeOK, DownIsQuiet
<1>2. ASSUME CloseSelectedFails(TRUE) \/ CloseSelectedFails(FALSE) \/ DeleteSelectedFails
      PROVE  IInv'
  <2>1. /\ live' \subseteq live /\ proc' \subseteq proc
        /\ phase = "up" /\ phase' \in {"up", "ending"}
        /\ UNCHANGED <<board, disk, selected, mode, workspaces, worktrees, home, used, stale,
                       refused>>
    BY <1>2 DEF CloseSelectedFails, DeleteSelectedFails, CloseFails, Kill, Up, treeVars, saveVars
  <2> QED
    BY <2>1 DEF IInv, TypeOK, Snapshots, InOrder, DownIsQuiet, LiveIsRecordedRunning,
                LiveWorktreeKept, OnlyRefusedProjectsUnsaved, Exists, LinksOf, Linked
<1>3. ASSUME NEW removed \in BOOLEAN, NEW save \in Saves, DeleteSelected(removed, save)
      PROVE  IInv'
  <2> DEFINE s == board.link[selected]
             b == IF s = None THEN board ELSE Closed(selected)
  <2>1. /\ selected \in Issues /\ Exists(board, selected)
        /\ \/ s = None /\ UNCHANGED <<live, proc, workspaces, worktrees, home>>
           \/ s # None /\ Closes(selected, removed)
        /\ board' = Without(b, selected)
        /\ Persist(save)
        /\ phase = "up" /\ phase' = (IF save = "ok" THEN "up" ELSE "ending")
        /\ selected' \in (IF save = "ok" THEN Selectable(board') ELSE {selected})
        /\ UNCHANGED <<mode, used>>
    BY <1>3 DEF DeleteSelected, KeyResult, Up, runVars, treeVars, IInv, TypeOK
  <2>2. InOrder(b, used) /\ b.issue[selected] # "none"
    BY <2>1, ClosedInOrder DEF IInv, Snapshots, Closed, TypeOK, Board, Exists
  <2>3. InOrder(board', used')
    BY <2>1, <2>2, WithoutInOrder
  <2>4. /\ live' \in SUBSET Sessions /\ proc' \in SUBSET Sessions
        /\ workspaces' \in SUBSET Sessions /\ worktrees' \in SUBSET Sessions
        /\ live' \subseteq live /\ (s # None => s \notin live')
        /\ home' = home
        /\ LiveWorktreeKept'
    BY <2>1, ClosesKeeps DEF IInv, TypeOK, LiveWorktreeKept
  <2>5. /\ Snapshots'
        /\ board' \in Board /\ disk' \in Board
        /\ used' \in SUBSET (Issues \cup Sessions \cup Projects)
        /\ stale' \in BOOLEAN /\ refused' \in SUBSET Projects
        /\ OnlyRefusedProjectsUnsaved'
    BY <2>1, <2>3, <2>4, SavedStep DEF IInv, TypeOK, Snapshots
  <2>6. \A t \in Sessions : t # s => board'.status[t] = board.status[t]
    BY <2>1 DEF Without, Closed, IInv, TypeOK, Board
  <2>7. LiveIsRecordedRunning'
    BY <2>4, <2>6, BoardAssumption DEF IInv, TypeOK, LiveIsRecordedRunning
  <2>8. /\ selected' \in Issues \cup {None}
        /\ phase' = "up" /\ selected' # None => Exists(board', selected')
    BY <2>1 DEF Selectable
  <2> QED
    BY <2>1, <2>4, <2>5, <2>7, <2>8 DEF IInv, TypeOK, DownIsQuiet
<1> QED
  BY <1>1, <1>2, <1>3 DEF Close

LEMMA StepKeepsOrder == IInv /\ [Next]_vars => IInv'
<1> SUFFICES ASSUME IInv, [Next]_vars PROVE IInv'
  OBVIOUS
<1>1. ASSUME Edit \/ EditProject \/ Launch \/ Close PROVE IInv'
  BY <1>1, EditInOrder, EditProjectInOrder, LaunchKeepsOrder, CloseKeepsOrder
<1>2. ASSUME Focus \/ Detach \/ InputFails \/ \E s \in Sessions : ChildExit(s)
      PROVE  IInv'
  <2>1. /\ proc' \subseteq proc
        /\ mode' \in {"normal", "terminal"}
        /\ phase' \in {phase, "ending"}
        /\ UNCHANGED <<board, disk, selected, live, workspaces, worktrees, home, used, stale,
                       refused>>
    BY <1>2 DEF Focus, Detach, InputFails, ChildExit, runVars, treeVars, uiVars, saveVars,
                IInv, TypeOK
  <2> QED
    BY <2>1 DEF IInv, TypeOK, Snapshots, InOrder, DownIsQuiet, LiveIsRecordedRunning,
                LiveWorktreeKept, OnlyRefusedProjectsUnsaved, Exists, LinksOf, Linked
<1>3. ASSUME NEW save \in Saves, Quit(save) PROVE IInv'
  <2>1. /\ phase' = "ending" /\ board' = board
        /\ Persist(save)
        /\ UNCHANGED <<selected, mode, live, proc, workspaces, worktrees, home, used>>
    BY <1>3 DEF Quit, runVars, treeVars
  <2>2. InOrder(board', used') /\ home' \subseteq used'
    BY <2>1 DEF IInv, Snapshots
  <2>3. /\ Snapshots' /\ disk' \in Board
        /\ stale' \in BOOLEAN /\ refused' \in SUBSET Projects
        /\ OnlyRefusedProjectsUnsaved'
    BY <2>1, <2>2, SavedStep DEF IInv, TypeOK
  <2> QED
    BY <2>1, <2>3 DEF IInv, TypeOK, DownIsQuiet, LiveIsRecordedRunning, LiveWorktreeKept
<1>4. ASSUME Shutdown \/ Crash PROVE IInv'
  <2>1. /\ phase' = "down"
        /\ disk' \in {disk, board, Empty}
        /\ proc' \subseteq proc
        /\ live' = {} /\ workspaces' = {}
        /\ stale' \in BOOLEAN /\ refused' \in SUBSET Projects
        /\ UNCHANGED <<board, selected, mode, worktrees, home, used>>
    BY <1>4 DEF Shutdown, Crash, AfterFailedWrite, saveVars, IInv, TypeOK
  <2>2. Snapshots' /\ disk' \in Board
    BY <2>1, EmptyInOrder DEF IInv, Snapshots, InOrder
  <2> QED
    BY <2>1, <2>2 DEF IInv, TypeOK, DownIsQuiet, LiveIsRecordedRunning, LiveWorktreeKept,
                      OnlyRefusedProjectsUnsaved
<1>5. ASSUME NEW loaded \in BOOLEAN, Start(loaded) PROVE IInv'
  <2>1. /\ phase = "down" /\ phase' = "up"
        /\ board' \in {disk, Empty}
        /\ stale' = ~loaded /\ refused' = {} /\ (loaded => board' = disk)
        /\ mode' = "normal"
        /\ selected' \in Selectable(board')
        /\ UNCHANGED <<disk, live, proc, workspaces, worktrees, home, used>>
    BY <1>5 DEF Start, runVars, treeVars
  <2>2. Snapshots' /\ board' \in Board
    BY <2>1, EmptyInOrder DEF IInv, Snapshots, InOrder
  <2>3. /\ selected' \in Issues \cup {None}
        /\ selected' # None => Exists(board', selected')
    BY <2>1 DEF Selectable
  <2>4. OnlyRefusedProjectsUnsaved'
    <3>1. LeavingOut(board', refused') = board'
      BY <2>1, <2>2, NothingLeftOut
    <3> QED
      BY <2>1, <3>1 DEF OnlyRefusedProjectsUnsaved, LeavingOut
  <2> QED
    BY <2>1, <2>2, <2>3, <2>4 DEF IInv, TypeOK, DownIsQuiet, LiveIsRecordedRunning,
                                  LiveWorktreeKept
<1>6. CASE UNCHANGED vars
  BY <1>6 DEF vars, saveVars, uiVars, runVars, treeVars, IInv, TypeOK, Snapshots, InOrder, DownIsQuiet,
              LiveIsRecordedRunning, LiveWorktreeKept, OnlyRefusedProjectsUnsaved, Exists, LinksOf, Linked
<1> QED
  BY <1>1, <1>2, <1>3, <1>4, <1>5, <1>6 DEF Next

LEMMA AlwaysInOrder == Spec => []IInv
BY InitIsInOrder, StepKeepsOrder, PTL DEF Spec

-----------------------------------------------------------------------------
(* In memory and in the file, a primary session is a recorded session of   *)
(* an issue that exists, and of no other: launches, closes, deletes, saves *)
(* that fail, crashes and restarts leave no link dangling or shared.       *)
THEOREM LinksAlwaysResolve == Spec => []LinksResolve
<1>1. IInv => LinksResolve
  BY DEF IInv, LinksResolve, Snapshots, InOrder
<1> QED
  BY <1>1, AlwaysInOrder, PTL

(* A session in the manager's table has a running record.                  *)
THEOREM NoLiveSessionShownEnded == Spec => []LiveIsRecordedRunning
<1>1. IInv => LiveIsRecordedRunning
  BY DEF IInv
<1> QED
  BY <1>1, AlwaysInOrder, PTL

(* A session that was started in a worktree of its own keeps it as long as *)
(* the manager has it in its table.                                        *)
THEOREM NoWorktreeUnderLiveSession == Spec => []LiveWorktreeKept
<1>1. IInv => LiveWorktreeKept
  BY DEF IInv
<1> QED
  BY <1>1, AlwaysInOrder, PTL

(* What the board shows is what the file holds, except for projects whose  *)
(* key project-new refused, unless a load or save has failed and none has  *)
(* succeeded since.                                                        *)
THEOREM FileFollowsBoard == Spec => []OnlyRefusedProjectsUnsaved
<1>1. IInv => OnlyRefusedProjectsUnsaved
  BY DEF IInv
<1> QED
  BY <1>1, AlwaysInOrder, PTL
================================================================================
