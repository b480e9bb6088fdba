----------------------------- MODULE BoardSessions -----------------------------
(***************************************************************************)
(* What the board does with issues, projects and agent sessions: creating, *)
(* moving, assigning and deleting issues, creating projects and giving     *)
(* them keys, launching, focusing and closing sessions, typing into the    *)
(* attached terminal, saving the ApiService snapshot at the end of the     *)
(* handlers, leaving the application, crashing and starting again.         *)
(*                                                                         *)
(* Everything here runs on the main thread, one handler at a time; what    *)
(* runs beside it are the child processes, which may end at any moment.    *)
(* A handler is one step.  Its calls that may fail (spawning and killing a *)
(* child, wkm, writing the state file) are parameters of the action.       *)
(***************************************************************************)
EXTENDS Naturals, FiniteSets

CONSTANTS
  Issues,    \* issue ids (UUIDs: never used again)
  Sessions,  \* session ids (UUIDs: never used again)
  Projects,  \* project ids (UUIDs: never used again)
  JsonFile,  \* the state file is JSON (TRUE) or DuckDB (FALSE)
  None

ASSUME BoardAssumption ==
  /\ None \notin Issues \cup Sessions \cup Projects
  /\ JsonFile \in BOOLEAN

VARIABLES
  board,       \* ApiService: issues, session records, primary sessions, projects
  disk,        \* the snapshot in the state file
  phase,       \* "up" | "ending" (event loop left) | "down"
  selected,    \* selected_issue_id
  mode,        \* input_mode: "terminal" (attached) | "normal" (the others)
  live,        \* SessionManager.sessions
  proc,        \* sessions whose child process runs
  workspaces,  \* sessions in workspace_sessions
  worktrees,   \* sessions whose wkm worktree exists
  home,        \* history: sessions launched in a worktree of their own
  used,        \* history: the ids given out, which are never given out again
  stale,       \* history: a load or save failed and no save has succeeded since
  refused      \* history: projects created with a refused key and not yet saved

uiVars == <<phase, selected, mode>>
runVars == <<live, proc>>
treeVars == <<workspaces, worktrees, home>>
saveVars == <<disk, stale, refused>>
vars == <<board, saveVars, uiVars, runVars, treeVars, used>>

(* issue: the column of an issue; status: of a session record; link: the   *)
(* primary session of an issue; owner: the project an issue is assigned to *)
(* (None: ad hoc); key: "made" for a project under the key made of its     *)
(* name, "chosen" for one that was given a key.                            *)
Empty == [issue  |-> [i \in Issues |-> "none"],
          status |-> [s \in Sessions |-> "none"],
          link   |-> [i \in Issues |-> None],
          owner  |-> [i \in Issues |-> None],
          key    |-> [p \in Projects |-> "none"]]

Exists(b, i) == b.issue[i] \in {"open", "in_progress"}

ProjectsOf(b) == {p \in Projects : b.key[p] # "none"}

Init ==
  /\ board = Empty
  /\ disk = Empty
  /\ phase = "up"
  /\ selected = None
  /\ mode = "normal"
  /\ live = {} /\ proc = {}
  /\ workspaces = {} /\ worktrees = {} /\ home = {}
  /\ used = {}
  /\ stale = FALSE
  /\ refused = {}

-----------------------------------------------------------------------------
(* persist: the snapshot, then the UI settings.  An error leaves the old   *)
(* snapshot, or, in a JSON file that was already truncated, nothing that   *)
(* can be loaded; an error about the UI settings comes after the save.     *)

Saves == {"ok", "saved_error", "error"}

(* Results that persist may be left with when the write of b fails. *)
AfterFailedWrite == {disk} \cup IF JsonFile THEN {Empty} ELSE {}

Persist(save) ==
  \/ /\ save # "error"
     /\ disk' = board'
     /\ stale' = FALSE
     /\ refused' = {}
  \/ /\ save = "error"
     /\ disk' \in AfterFailedWrite
     /\ stale' = TRUE
     /\ UNCHANGED refused

(* A key handler that fails ends the event loop. *)
KeyResult(save) == phase' = IF save = "ok" THEN phase ELSE "ending"

Up == phase = "up"

(* ensure_selection: the first issue that passes the filter, if any does,  *)
(* unless the selected one still does.                                     *)
Selectable(b) == {None} \cup {i \in Issues : Exists(b, i)}

-----------------------------------------------------------------------------
(* Issues *)

(* A new issue, in a project that the form lets choose from, or in none.   *)
CreateIssue(i, p, save) ==
  /\ Up /\ mode = "normal"
  /\ i \notin used
  /\ used' = used \cup {i}
  /\ p \in ProjectsOf(board) \cup {None}
  /\ board' = [board EXCEPT !.issue[i] = "open", !.owner[i] = p]
  /\ selected' = i
  /\ Persist(save)
  /\ KeyResult(save)
  /\ UNCHANGED <<mode, runVars, treeVars>>

(* An issue is selected by key in normal mode and by mouse in every mode;  *)
(* a new filter selects another issue or none.                             *)
Select(i) ==
  /\ Up
  /\ i \in Selectable(board)
  /\ i = None => mode = "normal"
  /\ selected' = i
  /\ UNCHANGED <<board, saveVars, phase, mode, runVars, treeVars, used>>

(* A move to another column.  The forms for a title, a comment, a path or  *)
(* a working directory save in the same way, and change nothing else here. *)
MoveIssue(st, save) ==
  /\ Up /\ mode = "normal"
  /\ selected # None
  /\ board' = [board EXCEPT !.issue[selected] = st]
  /\ Persist(save)
  /\ KeyResult(save)
  /\ UNCHANGED <<selected, mode, runVars, treeVars, used>>

-----------------------------------------------------------------------------
(* Projects.  The forms end the event loop when saving fails; a command    *)
(* (typed after a colon) drops that error.                                 *)

SaveResult(byForm, save) == IF byForm THEN KeyResult(save) ELSE UNCHANGED phase

CreateProject(p, byForm, save) ==
  /\ Up /\ mode = "normal"
  /\ p \notin used
  /\ used' = used \cup {p}
  /\ board' = [board EXCEPT !.key[p] = "chosen"]
  /\ Persist(save)
  /\ SaveResult(byForm, save)
  /\ UNCHANGED <<selected, mode, runVars, treeVars>>

(* project-new with a key that is not valid or not free: the project stays *)
(* under the key made of its name, and nothing is saved.  (The form looks  *)
(* at the key before it creates the project.)                              *)
CreateProjectRefused(p) ==
  /\ Up /\ mode = "normal"
  /\ p \notin used
  /\ used' = used \cup {p}
  /\ board' = [board EXCEPT !.key[p] = "made"]
  /\ refused' = refused \cup {p}
  /\ UNCHANGED <<disk, stale, uiVars, runVars, treeVars>>

(* A key can be changed until the project has an issue; a refused change   *)
(* changes nothing.                                                        *)
SetProjectKey(p, byForm, save) ==
  /\ Up /\ mode = "normal"
  /\ p \in ProjectsOf(board)
  /\ \A i \in Issues : board.owner[i] # p
  /\ board' = [board EXCEPT !.key[p] = "chosen"]
  /\ Persist(save)
  /\ SaveResult(byForm, save)
  /\ UNCHANGED <<selected, mode, runVars, treeVars, used>>

(* project-assign and project-unassign (None) for the selected issue; an   *)
(* ad-hoc issue cannot be unassigned.                                      *)
AssignIssue(p, save) ==
  /\ Up /\ mode = "normal"
  /\ selected # None
  /\ p \in IF board.owner[selected] = None THEN ProjectsOf(board)
           ELSE ProjectsOf(board) \cup {None}
  /\ board' = [board EXCEPT !.owner[selected] = p]
  /\ Persist(save)
  /\ UNCHANGED <<phase, selected, mode, runVars, treeVars, used>>

-----------------------------------------------------------------------------
(* Launching.  By key in normal mode or by mouse in every mode; an error   *)
(* is shown in the status line.                                            *)

(* The record of a failed launch is removed; its link stays.               *)
FaultyLaunchRecord(s, outcome) ==
  [board EXCEPT !.issue[selected] = "in_progress",
                !.status[s] = IF outcome = "failed" THEN "none" ELSE outcome,
                !.link[selected] = s]

(* The record is created before the worktree, which is named after it; a   *)
(* worktree that cannot be made is replaced by the repository.             *)
LaunchRecord(s, outcome) ==
  [board EXCEPT !.issue[selected] = "in_progress",
                !.status[s] = outcome,
                !.link[selected] = s]

LaunchOk(s, tree, save) ==
  /\ Up
  /\ selected # None
  /\ s \notin used
  /\ used' = used \cup {s}
  /\ board' = LaunchRecord(s, "running")
  /\ live' = live \cup {s}
  /\ proc' = proc \cup {s}
  /\ IF tree THEN /\ workspaces' = workspaces \cup {s}
                  /\ worktrees' = worktrees \cup {s}
                  /\ home' = home \cup {s}
             ELSE UNCHANGED treeVars
  /\ Persist(save)
  /\ mode' = IF save = "ok" THEN "terminal" ELSE mode
  /\ UNCHANGED <<phase, selected>>

(* The failed launch is not saved.                                         *)
FaultyLaunchFailed(s, tree, started, removed, save) ==
  /\ Up
  /\ selected # None
  /\ s \notin used
  /\ used' = used \cup {s}
  /\ board' = LaunchRecord(s, "failed")
  /\ worktrees' = IF tree /\ ~removed THEN worktrees \cup {s} ELSE worktrees
  /\ proc' = IF started THEN proc \cup {s} ELSE proc
  /\ UNCHANGED <<saveVars, uiVars, live, workspaces, home>>

(* Spawning failed, before or after the child was started: its worktree,   *)
(* if any, is removed (the removal may fail), the record is kept as failed *)
(* and stays linked.  A child that was started is in no table.             *)
LaunchFailed(s, tree, started, removed, save) ==
  /\ Up
  /\ selected # None
  /\ s \notin used
  /\ used' = used \cup {s}
  /\ board' = LaunchRecord(s, "failed")
  /\ worktrees' = IF tree /\ ~removed THEN worktrees \cup {s} ELSE worktrees
  /\ proc' = IF started THEN proc \cup {s} ELSE proc
  /\ Persist(save)
  /\ UNCHANGED <<uiVars, live, workspaces, home>>

(* Enter on an issue with a primary session: attach if it is live.  (With  *)
(* none, Enter launches.)                                                  *)
Focus ==
  /\ Up /\ mode = "normal"
  /\ selected # None
  /\ board.link[selected] \in live
  /\ mode' = "terminal"
  /\ UNCHANGED <<board, saveVars, phase, selected, runVars, treeVars, used>>

(* Ctrl-G, or a click that opens a prompt. *)
Detach ==
  /\ Up /\ mode = "terminal"
  /\ mode' = "normal"
  /\ UNCHANGED <<board, saveVars, phase, selected, runVars, treeVars, used>>

(* Keys for the attached session, or a line sent to the selected one: an   *)
(* error, because the selected issue has no live session or its child is   *)
(* gone and the write fails, ends the event loop.                          *)
InputFails ==
  /\ Up
  /\ selected # None => board.link[selected] \notin live \cap proc
  /\ phase' = "ending"
  /\ UNCHANGED <<board, saveVars, selected, mode, runVars, treeVars, used>>

-----------------------------------------------------------------------------
(* Closing: close_primary_session_for_issue. *)

(* The killed session stays in the manager's table.                        *)
FaultyKill(s) == proc' = proc \ {s} /\ UNCHANGED live

(* A live child is killed; it is gone even when terminate reports an error.*)
Kill(s) == live' = live \ {s} /\ proc' = proc \ {s}

CloseFails(i) ==
  /\ board.link[i] \in live
  /\ Kill(board.link[i])
  /\ UNCHANGED <<board, saveVars, treeVars, used>>

(* The worktree is removed before the child is known to be dead, which the *)
(* close then leaves as it is.                                             *)
FaultyCloses(i, removed) ==
  LET s == board.link[i] IN
  /\ s # None
  /\ UNCHANGED runVars
  /\ workspaces' = workspaces \ {s}
  /\ worktrees' = IF s \in workspaces /\ removed THEN worktrees \ {s} ELSE worktrees
  /\ UNCHANGED home

(* The session is killed, if it is live, and its worktree is removed. *)
Closes(i, removed) ==
  LET s == board.link[i] IN
  /\ s # None
  /\ Kill(s)
  /\ workspaces' = workspaces \ {s}
  /\ worktrees' = IF s \in workspaces /\ removed THEN worktrees \ {s} ELSE worktrees
  /\ UNCHANGED home

Closed(i) == [board EXCEPT !.status[board.link[i]] = "terminated", !.link[i] = None]

(* The close key in normal mode; the close button in every mode. *)
CloseSelected(byKey, removed, save) ==
  /\ Up
  /\ byKey => mode = "normal"
  /\ selected # None
  /\ Closes(selected, removed)
  /\ board' = Closed(selected)
  /\ Persist(save)
  /\ mode' = "normal"
  /\ IF byKey THEN KeyResult(save) ELSE UNCHANGED phase
  /\ UNCHANGED <<selected, used>>

CloseSelectedFails(byKey) ==
  /\ Up
  /\ byKey => mode = "normal"
  /\ selected # None
  /\ CloseFails(selected)
  /\ phase' = IF byKey THEN "ending" ELSE phase
  /\ UNCHANGED <<selected, mode>>

(* issue_delete *)
Without(b, i) ==
  [b EXCEPT !.issue[i] = "deleted", !.link[i] = None, !.owner[i] = None]

DeleteSelected(removed, save) ==
  /\ Up /\ mode = "normal"
  /\ selected # None
  /\ IF board.link[selected] = None
       THEN UNCHANGED <<runVars, treeVars>> /\ board' = Without(board, selected)
       ELSE Closes(selected, removed) /\ board' = Without(Closed(selected), selected)
  /\ Persist(save)
  /\ KeyResult(save)
  /\ selected' \in IF save = "ok" THEN Selectable(board') ELSE {selected}
  /\ UNCHANGED <<mode, used>>

DeleteSelectedFails ==
  /\ Up /\ mode = "normal"
  /\ selected # None
  /\ CloseFails(selected)
  /\ phase' = "ending"
  /\ UNCHANGED <<selected, mode>>

-----------------------------------------------------------------------------
(* The end of the application, crashes and restarts. *)

(* The quit key: the loop ends and the state is saved, whatever the result.*)
Quit(save) ==
  /\ Up /\ mode = "normal"
  /\ phase' = "ending"
  /\ UNCHANGED board
  /\ Persist(save)
  /\ UNCHANGED <<selected, mode, runVars, treeVars, used>>

(* terminate_all.  The worktrees stay. *)
Shutdown ==
  /\ phase = "ending"
  /\ phase' = "down"
  /\ proc' = proc \ live
  /\ live' = {}
  /\ workspaces' = {}
  /\ UNCHANGED <<board, saveVars, selected, mode, worktrees, home, used>>

(* The process dies, possibly during a save.  Children lose their terminal *)
(* and may die of it.                                                      *)
Crash ==
  /\ phase # "down"
  /\ phase' = "down"
  /\ disk' \in {board} \cup AfterFailedWrite
  /\ proc' \in SUBSET proc
  /\ live' = {}
  /\ workspaces' = {}
  /\ stale' = FALSE
  /\ refused' = {}
  /\ UNCHANGED <<board, selected, mode, worktrees, home, used>>

(* A state file that cannot be loaded is an empty board.                   *)
Start(loaded) ==
  /\ phase = "down"
  /\ phase' = "up"
  /\ board' = IF loaded THEN disk ELSE Empty
  /\ mode' = "normal"
  /\ selected' \in Selectable(board')
  /\ stale' = ~loaded
  /\ refused' = {}
  /\ UNCHANGED <<disk, runVars, treeVars, used>>

ChildExit(s) ==
  /\ s \in proc
  /\ proc' = proc \ {s}
  /\ UNCHANGED <<board, saveVars, uiVars, live, treeVars, used>>

-----------------------------------------------------------------------------
Launch ==
  \E s \in Sessions, tree \in BOOLEAN, save \in Saves :
    \/ LaunchOk(s, tree, save)
    \/ \E started, removed \in BOOLEAN : LaunchFailed(s, tree, started, removed, save)

Close ==
  \/ \E byKey, removed \in BOOLEAN, save \in Saves : CloseSelected(byKey, removed, save)
  \/ \E byKey \in BOOLEAN : CloseSelectedFails(byKey)
  \/ \E removed \in BOOLEAN, save \in Saves : DeleteSelected(removed, save)
  \/ DeleteSelectedFails

Edit ==
  \/ \E i \in Issues, p \in Projects \cup {None}, save \in Saves : CreateIssue(i, p, save)
  \/ \E i \in Issues \cup {None} : Select(i)
  \/ \E st \in {"open", "in_progress"}, save \in Saves : MoveIssue(st, save)

EditProject ==
  \/ \E p \in Projects, byForm \in BOOLEAN, save \in Saves :
       CreateProject(p, byForm, save) \/ SetProjectKey(p, byForm, save)
  \/ \E p \in Projects : CreateProjectRefused(p)
  \/ \E p \in Projects \cup {None}, save \in Saves : AssignIssue(p, save)

Next ==
  \/ Edit \/ EditProject \/ Launch \/ Close
  \/ Focus \/ Detach \/ InputFails
  \/ \E save \in Saves : Quit(save)
  \/ Shutdown \/ Crash
  \/ \E loaded \in BOOLEAN : Start(loaded)
  \/ \E s \in Sessions : ChildExit(s)

Spec == Init /\ [][Next]_vars

-----------------------------------------------------------------------------
(* Properties *)

Board == [issue  : [Issues -> {"none", "open", "in_progress", "deleted"}],
          status : [Sessions -> {"none", "running", "failed", "terminated"}],
          link   : [Issues -> Sessions \cup {None}],
          owner  : [Issues -> Projects \cup {None}],
          key    : [Projects -> {"none", "made", "chosen"}]]

(* Every variable has its type; handlers select an existing issue.*)
TypeOK ==
  /\ board \in Board /\ disk \in Board
  /\ phase \in {"up", "ending", "down"}
  /\ selected \in Issues \cup {None}
  /\ phase = "up" /\ selected # None => Exists(board, selected)
  /\ mode \in {"normal", "terminal"}
  /\ live \in SUBSET Sessions /\ proc \in SUBSET Sessions
  /\ workspaces \in SUBSET Sessions /\ worktrees \in SUBSET Sessions
  /\ home \in SUBSET Sessions
  /\ used \in SUBSET (Issues \cup Sessions \cup Projects)
  /\ stale \in BOOLEAN
  /\ refused \in SUBSET Projects

(* In memory and in the state file, across failures, crashes and restarts: *)
(* a primary session is a recorded session of an issue that exists, and of *)
(* no other issue; the project of an issue is there, also if its creation  *)
(* was refused and not saved.  (Every variable has its type.)              *)
Linked(b) == {i \in Issues : b.link[i] # None}
LinksOf(b) ==
  /\ \A i \in Linked(b) : /\ Exists(b, i)
                          /\ b.status[b.link[i]] # "none"
                          /\ \A j \in Linked(b) : b.link[i] = b.link[j] => i = j
  /\ \A i \in Issues : b.owner[i] \in ProjectsOf(b) \cup {None}
LinksResolve == TypeOK /\ LinksOf(board) /\ LinksOf(disk)

(* The board never shows a session it runs as ended: a session in the      *)
(* manager's table has a running record.                                   *)
LiveIsRecordedRunning == \A s \in live : board.status[s] = "running"

(* No child that the manager still runs loses the worktree it was started  *)
(* in, whichever step of a launch, close or delete failed.                 *)
LiveWorktreeKept == \A s \in live \cap home : s \in worktrees

(* While the application is up, and unless loading or saving failed, the   *)
(* file holds what the board shows, down to the last change, except for    *)
(* projects that project-new made although it refused their key: those are *)
(* in memory only, until another handler saves.                            *)
OnlyRefusedProjectsUnsaved ==
  phase = "up" /\ ~stale =>
    disk = [board EXCEPT !.key =
              [p \in Projects |-> IF p \in refused THEN "none" ELSE @[p]]]

================================================================================
