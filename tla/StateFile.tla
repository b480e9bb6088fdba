------------------------------ MODULE StateFile ------------------------------
(***************************************************************************)
(* One state file and the processes that share it: the board, the MCP      *)
(* server an agent talks to, and CLI commands.  Each loads the whole       *)
(* snapshot into memory, changes it there and writes the whole of it back. *)
(*                                                                         *)
(* A snapshot is the set of the changes it contains; a change is its       *)
(* number in "log", which says who made it, by which tool, to what.  So a  *)
(* change that another process's save has undone is one that was in the    *)
(* file and is not any more.                                               *)
(*                                                                         *)
(* Processes interleave between loading, changing and writing.  A write is *)
(* two steps: fs::write truncates a JSON file before it fills it, and a    *)
(* DuckDB file is open, locked against everybody else, while it is         *)
(* written.                                                                *)
(***************************************************************************)
EXTENDS Naturals, Sequences, FiniteSets

CONSTANTS
  Board,       \* the process that runs the terminal user interface
  Mcp,         \* the MCP server's process
  Clis,        \* processes that run CLI commands, one after the other
  Issues,      \* issue ids (UUIDs)
  Projects,    \* project ids (UUIDs)
  Words,       \* words of a title given where an issue id is expected
  None,
  Tools,       \* the tools that are called
  MaxChanges   \* bound on the changes that are made

Procs == {Board, Mcp} \cup Clis

ASSUME StateFileAssumption ==
  /\ Board # Mcp /\ {Board, Mcp} \cap Clis = {}
  /\ {Words, None} \cap (Issues \cup Projects) = {}
  /\ Issues \cap Projects = {}
  /\ MaxChanges \in Nat

VARIABLES
  backend,  \* "json" | "duckdb", by the extension of the path
  file,     \* what the file holds, and whether it can be loaded
  log,      \* history: the changes made so far, in memory at least
  mem,      \* the changes in each process's ApiService
  pc,       \* "down" | "ready" | "save" (about to write) | "write" (writing)
  call,     \* the changes of the call, handler or command under way
  onError,  \* what a failing save does: the process "ends" or "stays"
  mixed,    \* processes whose JSON write overlaps another's
  fresh,    \* history: processes that last loaded or wrote what the file holds
  stale,    \* history: a process has written over what it had never loaded
  acked,    \* history: the changes answered (or shown) as made
  written,  \* history: the changes some finished write contained
  refused   \* history: the changes left in memory by calls answered as failed

fileVars == <<backend, file, mixed, fresh, stale, written>>
vars == <<backend, file, log, mem, pc, call, onError, mixed, fresh, stale,
          acked, written, refused>>

Writers == {p \in Procs : pc[p] = "write"}

Empty == [content |-> {}, ok |-> TRUE]
Torn == [content |-> {}, ok |-> FALSE]

(* detect_state_backend: any path can be given; a missing file is an empty *)
(* snapshot.                                                               *)
Init ==
  /\ backend \in {"json", "duckdb"}
  /\ file = Empty
  /\ log = <<>>
  /\ mem = [p \in Procs |-> {}]
  /\ pc = [p \in Procs |-> "down"]
  /\ call = [p \in Procs |-> {}]
  /\ onError = [p \in Procs |-> "ends"]
  /\ mixed = {} /\ fresh = {} /\ stale = FALSE
  /\ acked = {} /\ written = {} /\ refused = {}

-----------------------------------------------------------------------------
(* Tools: op_* and the ApiService calls under them.                        *)

Creates == {"issue_create", "project_create"}
OnIssue == {"issue_move", "issue_assign_project", "issue_unassign_project",
            "issue_set_cwd", "issue_delete", "issue_comment_add"}
OnProject == {"project_set_key", "project_set_repo_path", "project_comment_add"}

(* What is left to check once the references are resolved: keys, absolute  *)
(* paths and comment bodies.                                               *)
Checked == {"project_create", "project_set_key", "project_set_repo_path",
            "issue_set_cwd", "issue_comment_add", "project_comment_add"}

(* The tools an MCP server refuses before it looks at their arguments.     *)
Deprecated == {"issue_set_cwd", "issue_delete", "project_set_repo_path"}

(* The `:` commands of the board, which ignore the result of their save.   *)
Commands == {"project_create", "project_set_key", "issue_assign_project",
             "issue_unassign_project"}

CliTools == Creates \cup OnIssue \cup OnProject

ASSUME ToolsAssumption == Tools \subseteq CliTools

Created(db, e) == \E n \in db : log[n].tool \in Creates /\ log[n].entity = e
Deleted(db, e) == \E n \in db : log[n].tool = "issue_delete" /\ log[n].entity = e
Exists(db, e) == Created(db, e) /\ ~Deleted(db, e)

(* The new ids: UUIDs, never given twice. *)
NewIds(es) == {e \in es : ~Created(DOMAIN log, e)}

(* resolve_issue_id: an id or identifier names its issue; the words of a   *)
(* title name an issue when its score is clearly above every other's.      *)
ResolveIssue(db, ref) ==
  LET issues == {i \in Issues : Exists(db, i)} IN
  IF ref = Words
    THEN IF Cardinality(issues) = 1 THEN issues ELSE {}
    ELSE {ref} \cap issues

ResolveProject(db, ref) == {ref} \cap {q \in Projects : Exists(db, q)}

(* What the tool acts on, if the snapshot has it.                          *)
Target(db, tool, ref) ==
  CASE tool = "issue_create" -> {ref} \cap NewIds(Issues)
    [] tool = "project_create" -> {ref} \cap NewIds(Projects)
    [] tool \in OnIssue -> ResolveIssue(db, ref)
    [] tool \in OnProject -> ResolveProject(db, ref)

(* op_issue_create and op_issue_assign_project look the project up.        *)
ProjectFound(db, tool, project) ==
  CASE tool = "issue_create" -> project = None \/ ResolveProject(db, project) # {}
    [] tool = "issue_assign_project" -> ResolveProject(db, project) # {}
    [] OTHER -> project = None

(* An issue is in a project: the last change of that in the snapshot says  *)
(* so.                                                                     *)
Assigned(db, i) ==
  \E n \in db :
    /\ log[n].tool \in {"issue_create", "issue_assign_project"}
    /\ log[n].entity = i /\ log[n].project # None
    /\ \A m \in db : log[m].tool = "issue_unassign_project" /\ log[m].entity = i => m < n

(* issue_unassign_project is refused for an ad-hoc issue.                  *)
Succeeds(db, tool, ref, project, valid) ==
  /\ Target(db, tool, ref) # {}
  /\ ProjectFound(db, tool, project)
  /\ tool = "issue_unassign_project" => \E i \in Target(db, tool, ref) : Assigned(db, i)
  /\ valid \/ tool \notin Checked

Change(p, tool, e, project, quiet) ==
  [by |-> p, tool |-> tool, entity |-> e, project |-> project, quiet |-> quiet]

(* A refused call changes nothing, except that op_issue_create and         *)
(* op_project_create create first and look at the project or key after.    *)
LeavesHalf(tool) == tool \in Creates

(* A call is made in p's memory, db; the change it leaves, if any, gets    *)
(* the next number.                                                        *)
Applied(p, db, tool, ref, project, quiet) ==
  \E e \in Target(db, tool, ref) :
    /\ log' = Append(log, Change(p, tool, e, project, quiet))
    /\ call' = [call EXCEPT ![p] = {Len(log')}]
    /\ mem' = [mem EXCEPT ![p] = db \cup {Len(log')}]

Refused(p, tool, ref, quiet) ==
  IF LeavesHalf(tool) /\ Target({}, tool, ref) # {}
    THEN /\ log' = Append(log, Change(p, tool, ref, None, quiet))
         /\ refused' = refused \cup {Len(log')}
    ELSE UNCHANGED <<log, refused>>

(* What Refused has added to the memory of a process that goes on.         *)
Leftover == (DOMAIN log') \ DOMAIN log

InBounds == Len(log) < MaxChanges

Refs == Issues \cup Projects \cup {Words}

-----------------------------------------------------------------------------
(* Loading and saving *)

(* load_api: a JSON file that was truncated and not filled cannot be       *)
(* parsed; a DuckDB file another process has open cannot be opened.        *)
Loadable == file.ok /\ (backend = "duckdb" => Writers = {})

Loads(p) ==
  /\ mem' = [mem EXCEPT ![p] = file.content]
  /\ fresh' = fresh \cup {p}

(* What is left of a process that has ended.                               *)
Ends(p) ==
  /\ pc' = [pc EXCEPT ![p] = "down"]
  /\ mem' = [mem EXCEPT ![p] = {}]
  /\ call' = [call EXCEPT ![p] = {}]
  /\ onError' = [onError EXCEPT ![p] = "ends"]

(* p leaves the file as it is: a JSON file that was truncated stays so, a  *)
(* DuckDB transaction is rolled back.  Half a JSON snapshot may lie over   *)
(* the one that another process has written meanwhile.                     *)
Abandons(p) ==
  /\ file' \in {file} \cup IF p \in mixed THEN {Torn} ELSE {}
  /\ mixed' = mixed \ {p}
  /\ UNCHANGED <<backend, stale, written>>

(* The process is killed, or ended by an error: of a save, among others.   *)
Dies(p) ==
  /\ pc[p] # "down"
  /\ Abandons(p)
  /\ Ends(p)
  /\ fresh' = fresh \ {p}
  /\ UNCHANGED <<log, acked, refused>>

(* The board's `:` commands show success whatever becomes of their save.   *)
SaveErrorIgnored(p) ==
  /\ pc[p] \in {"save", "write"} /\ onError[p] = "stays"
  /\ Abandons(p)
  /\ pc' = [pc EXCEPT ![p] = "ready"]
  /\ call' = [call EXCEPT ![p] = {}]
  /\ acked' = acked \cup call[p]
  /\ onError' = [onError EXCEPT ![p] = "ends"]
  /\ UNCHANGED <<log, mem, fresh, refused>>

(* The file is opened: JSON is truncated, DuckDB locked.                   *)
BeginWrite(p) ==
  /\ pc[p] = "save"
  /\ backend = "duckdb" => Writers = {}
  /\ pc' = [pc EXCEPT ![p] = "write"]
  /\ IF backend = "json"
       THEN /\ file' = Torn
            /\ mixed' = IF Writers = {} THEN mixed ELSE mixed \cup Writers \cup {p}
       ELSE UNCHANGED <<file, mixed>>
  /\ UNCHANGED <<backend, log, mem, call, onError, fresh, stale, acked, written,
                 refused>>

(* Only the changes of the call are merged into what the file holds.       *)
FaultySnapshot(p) == file.content \cup call[p]

(* The whole of p's memory replaces what the file held.                    *)
Snapshot(p) == mem[p]

(* Two overlapping writes of a JSON file may leave a mixture of both.      *)
FinishWrite(p, intact, ends) ==
  /\ pc[p] = "write"
  /\ ~intact => p \in mixed
  /\ file' = IF intact THEN [content |-> Snapshot(p), ok |-> TRUE] ELSE Torn
  /\ mixed' = mixed \ {p}
  /\ fresh' = IF ends THEN {} ELSE {p}
  /\ stale' = (stale \/ p \notin fresh)
  /\ written' = written \cup mem[p]
  /\ UNCHANGED <<backend, log, refused>>

(* The save has succeeded and the caller is answered.                      *)
Answered(p) ==
  /\ acked' = acked \cup call[p]
  /\ pc' = [pc EXCEPT ![p] = "ready"]
  /\ call' = [call EXCEPT ![p] = {}]
  /\ onError' = [onError EXCEPT ![p] = "ends"]
  /\ UNCHANGED mem

-----------------------------------------------------------------------------
(* CLI commands: run_issue_command and run_project_command load, act, save *)
(* and end.  Reading commands end after the load.                          *)

(* A file that cannot be loaded is taken for an empty one.                 *)
FaultyCliLoads(p) == p \in Clis /\ pc[p] = "down"

(* The command's process loads and then acts: nobody sees the moment       *)
(* between the two.                                                        *)
CliLoads(p) == Loadable /\ p \in Clis /\ pc[p] = "down"

(* The error is reported after the save.                                   *)
FaultyCliRefused(p, tool, ref) ==
  /\ LeavesHalf(tool)
  /\ Refused(p, tool, ref, FALSE)
  /\ mem' = [mem EXCEPT ![p] = file.content \cup Leftover]
  /\ pc' = [pc EXCEPT ![p] = "save"]
  /\ fresh' = fresh \cup {p}
  /\ UNCHANGED <<call, onError>>

(* `?` leaves the command, and what it had changed, before the save.       *)
CliRefused(p, tool, ref) ==
  Refused(p, tool, ref, FALSE) /\ Ends(p) /\ fresh' = fresh \ {p}

CliCall(p, tool, ref, project, valid) ==
  /\ CliLoads(p) /\ InBounds
  /\ IF Succeeds(file.content, tool, ref, project, valid)
       THEN /\ Applied(p, file.content, tool, ref, project, FALSE)
            /\ fresh' = fresh \cup {p}
            /\ pc' = [pc EXCEPT ![p] = "save"]
            /\ UNCHANGED <<onError, refused>>
       ELSE CliRefused(p, tool, ref)
  /\ UNCHANGED <<backend, file, mixed, stale, written, acked>>

(* Nothing is printed before save_api has returned.                        *)
CliFinish(p, intact) ==
  /\ p \in Clis
  /\ FinishWrite(p, intact, TRUE)
  /\ acked' = acked \cup call[p]
  /\ Ends(p)

-----------------------------------------------------------------------------
(* The MCP server: loads once, then a request at a time from its stdin.    *)

McpStart ==
  /\ pc[Mcp] = "down"
  /\ Loadable
  /\ Loads(Mcp)
  /\ pc' = [pc EXCEPT ![Mcp] = "ready"]
  /\ UNCHANGED <<backend, file, log, call, onError, mixed, stale, acked, written,
                 refused>>

(* The error is answered, the server goes on with what is in its memory.   *)
McpRefused(tool, ref) ==
  /\ Refused(Mcp, tool, ref, FALSE)
  /\ mem' = [mem EXCEPT ![Mcp] = @ \cup Leftover]
  /\ UNCHANGED <<pc, call, onError>>

(* A mutating tool answers with mutated = FALSE and nothing is saved.      *)
FaultyMcpMutated(tool) ==
  /\ acked' = IF tool = "issue_move" THEN acked \cup {Len(log')} ELSE acked
  /\ pc' = IF tool = "issue_move" THEN pc ELSE [pc EXCEPT ![Mcp] = "save"]

(* call_mcp_tool says which answers need a save before they are sent.      *)
McpMutated(tool) == pc' = [pc EXCEPT ![Mcp] = "save"] /\ UNCHANGED acked

(* handle_mcp_request for tools/call; every other request, a deprecated    *)
(* tool, and a line that cannot be parsed are answered from memory and     *)
(* change nothing.                                                         *)
McpCall(tool, ref, project, valid) ==
  /\ pc[Mcp] = "ready" /\ InBounds
  /\ tool \notin Deprecated
  /\ IF Succeeds(mem[Mcp], tool, ref, project, valid)
       THEN /\ Applied(Mcp, mem[Mcp], tool, ref, project, FALSE)
            /\ McpMutated(tool)
            /\ UNCHANGED <<onError, refused>>
       ELSE McpRefused(tool, ref) /\ UNCHANGED acked
  /\ UNCHANGED fileVars

McpFinish(intact) == FinishWrite(Mcp, intact, FALSE) /\ Answered(Mcp)

(* End of file on stdin.                                                   *)
McpEof ==
  /\ pc[Mcp] = "ready"
  /\ Ends(Mcp)
  /\ fresh' = fresh \ {Mcp}
  /\ UNCHANGED <<backend, file, mixed, stale, written, log, acked, refused>>

-----------------------------------------------------------------------------
(* The board *)

(* load_api_from_path(..).unwrap_or_default(): a file that cannot be       *)
(* loaded is an empty board.                                               *)
BoardStart ==
  /\ pc[Board] = "down"
  /\ IF Loadable THEN Loads(Board)
     ELSE mem' = [mem EXCEPT ![Board] = {}] /\ fresh' = fresh \ {Board}
  /\ pc' = [pc EXCEPT ![Board] = "ready"]
  /\ UNCHANGED <<backend, file, log, call, onError, mixed, stale, acked, written,
                 refused>>

(* A key handler, or a `:` command (quiet): the change and then persist.   *)
BoardChange(tool, ref, project, valid, quiet) ==
  /\ pc[Board] = "ready" /\ InBounds
  /\ quiet => tool \in Commands
  /\ ref # Words
  /\ Succeeds(mem[Board], tool, ref, project, valid)
  /\ Applied(Board, mem[Board], tool, ref, project, quiet)
  /\ pc' = [pc EXCEPT ![Board] = "save"]
  /\ onError' = [onError EXCEPT ![Board] = IF quiet THEN "stays" ELSE "ends"]
  /\ UNCHANGED <<fileVars, acked, refused>>

(* `:project-new` with a key that cannot be set: the project stays.        *)
BoardRefused(q) ==
  /\ pc[Board] = "ready" /\ InBounds
  /\ "project_create" \in Tools
  /\ q \in NewIds(Projects)
  /\ Refused(Board, "project_create", q, TRUE)
  /\ mem' = [mem EXCEPT ![Board] = @ \cup Leftover]
  /\ UNCHANGED <<fileVars, pc, call, onError, acked>>

(* Quitting saves whatever is in memory, changed or not.                   *)
BoardQuit ==
  /\ pc[Board] = "ready"
  /\ pc' = [pc EXCEPT ![Board] = "save"]
  /\ onError' = [onError EXCEPT ![Board] = "ends"]
  /\ UNCHANGED <<fileVars, log, mem, call, acked, refused>>

(* After the save the loop goes on, or the board has quit.                 *)
BoardFinish(intact) ==
  /\ FinishWrite(Board, intact, call[Board] = {})
  /\ IF call[Board] = {} THEN Ends(Board) /\ UNCHANGED acked ELSE Answered(Board)

-----------------------------------------------------------------------------
Calls ==
  \E tool \in Tools, ref \in Refs, project \in Projects \cup {None}, valid \in BOOLEAN :
    \/ \E p \in Clis : CliCall(p, tool, ref, project, valid)
    \/ McpCall(tool, ref, project, valid)
    \/ \E quiet \in BOOLEAN : BoardChange(tool, ref, project, valid, quiet)

Next ==
  \/ Calls
  \/ McpStart \/ McpEof
  \/ BoardStart \/ BoardQuit
  \/ \E q \in Projects : BoardRefused(q)
  \/ \E p \in Procs : SaveErrorIgnored(p) \/ BeginWrite(p) \/ Dies(p)
  \/ \E intact \in BOOLEAN :
       \/ \E p \in Clis : CliFinish(p, intact)
       \/ McpFinish(intact)
       \/ BoardFinish(intact)

Spec == Init /\ [][Next]_vars

-----------------------------------------------------------------------------
(* Properties *)

Numbers == 1 .. Len(log)

(* Every variable has its type. *)
TypeOK ==
  /\ backend \in {"json", "duckdb"}
  /\ file \in [content : SUBSET Numbers, ok : BOOLEAN]
  /\ \A n \in Numbers : log[n] \in [by : Procs, tool : CliTools,
       entity : Issues \cup Projects, project : Projects \cup {None}, quiet : BOOLEAN]
  /\ mem \in [Procs -> SUBSET Numbers]
  /\ pc \in [Procs -> {"down", "ready", "save", "write"}]
  /\ call \in [Procs -> SUBSET Numbers]
  /\ onError \in [Procs -> {"ends", "stays"}]
  /\ mixed \subseteq Writers /\ fresh \subseteq Procs
  /\ stale \in BOOLEAN
  /\ acked \cup written \cup refused \subseteq Numbers

(* A call answered as done has been written to the file: no process        *)
(* answers before its save, and a later failure cannot take the answer     *)
(* back.  Only the board's `:` commands show success whatever became of    *)
(* their save.                                                             *)
AnsweredWasWritten == \A n \in acked \ written : log[n].quiet

(* As long as nobody has written over what he had not loaded, whatever was *)
(* answered and written is still in the file: through concurrent loads,    *)
(* failed and interrupted saves, kills and restarts.  (A file left         *)
(* truncated by a kill holds nothing until somebody saves again.)          *)
LossNeedsStaleSave ==
  ~stale /\ file.ok => acked \cap written \subseteq file.content

(* Whoever writes last, the file is one process's whole memory: no issue   *)
(* in it lacks its creation, and no issue is assigned to a project that    *)
(* the file does not have.  (Every variable has its type.)                 *)
FileIsClosed ==
  /\ TypeOK
  /\ \A n \in file.content :
       /\ Created(file.content, log[n].entity)
       /\ log[n].project # None => Created(file.content, log[n].project)

(* A call answered as failed leaves nothing in the file, except the issue  *)
(* or project that a failed create of the MCP server or the board left     *)
(* in its memory, which the next successful save takes along.              *)
RefusalLeavesAtMostACreation ==
  \A n \in refused \cap file.content :
    log[n].tool \in Creates /\ log[n].by \notin Clis

(* PROJECT_SPEC.md asks that mutating calls carry the version of what they *)
(* change, so that concurrent writers cannot undo each other; what was     *)
(* answered and written would stay in the file.                            *)
NoLostChange == file.ok /\ Writers = {} => acked \cap written \subseteq file.content

==============================================================================
