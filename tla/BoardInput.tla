------------------------------ MODULE BoardInput ------------------------------
(***************************************************************************)
(* What keys and mouse clicks do to the board: the input modes and their   *)
(* forms, the selection, the filter, the rows on the screen, and which     *)
(* issue, project or session a key ends up acting on.                      *)
(*                                                                         *)
(* A step is one event of the event loop: its handler, and then            *)
(* ensure_selection, which runs before the next frame is drawn and the     *)
(* next event is read.  Mouse clicks are taken in every mode.  How saves   *)
(* and sessions fail is in BoardSessions and StateFile; here a failure is  *)
(* a parameter of the event.                                               *)
(***************************************************************************)
EXTENDS Naturals, Sequences, FiniteSets, SequencesExt

CONSTANTS
  Issues,      \* issue ids, in the order they are given out
  Projects,    \* project ids, in the order of their names
  Statuses,    \* STATUSES: the columns of the board, from top to bottom
  InProgress,  \* the column a launch moves an issue to
  OtherStatus, \* a status that is no column (the CLI takes any)
  RuntimeCwd,  \* --session-cwd was given
  Filters,     \* what issues_filter is set to: None, <<"status", s>>, <<"issue", i>>
  None,
  MaxEdits     \* bound on the changes to issues and projects

StatusSet == {Statuses[n] : n \in DOMAIN Statuses}

ASSUME BoardInputAssumption ==
  /\ Issues \subseteq Nat \ {0} /\ IsFiniteSet(Issues)
  /\ Projects \subseteq Nat /\ IsFiniteSet(Projects)
  /\ Statuses \in Seq(StatusSet)
  /\ \A m, n \in DOMAIN Statuses : Statuses[m] = Statuses[n] => m = n
  /\ InProgress \in StatusSet /\ OtherStatus \notin StatusSet
  /\ {"absent", "deleted", None} \cap (StatusSet \cup {OtherStatus}) = {}
  /\ RuntimeCwd \in BOOLEAN
  /\ None \in Filters /\ None \notin Issues \cup Projects
  /\ MaxEdits \in Nat

VARIABLES
  issues,    \* [status, title: the issue whose title this is, project,
             \*  cwd: an override is set, session: "none" | "live" | "stale"]
  projects,  \* "absent" | "nopath" | "path" (repo_local_path is set)
  selected,  \* selected_issue_id
  project,   \* selected_project_id
  subview,   \* left_subview: "issues" | "projects"
  filter,    \* issues_filter
  form,      \* input_mode and its fields
  phase,     \* "up" | "quit" | "error" (the event loop returned an error)
  clicked,   \* history: a click has changed selection or session since the
             \* form was opened or the terminal attached
  edits      \* how many changes were made

boardVars == <<issues, projects, edits>>
viewVars == <<project, subview, filter>>
vars == <<boardVars, selected, viewVars, form, phase, clicked>>

-----------------------------------------------------------------------------
(* Rows *)

Exists(is, i) == is[i].status \notin {"absent", "deleted"}

Rank(st) == IF st \in StatusSet THEN CHOOSE n \in DOMAIN Statuses : Statuses[n] = st
                                ELSE Len(Statuses) + 1

(* The text of a filter is in the status, or in the title or id of one.    *)
Passes(is, i, f) == f \in {None, <<"status", is[i].status>>, <<"issue", i>>}

Listed(is, f) == {i \in Issues : Exists(is, i) /\ Passes(is, i, f)}

(* The elements of S in the order Lt, which is a set of pairs.             *)
Below(S, Lt, x) == {y \in S : <<y, x>> \in Lt}
Ordered(S, Lt) ==
  [n \in 1..Cardinality(S) |-> CHOOSE x \in S : Cardinality(Below(S, Lt, x)) = n - 1]

(* issues_sorted: by column, then by id; an unknown status comes last.     *)
Before(is, i, j) ==
  \/ Rank(is[i].status) < Rank(is[j].status)
  \/ Rank(is[i].status) = Rank(is[j].status) /\ i < j

IssueOrder(is) == {p \in Issues \X Issues : Before(is, p[1], p[2])}

Sorted(is, f) == Ordered(Listed(is, f), IssueOrder(is))

ProjectOrder == {p \in Projects \X Projects : p[1] < p[2]}

ProjectsSorted == Ordered({q \in Projects : projects[q] # "absent"}, ProjectOrder)

(* What render draws from line BoardStartY on: a header (0) for each       *)
(* column, then its issues.  Drawing and looking up both stop before the   *)
(* last three lines of the screen, which is taken to be high enough.       *)
BoardStartY == 3

InColumn(st) == {i \in Listed(issues, filter) : issues[i].status = st}
Column(st) == <<0>> \o Ordered(InColumn(st), IssueOrder(issues))

Drawn ==
  LET drawn[n \in 0..Len(Statuses)] ==
        IF n = 0 THEN <<>> ELSE drawn[n - 1] \o Column(Statuses[n])
  IN drawn[Len(Statuses)]

IssuesAbove(i) == {j \in Listed(issues, filter) : Before(issues, j, i)}

(* Only one header is counted.                                             *)
FaultyRowOf(i) == BoardStartY + 1 + Cardinality(IssuesAbove(i))

(* issue_id_at_row: below the header of the issue's column and of those    *)
(* above it, and the issues before it.                                     *)
RowOf(i) == BoardStartY + Rank(issues[i].status) + Cardinality(IssuesAbove(i))

(* An issue whose status is no column has no row.                          *)
Clickable == {i \in Listed(issues, filter) : issues[i].status \in StatusSet}

-----------------------------------------------------------------------------
(* Selection *)

FirstListed(is, f) ==
  CHOOSE i \in Listed(is, f) : \A j \in Listed(is, f) \ {i} : Before(is, i, j)

(* A selection is kept until its issue is deleted.                         *)
FaultyEnsured(sel, is, f) ==
  CASE Listed(is, f) = {} -> None
    [] sel # None /\ Exists(is, sel) -> sel
    [] OTHER -> FirstListed(is, f)

(* ensure_selection *)
Ensured(sel, is, f) ==
  CASE Listed(is, f) = {} -> None
    [] sel \in Listed(is, f) -> sel
    [] OTHER -> FirstListed(is, f)

Selects(sel) == selected' = Ensured(sel, issues', filter')

(* ensure_project_selection *)
EnsuredProject(sel) ==
  CASE ProjectsSorted = <<>> -> None
    [] sel \in Range(ProjectsSorted) -> sel
    [] OTHER -> Head(ProjectsSorted)

(* select_next and select_prev, and the same for projects: modulo the      *)
(* length of the list, whose first is taken for a selection it lacks.      *)
Step(s, cur, down) ==
  LET at == IF \E n \in DOMAIN s : s[n] = cur
              THEN (CHOOSE n \in DOMAIN s : s[n] = cur) - 1 ELSE 0 IN
  CASE s = <<>> -> cur
    [] s # <<>> /\ cur = None -> Head(s)
    [] OTHER -> s[((at + (IF down THEN 1 ELSE Len(s) - 1)) % Len(s)) + 1]

-----------------------------------------------------------------------------
(* Forms *)

Normal == [kind |-> "Normal", text |-> "empty", of |-> None, query |-> {}, index |-> 0]
Form(kind) == [Normal EXCEPT !.kind = kind]

(* The forms whose line of text may be empty, and those where it may also  *)
(* be wrong: a path that is relative, a key that is too long.              *)
Checked == {"NewProject", "SetProjectIdentifier", "SetProjectRepoPath", "SetIssueCwdOverride"}
TextForms == {"NewIssue", "NewIssueDescription", "EditIssue", "AddComment", "SendInput"} \cup Checked

InForm(kind) == phase = "up" /\ form.kind = kind

(* A form is opened: what has been clicked before is of no matter.         *)
Opens(f) == form' = f /\ clicked' = FALSE

(* What a click does counts while the edit form or the terminal is open.   *)
Clicks(changed) == clicked' = (clicked \/ (changed /\ form.kind \in {"EditIssue", "Terminal"}))

Closes == form' = Normal /\ clicked' = FALSE

(* `?` in a key handler leaves the event loop, which ends the application. *)
Ends == phase' = "error"

(* persist()? at the end of a key handler.                                 *)
Persist(saved) == phase' = IF saved THEN "up" ELSE "error"

Edits(n) == edits < MaxEdits /\ edits' = edits + n

Text(t) == form.text = t

-----------------------------------------------------------------------------
(* handle_key: what most forms share *)

(* The form shows the first issue of the list.                             *)
FaultyEditForm == [Form("EditIssue") EXCEPT !.text = "right", !.of = Sorted(issues, filter)[1]]

(* EditIssue starts from the title and the latest comment of the selected  *)
(* issue.                                                                  *)
EditForm == [Form("EditIssue") EXCEPT !.text = "right", !.of = selected]

(* Paths and keys start from the current ones, or the application's        *)
(* directory.                                                              *)
PathForm(kind) == [Form(kind) EXCEPT !.text = "right"]

Typing(t) ==
  /\ phase = "up" /\ form.kind \in TextForms
  /\ t = "wrong" => form.kind \in Checked
  /\ form' = [form EXCEPT !.text = t]
  /\ UNCHANGED <<boardVars, viewVars, phase, clicked>>
  /\ Selects(selected)

Escape ==
  /\ phase = "up" /\ form.kind \notin {"Normal", "Terminal"}
  /\ Closes
  /\ UNCHANGED <<boardVars, viewVars, phase>>
  /\ Selects(selected)

(* Submitting a text that the form refuses, or that has no effect.         *)
Refuse(kind, texts, stays) ==
  /\ InForm(kind)
  /\ form.text \in texts
  /\ IF stays THEN UNCHANGED <<form, clicked>> ELSE Closes
  /\ UNCHANGED <<boardVars, viewVars, phase>>
  /\ Selects(selected)

(* Submitting ends the application: nothing is selected, or the text, the  *)
(* issue or the session is not what the handler needs.                     *)
SubmitFails(kind, cause) ==
  /\ InForm(kind)
  /\ cause
  /\ Ends
  /\ Closes
  /\ UNCHANGED <<boardVars, selected, viewVars>>

SelectedSession == IF selected = None THEN "none" ELSE issues[selected].session
SelectedProject == IF selected = None THEN None ELSE issues[selected].project

-----------------------------------------------------------------------------
(* handle_key: creating an issue *)

NewIssueTitle ==
  /\ InForm("NewIssue") /\ form.text # "empty"
  /\ Opens([Form("NewIssueDescription") EXCEPT !.text = "right"])
  /\ UNCHANGED <<boardVars, viewVars, phase>>
  /\ Selects(selected)

NewIssueDescription ==
  /\ InForm("NewIssueDescription") /\ form.text # "empty"
  /\ Opens([Form("SelectIssueProject") EXCEPT !.query = Projects])
  /\ UNCHANGED <<boardVars, viewVars, phase>>
  /\ Selects(selected)

(* filtered_projects_for_query: the query is what it matches.              *)
Options == Ordered({q \in form.query : projects[q] # "absent"}, ProjectOrder)

Queried(qs) == [form EXCEPT !.query = qs, !.index = 0]

SelectProjectQuery(qs) ==
  /\ InForm("SelectIssueProject")
  /\ form' = Queried(qs)
  /\ UNCHANGED <<boardVars, viewVars, phase, clicked>>
  /\ Selects(selected)

(* j and k; 0 is the choice of no project.                                 *)
SelectProjectMove(down) ==
  LET total == Len(Options) + 1 IN
  /\ InForm("SelectIssueProject")
  /\ form' = [form EXCEPT !.index =
       IF down THEN (@ + 1) % total ELSE IF @ = 0 THEN total - 1 ELSE @ - 1]
  /\ UNCHANGED <<boardVars, viewVars, phase, clicked>>
  /\ Selects(selected)

Chosen ==
  IF form.index = 0 \/ Options = <<>> THEN None
  ELSE Options[IF form.index <= Len(Options) THEN form.index ELSE Len(Options)]

(* create_issue_from_form *)
SelectProjectEnter(i, saved) ==
  /\ InForm("SelectIssueProject")
  /\ issues[i].status = "absent"
  /\ Edits(1)
  /\ issues' = [issues EXCEPT ![i] = [status |-> Statuses[1], title |-> i,
                  project |-> Chosen, cwd |-> FALSE, session |-> "none"]]
  /\ Persist(saved)
  /\ Closes
  /\ UNCHANGED <<projects, viewVars>>
  /\ Selects(i)

-----------------------------------------------------------------------------
(* handle_key: acting on the selected issue or project *)

(* edit_selected_issue *)
EditIssueEnter(saved) ==
  /\ InForm("EditIssue") /\ form.text # "empty" /\ selected # None
  /\ Edits(1)
  /\ issues' = [issues EXCEPT ![selected].title = issues[form.of].title]
  /\ Persist(saved)
  /\ Closes
  /\ UNCHANGED <<projects, viewVars>>
  /\ Selects(selected)

(* add_comment_to_selection, for an issue or for a project.                *)
AddCommentEnter(saved) ==
  LET q == EnsuredProject(project) IN
  /\ InForm("AddComment") /\ form.text # "empty"
  /\ IF subview = "issues" THEN selected # None /\ UNCHANGED project
                           ELSE q # None /\ project' = q
  /\ Persist(saved)
  /\ Closes
  /\ UNCHANGED <<boardVars, subview, filter>>
  /\ Selects(selected)

AddCommentFails ==
  SubmitFails("AddComment",
    /\ ~Text("empty")
    /\ IF subview = "issues" THEN selected = None ELSE EnsuredProject(project) = None)

(* send_to_selected *)
SendInputEnter ==
  /\ InForm("SendInput") /\ form.text # "empty"
  /\ SelectedSession = "live"
  /\ Closes
  /\ UNCHANGED <<boardVars, viewVars, phase>>
  /\ Selects(selected)

(* move_selected: the digit of a column. *)
MoveStatusDigit(n, saved) ==
  /\ InForm("MoveStatus") /\ selected # None
  /\ Edits(1)
  /\ issues' = [issues EXCEPT ![selected].status = Statuses[n]]
  /\ Persist(saved)
  /\ Closes
  /\ UNCHANGED <<projects, viewVars>>
  /\ Selects(selected)

(* delete_selected_issue: its session is closed first.                     *)
DeleteConfirmed(saved) ==
  /\ InForm("DeleteIssueConfirm") /\ selected # None
  /\ Edits(1)
  /\ issues' = [issues EXCEPT ![selected] = [@ EXCEPT !.status = "deleted",
                                                      !.session = "none"]]
  /\ Persist(saved)
  /\ Closes
  /\ UNCHANGED <<projects, viewVars>>
  /\ Selects(selected)

(* set_selected_issue_project_repo_path: an empty path clears it.          *)
SetRepoPathEnter(saved) ==
  /\ InForm("SetProjectRepoPath") /\ form.text # "wrong"
  /\ SelectedProject # None
  /\ Edits(1)
  /\ projects' = [projects EXCEPT ![SelectedProject] =
                    IF Text("empty") THEN "nopath" ELSE "path"]
  /\ Persist(saved)
  /\ Closes
  /\ UNCHANGED <<issues, viewVars>>
  /\ Selects(selected)

SetRepoPathFails ==
  SubmitFails("SetProjectRepoPath",
    Text("wrong") \/ SelectedProject = None)

(* set_selected_issue_cwd_override *)
SetIssueCwdEnter(saved) ==
  /\ InForm("SetIssueCwdOverride") /\ form.text # "wrong" /\ selected # None
  /\ Edits(1)
  /\ issues' = [issues EXCEPT ![selected].cwd = ~Text("empty")]
  /\ Persist(saved)
  /\ Closes
  /\ UNCHANGED <<projects, viewVars>>
  /\ Selects(selected)

SetIssueCwdFails ==
  SubmitFails("SetIssueCwdOverride", Text("wrong") \/ selected = None)

(* NewProject: key and name are checked before anything is created.        *)
NewProjectEnter(q, saved) ==
  /\ InForm("NewProject") /\ Text("right")
  /\ projects[q] = "absent"
  /\ Edits(1)
  /\ projects' = [projects EXCEPT ![q] = "nopath"]
  /\ project' = q
  /\ subview' = "projects"
  /\ Persist(saved)
  /\ Closes
  /\ UNCHANGED <<issues, filter>>
  /\ Selects(selected)

(* SetProjectIdentifier; a key that is taken, or may not change any more,  *)
(* is reported.                                                            *)
SetKeyEnter(ok, saved) ==
  /\ InForm("SetProjectIdentifier") /\ Text("right")
  /\ ok => project # None
  /\ IF ok THEN Persist(saved) ELSE UNCHANGED phase
  /\ Closes
  /\ UNCHANGED <<boardVars, viewVars>>
  /\ Selects(selected)

-----------------------------------------------------------------------------
(* Filter and `:` commands *)

FilterEnter(f) ==
  /\ InForm("Filter")
  /\ filter' = f
  /\ Closes
  /\ UNCHANGED <<boardVars, project, subview, phase>>
  /\ Selects(selected)

(* execute_command: each ends in normal mode, reports its errors and       *)
(* ignores those of its save.                                              *)
CommandView(v) ==
  /\ InForm("Command")
  /\ subview' = v
  /\ Closes
  /\ UNCHANGED <<boardVars, project, filter, phase>>
  /\ Selects(selected)

CommandFilter(f) ==
  /\ InForm("Command")
  /\ filter' = f
  /\ Closes
  /\ UNCHANGED <<boardVars, project, subview, phase>>
  /\ Selects(selected)

(* project-new: the project is there whether or not its key could be set.  *)
CommandProjectNew(q) ==
  /\ InForm("Command")
  /\ projects[q] = "absent"
  /\ Edits(1)
  /\ projects' = [projects EXCEPT ![q] = "nopath"]
  /\ Closes
  /\ UNCHANGED <<issues, viewVars, phase>>
  /\ Selects(selected)

(* project-assign and project-unassign, which is refused for an ad-hoc     *)
(* issue; project-key does not show here.                                  *)
CommandAssign(q) ==
  /\ InForm("Command") /\ selected # None
  /\ IF q = None THEN SelectedProject # None ELSE projects[q] # "absent"
  /\ Edits(1)
  /\ issues' = [issues EXCEPT ![selected].project = q]
  /\ Closes
  /\ UNCHANGED <<projects, viewVars, phase>>
  /\ Selects(selected)

-----------------------------------------------------------------------------
(* Sessions *)

(* resolve_launch_cwd_for_issue: the first that is set; whether it is a    *)
(* directory that exists is up to the file system.                         *)
HasLaunchCwd(i) ==
  \/ RuntimeCwd
  \/ issues[i].cwd
  \/ issues[i].project # None /\ projects[issues[i].project] = "path"

Launching(outcome) ==
  [issues EXCEPT ![selected].status = InProgress,
                 ![selected].session = IF outcome = "failed" THEN "stale" ELSE "live"]

(* The terminal is attached before the child is known to run.              *)
FaultyAttaches(outcome) == TRUE

Attaches(outcome) == outcome = "launched"

(* launch_selected: a launch that is blocked changes nothing, one whose    *)
(* child cannot be started, or that cannot be saved ("unsaved"), does not  *)
(* attach the terminal.  All are reported, by key and by mouse.            *)
Launch(outcome) ==
  /\ phase = "up" /\ subview = "issues"
  /\ IF selected # None /\ HasLaunchCwd(selected) /\ outcome # "blocked"
       THEN Edits(1) /\ issues' = Launching(outcome)
       ELSE outcome = "blocked" /\ UNCHANGED <<issues, edits>>
  /\ IF Attaches(outcome) THEN Opens(Form("Terminal"))
                          ELSE UNCHANGED form /\ Clicks(outcome # "blocked")
  /\ UNCHANGED <<projects, viewVars, phase>>
  /\ Selects(selected)

(* launch_or_focus_selected_default, when there is a primary session.      *)
Focus ==
  /\ InForm("Normal") /\ subview = "issues"
  /\ SelectedSession # "none"
  /\ IF SelectedSession = "live" THEN Opens(Form("Terminal"))
                                 ELSE UNCHANGED <<form, clicked>>
  /\ UNCHANGED <<boardVars, viewVars, phase>>
  /\ Selects(selected)

EnterLaunches(outcome) ==
  InForm("Normal") /\ SelectedSession = "none" /\ Launch(outcome)

LeavesSession(s) ==
  /\ phase = "up" /\ selected # None
  /\ issues' = [issues EXCEPT ![selected].session = s]
  /\ UNCHANGED <<projects, edits, viewVars>>

(* close_primary_session_for_issue returns to normal mode from the         *)
(* terminal.  Without a session nothing happens.                           *)
CloseSelected ==
  /\ LeavesSession("none")
  /\ IF form.kind = "Terminal" /\ SelectedSession # "none"
       THEN Closes ELSE UNCHANGED <<form, clicked>>
  /\ Selects(selected)

(* The child of a live session cannot be ended: the session has left the   *)
(* manager's table by then, its record and the link stay.                  *)
CloseStops == SelectedSession = "live" /\ LeavesSession("stale")

(* By key, and before a deletion, that error ends the application.         *)
CloseStopsKey(kind) ==
  /\ InForm(kind)
  /\ CloseStops
  /\ Ends
  /\ Closes
  /\ UNCHANGED selected

(* handle_terminal_key: Ctrl-G detaches, every other key goes to the       *)
(* primary session of the issue selected now.                              *)
Detach ==
  /\ InForm("Terminal")
  /\ Closes
  /\ UNCHANGED <<boardVars, viewVars, phase>>
  /\ Selects(selected)

CanType == SelectedSession = "live"

TerminalKey ==
  /\ InForm("Terminal") /\ CanType
  /\ UNCHANGED <<boardVars, viewVars, form, phase, clicked>>
  /\ Selects(selected)

(* There is no session to type to, or the write to the one there is fails  *)
(* ("ended": its child has ended, which leaves it in the table).           *)
TerminalKeyFails(why) ==
  SubmitFails("Terminal", why = "ended" \/ ~CanType)

-----------------------------------------------------------------------------
(* handle_normal_key *)

MoveSelection(down) ==
  /\ InForm("Normal")
  /\ UNCHANGED <<boardVars, subview, filter, form, phase, clicked>>
  /\ IF subview = "issues"
       THEN UNCHANGED project /\ Selects(Step(Sorted(issues, filter), selected, down))
       ELSE project' = Step(ProjectsSorted, project, down) /\ Selects(selected)

SwitchSubview ==
  /\ InForm("Normal")
  /\ subview' = IF subview = "issues" THEN "projects" ELSE "issues"
  /\ project' = IF subview = "issues" THEN EnsuredProject(project) ELSE project
  /\ UNCHANGED <<boardVars, filter, form, phase, clicked>>
  /\ Selects(selected)

(* The forms a key opens in normal mode, in the view they belong to.       *)
OpenForm(f) ==
  /\ InForm("Normal")
  /\ Opens(f)
  /\ UNCHANGED <<boardVars, subview, filter, phase>>
  /\ Selects(selected)

OpenByKey ==
  \/ UNCHANGED project /\ \E kind \in {"MoveStatus", "SendInput", "AddComment", "Command",
                                       "Filter", "DeleteIssueConfirm"} : OpenForm(Form(kind))
  \/ UNCHANGED project /\ \E kind \in {"SetProjectRepoPath", "SetIssueCwdOverride"} :
       OpenForm(PathForm(kind))
  \/ UNCHANGED project /\ subview = "issues" /\ OpenForm(Form("NewIssue"))
  \/ UNCHANGED project /\ subview = "issues" /\ selected # None /\ OpenForm(EditForm)
  \/ UNCHANGED project /\ subview = "projects" /\ OpenForm(Form("NewProject"))
  \/ /\ subview = "projects"
     /\ project' = EnsuredProject(project)
     /\ OpenForm(PathForm("SetProjectIdentifier"))

QuitKey ==
  /\ InForm("Normal")
  /\ phase' = "quit"
  /\ UNCHANGED <<boardVars, selected, viewVars, form, clicked>>

-----------------------------------------------------------------------------
(* handle_mouse: rows and action buttons, whatever the mode *)

(* Rows are looked up for every column of the screen, of the right pane    *)
(* too.                                                                    *)
ClickIssue(i) ==
  /\ phase = "up" /\ subview = "issues"
  /\ i \in Clickable
  /\ UNCHANGED <<boardVars, viewVars, form, phase>>
  /\ Clicks(i # selected)
  /\ Selects(i)

ClickProject(q) ==
  /\ phase = "up" /\ subview = "projects"
  /\ projects[q] # "absent"
  /\ project' = q
  /\ UNCHANGED <<boardVars, subview, filter, form, phase, clicked>>
  /\ Selects(selected)

(* Buttons that open a form discard the one that is open.                  *)
ClickForm(f) ==
  /\ phase = "up"
  /\ Opens(f)
  /\ UNCHANGED <<boardVars, subview, filter, phase>>
  /\ Selects(selected)

ClickOpens ==
  \/ UNCHANGED project /\ ClickForm(Form("AddComment"))
  \/ UNCHANGED project /\ ClickForm(PathForm("SetProjectRepoPath"))
  \/ UNCHANGED project /\ subview = "issues"
       /\ \/ ClickForm(Form("NewIssue")) \/ ClickForm(Form("DeleteIssueConfirm"))
          \/ ClickForm(PathForm("SetIssueCwdOverride"))
          \/ selected # None /\ ClickForm(EditForm)
  \/ UNCHANGED project /\ subview = "projects" /\ ClickForm(Form("NewProject"))
  \/ /\ subview = "projects"
     /\ project' = EnsuredProject(project) /\ project' # None
     /\ ClickForm(PathForm("SetProjectIdentifier"))

ClickView(v) ==
  /\ phase = "up"
  /\ subview' = v
  /\ project' = IF v = "projects" THEN EnsuredProject(project) ELSE project
  /\ UNCHANGED <<boardVars, filter, form, phase, clicked>>
  /\ Selects(selected)

ClickLaunch(outcome) == Launch(outcome)

(* The Close button, in the issues view; its errors are reported, the      *)
(* failed save of a closed session among them.                             *)
ClickClose == subview = "issues" /\ CloseSelected /\ UNCHANGED phase

(* An attached terminal stays attached, to a session that is gone.         *)
ClickCloseStops ==
  /\ subview = "issues" /\ CloseStops
  /\ UNCHANGED <<form, phase>>
  /\ Clicks(form.kind = "Terminal")
  /\ Selects(selected)

CloseKey(saved) ==
  /\ InForm("Normal") /\ CloseSelected
  /\ IF SelectedSession = "none" THEN UNCHANGED phase ELSE Persist(saved)

-----------------------------------------------------------------------------
(* A board as an earlier run, or the CLI, has left it.                     *)
Init ==
  /\ issues \in [Issues -> {[status |-> st, title |-> i, project |-> q, cwd |-> FALSE,
                             session |-> s] :
       st \in {"absent", Statuses[1], OtherStatus}, i \in Issues,
       q \in {None} \cup Projects, s \in {"none", "stale"}}]
  /\ \A i \in Issues :
       /\ issues[i].title = i
       /\ issues[i].status = "absent" => issues[i].project = None /\ issues[i].session = "none"
  /\ projects \in [Projects -> {"absent", "path"}]
  /\ \A i \in Issues : issues[i].project # None => projects[issues[i].project] # "absent"
  /\ selected = Ensured(None, issues, None)
  /\ project = None /\ subview = "issues" /\ filter = None
  /\ form = Normal /\ phase = "up" /\ clicked = FALSE /\ edits = 0

Outcomes == {"launched", "unsaved", "failed", "blocked"}

Submit(saved) ==
  \/ \E i \in Issues : SelectProjectEnter(i, saved)
  \/ EditIssueEnter(saved) \/ AddCommentEnter(saved) \/ DeleteConfirmed(saved)
  \/ \E n \in DOMAIN Statuses : MoveStatusDigit(n, saved)
  \/ SetRepoPathEnter(saved) \/ SetIssueCwdEnter(saved)
  \/ \E q \in Projects : NewProjectEnter(q, saved)
  \/ \E ok \in BOOLEAN : SetKeyEnter(ok, saved)
  \/ CloseKey(saved)

Refusals ==
  \/ Refuse("NewIssue", {"empty"}, FALSE)
  \/ Refuse("NewIssueDescription", {"empty"}, TRUE)
  \/ Refuse("EditIssue", {"empty"}, TRUE)
  \/ Refuse("NewProject", {"empty", "wrong", "right"}, FALSE)  \* the key may be taken
  \/ Refuse("AddComment", {"empty"}, TRUE)
  \/ Refuse("SendInput", {"empty"}, FALSE)
  \/ Refuse("Command", {"empty"}, FALSE)  \* any that has no effect
  \/ Refuse("SetProjectIdentifier", {"empty", "wrong"}, FALSE)

Failures ==
  \/ SubmitFails("EditIssue", ~Text("empty") /\ selected = None)
  \/ SubmitFails("MoveStatus", selected = None)
  \/ SubmitFails("DeleteIssueConfirm", selected = None)
  \/ SubmitFails("Normal", selected = None)  \* the close key
  \/ CloseStopsKey("DeleteIssueConfirm") \/ CloseStopsKey("Normal")
  \/ SubmitFails("SendInput", ~Text("empty"))
  \/ AddCommentFails \/ SetRepoPathFails \/ SetIssueCwdFails
  \/ \E why \in {"ended", "not live"} : TerminalKeyFails(why)

Commands ==
  \/ \E v \in {"issues", "projects"} : CommandView(v)
  \/ \E f \in Filters : FilterEnter(f) \/ CommandFilter(f)
  \/ \E q \in Projects : CommandProjectNew(q)
  \/ \E q \in Projects \cup {None} : CommandAssign(q)

Keys ==
  \/ \E t \in {"empty", "wrong", "right"} : Typing(t)
  \/ \E down \in BOOLEAN : MoveSelection(down) \/ SelectProjectMove(down)
  \/ \E qs \in SUBSET Projects : SelectProjectQuery(qs)
  \/ \E outcome \in Outcomes : EnterLaunches(outcome) \/ (InForm("Normal") /\ Launch(outcome))
  \/ Escape \/ NewIssueTitle \/ NewIssueDescription \/ SendInputEnter
  \/ Focus \/ Detach \/ TerminalKey \/ SwitchSubview \/ OpenByKey \/ QuitKey

Mouse ==
  \/ \E i \in Issues : ClickIssue(i)
  \/ \E q \in Projects : ClickProject(q)
  \/ \E v \in {"issues", "projects"} : ClickView(v)
  \/ \E outcome \in Outcomes : ClickLaunch(outcome)
  \/ ClickOpens \/ ClickClose \/ ClickCloseStops

Next ==
  \/ Keys \/ Mouse \/ Commands \/ Refusals \/ Failures
  \/ \E saved \in BOOLEAN : Submit(saved)

Spec == Init /\ [][Next]_vars

-----------------------------------------------------------------------------
(* Properties *)

Kinds == TextForms \cup {"Normal", "Terminal", "SelectIssueProject", "MoveStatus",
                         "DeleteIssueConfirm", "Command", "Filter"}

(* Every variable has its type. *)
TypeOK ==
  /\ issues \in [Issues -> [status : StatusSet \cup {OtherStatus, "absent", "deleted"},
       title : Issues, project : Projects \cup {None}, cwd : BOOLEAN,
       session : {"none", "live", "stale"}]]
  /\ projects \in [Projects -> {"absent", "nopath", "path"}]
  /\ selected \in Issues \cup {None} /\ project \in Projects \cup {None}
  /\ subview \in {"issues", "projects"} /\ filter \in Filters
  /\ form \in [kind : Kinds, text : {"empty", "wrong", "right"}, of : Issues \cup {None},
               query : SUBSET Projects, index : 0..Cardinality(Projects)]
  /\ phase \in {"up", "quit", "error"} /\ clicked \in BOOLEAN /\ edits \in 0..MaxEdits

(* Whenever an event is handled, an issue is selected exactly if the list  *)
(* has any, and it is one of the list: no key acts on an issue that was    *)
(* deleted or filtered away before (ensure_selection); and the index of    *)
(* the project picker points at one of its entries, whatever was typed,    *)
(* navigated and clicked: what Enter takes is what the list marks.         *)
SelectionIsListed ==
  /\ TypeOK
  /\ phase = "up" =>
       IF Listed(issues, filter) = {} THEN selected = None
                                      ELSE selected \in Listed(issues, filter)
  /\ form.kind = "SelectIssueProject" => form.index <= Len(Options)

(* An edit form is saved into the issue whose title and description it     *)
(* shows, unless a mouse click has selected another one since the form was *)
(* opened.                                                                 *)
EditsStayWithTheirIssue ==
  [][\A i \in Issues : issues[i].title = i /\ issues'[i].title # i => clicked]_vars

(* While the terminal is attached, the selected issue has a session in the *)
(* manager's table: a typed key is written to it, and ends the application *)
(* only if that write fails, because the child has ended.  Not so once a   *)
(* click has selected another issue, has launched a session that failed or *)
(* has failed to close the one that is shown; nor while the issue list is  *)
(* filtered (a launch moves the issue, which may take it out of the list). *)
TerminalIsAttached ==
  phase = "up" /\ form.kind = "Terminal" /\ ~clicked /\ filter = None => CanType

(* A click selects the issue that the frame shows in that row, and rows    *)
(* without an issue select nothing.                                        *)
ClickHitsWhatIsDrawn ==
  LET drawn == Drawn  rows == [i \in Clickable |-> RowOf(i)] IN
  \A n \in 1..Len(drawn) + 1 :
    {i \in Clickable : rows[i] = BoardStartY + n - 1} =
      {i \in Issues : n \in DOMAIN drawn /\ drawn[n] = i}
==============================================================================
