# TLA+ models of ddak

ddak is a terminal kanban board (Rust) that runs coding agents in pseudo
terminals beside the issues they work on.  This directory holds TLA+ modules
that model its concurrent and stateful core, TLC configurations that check
them on small instances, and TLAPS proofs.  Paths below are relative to the
repository root (`src/` in `PROJECT.json`).

## 1. Inventory

| Component | Source | State | Operations | Talks to |
|---|---|---|---|---|
| PTY session | `crates/runtime-pty/src/lib.rs` | child process, PTY master, bounded output channel, reader thread | spawn, send, resize, interrupt, terminate, drop | kernel; SessionManager |
| SessionManager | `crates/tui-app/src/session_manager.rs` | table of live sessions, a forwarder thread each, sender of the event channel | spawn_session, send_*, resize, terminate, terminate_all, drop | PTY sessions; ScreenThread through the event channel |
| Session bus | `crates/orchestrator-core/src/session_bus.rs` | event channel, screen store (mutex), render channel | ScreenThread loop | main thread through store and render channel |
| Board | `crates/tui-app/src/board_poc.rs` | ApiService, selection, filter, input mode and form, workspace_sessions | event loop, key and mouse handlers, commands, launch, close, delete, persist, render | SessionManager, ApiService, state file, wkm |
| ApiService | `crates/rpc-core/src/lib.rs` | sessions, issues, projects, comments, primary sessions, migrations | CRUD, versioned status write, snapshot, save, load | owned by the board, by each CLI/MCP call, by the daemon |
| State file | `crates/rpc-core/src/lib.rs`, `crates/tui-app/src/main.rs` | one JSON or DuckDB snapshot | load, save | board, CLI processes, MCP server |
| CLI, MCP server | `crates/tui-app/src/main.rs` | an ApiService each, for a command or a connection | commands, tools | state file |
| StdioDaemon | `crates/transport-stdio/src/lib.rs` | shared ApiService, lock per session, subscribers | handle_json_line, client calls, subscribe | client threads |
| Worktrees | `crates/orchestrator-core/src/worktree.rs` | branches and worktrees of wkm | create, remove | board |
| Session lifecycle, event ingestor, fan-out, projection | `crates/orchestrator-core/src` | numbered events, accepted events, queues | transition, replay, ingest, publish, drain, rebuild | a library the application does not call |
| DuckDB store | `crates/store-duckdb/src/lib.rs` | schema, issue rows, issue-session links | open_and_migrate, create_link, primary_for_issue | Linear integration |
| Linear integration | `crates/integration-linear/src/lib.rs` | mapping profile, processed operation ids, cursor | save_profile, pull, push | DuckDB store; a library |
| Terminal surface | `crates/terminal-surface/src/lib.rs` | grid, cursor, region, alternate screen | control sequences, resize, render_to_sgr, compute_diff | a library |
| Resume planning, reconciliation, adapters, config, secrets, diagnostics | `crates/adapter-*`, `crates/orchestrator-core/src`, `crates/runtime-pty/src/reconciliation.rs` | little or none | probes, pure functions | |

What is hard, and what makes each part correct:

- *Output path.*  Four kinds of threads and three bounded channels, one of them
  shared by all sessions.  Correct when no output is lost, repeated, reordered or
  shown on another session's screen; when it is eventually shown; when no
  combination of full channels stops the application; and when no child of a session
  in the table outlives the application.
- *Board, sessions.*  Sequences of launches, closes and deletes in which any step can
  fail (spawn, kill, wkm, saving), crashes and restarts.  Correct when links,
  records, session table, worktrees and state file agree.
- *Board, input.*  Thirteen input modes, a mouse that is heard in all of them, and
  a selection that the filter, the mouse and every handler may move.  Correct when
  a key acts on the issue the user sees.
- *State file.*  Several processes load, change and save the whole snapshot.
  Correct when what is answered is in the file.
- *Daemon.*  Threads under nested locks.  Correct when calls are atomic, stale
  writes are refused, no success is lost, subscribers see history, nothing
  deadlocks.
- *Tickets.*  Identifier allocation, migrations and pagination.
- *Events.*  Delivery that loses, repeats and reorders; a bounded queue.
- *Database, Linear.*  A schema migrated again at each open and cut off anywhere;
  operations that must be done once, with a memory that a restart clears.
- *Grid.*  Every sequence of control sequences and resizes must leave an index in
  range and the hidden screen intact.

`PROJECT.json` lists every hazard at its line, with the properties that watch it.

## 2. Modules

| Module | What it is |
|---|---|
| `SessionPipeline` | children, readers, forwarders, ScreenThread, event loop of the main thread |
| `SessionFeed` | abstract specification of the pipeline: chunks shown one by one, in order, until the application ends |
| `StdioDaemon` | client calls under the session, api and subscriber locks |
| `VersionedSessions` | abstract specification of the daemon: atomic calls, optimistic versions |
| `BoardSessions` | what the board's handlers do to issues, projects, sessions, worktrees and the state file |
| `BoardInput` | what keys, commands and clicks do to modes, forms, selection, filter and rows |
| `StateFile` | the board, the MCP server and CLI processes over one state file |
| `ApiTickets` | projects, identifiers, records of moves, comments and their pages, loading a snapshot |
| `EventFlow` | lifecycle, ingestor, replay, projection and bounded fan-out |
| `IssueStore` | the DuckDB schema, its migrations, links between issues and sessions |
| `LinearSync` | extends `IssueStore`: the profile kept there, pull and push |
| `ScreenGrid` | the terminal surface |
| `SessionPipelineProofs`, `StdioDaemonProofs`, `BoardSessionsProofs`, `BoardInputProofs`, `StateFileProofs`, `ApiTicketsProofs`, `LinearSyncProofs` | theorems about the module each is named after, and their proofs |
| `RecursionProofs` | theorems about `EventFlow` and `ScreenGrid`, which share the lemmas on recursion over sequences, and their proofs |
| `MC*` | constants and bounds of the TLC runs |

### SessionPipeline

One action per step of a thread between two blocking points.

| Thread | Code | Actions |
|---|---|---|
| reader (per session) | `runtime-pty/src/lib.rs:106-119` | `ReaderRead`, `ReaderSend`, `ReaderEof` |
| forwarder (per session) | `session_manager.rs:89-96` | `ForwarderRecv`, `ForwarderSend`, `ForwarderEnd` |
| ScreenThread | `session_bus.rs:74-109` | `ScreenRecv`, `ScreenApply` (one arm per event), `ScreenRequestRender` |
| main | `board_poc.rs:342-380` and the SessionManager calls of its handlers | `MainDrain`, `MainDrained`, `MainRender`, `MainRenderResizing`, `MainPollTimeout`, `MainKey`, `MainLaunch`, `MainLaunchFails`, `MainClose`, `MainQuit`, `MainSend`, `ShutdownTerminate`, `ShutdownDone` |
| child | external | `ChildExit` |

The value a thread holds while it is blocked in a send is a variable
(`readerHand`, `fwdHand`, `screenHand`, `mainHand`); `mainHand` also marks where
in `spawn_session`, `resize` or `terminate` the main thread is, and `MainSend`
performs what follows the send.  A launch therefore takes two steps, as in the
code: PTY and reader exist before SessionStarted is sent, forwarder and table
entry after it.  Output is abstracted to chunk numbers; a screen (`text`) to the
chunks its current parser has processed; the kernel's PTY buffer to the freedom
of the reader to obtain the next chunk at any time, also after the child has
exited.  When the main thread is done the process is gone and no thread takes
another step (`Alive`); what is on its way is dropped.

Environment assumption: killing a child and waiting for it ends it.  The kill or
the wait may still report an error, which the code turns into a failed close
(`Terminate` with `ok = FALSE`): by key it leaves the event loop, by mouse button it is
shown and the loop goes on (`MainClose`).  A launch may fail after the child was started
(`MainLaunchFails`, `runtime-pty/src/lib.rs:95-102`); the child is then in no table,
and what becomes of it when its terminal is closed is its own affair (`ChildExit` may
happen or not).

### StdioDaemon

`pc[c]` walks through the statements of a call: look up the session's lock, take
it, take the api lock, read, write, broadcast, drop the guards in reverse order.
`records`, `call` and `reply` are exactly the variables of `VersionedSessions`, so
that the refinement needs no mapping; `log`, `since`, `stream` and `returned` are
history.  The two short critical sections (table of locks, list of subscribers)
are one step each because nothing is awaited inside them.  Both entrances, the
client methods and a JSON line, lead to the same actions.  Poisoned locks do not
occur: nothing panics while a lock is held.

### BoardSessions

A handler runs to its end on the main thread, so it is one step; the outcomes of
the calls it makes (`tree`, `removed`, `save`, the child failing to start) are
parameters.  `Persist` is the last part of every handler that ends with
`self.persist()`: "saved_error" is an error of the UI settings after the snapshot
was saved, "error" an error of the snapshot itself, after which a JSON file may be
truncated (an empty board on the next load) and a DuckDB file is unchanged.
Errors of key handlers leave the event loop, errors of mouse handlers and of
launches are shown in the status line, errors of saving after a `:` command are
dropped (`SaveResult`).  The modes of the board are reduced to "terminal" and the
others.  Of projects the model has whether they exist, under a key made of the name or
a chosen one, and which issues they own: created by form or by `project-new`
(`CreateProject`, `CreateProjectRefused`), given a key (`SetProjectKey`), assigned to an
issue or not (`AssignIssue`).  The forms for a title, a comment, a path and a working
directory save like `MoveIssue` and change nothing else here; which issue they change
is the matter of `BoardInput`.  `refused` names the projects whose key was refused and
that are not saved yet.  Ids are UUIDs: `used` keeps an id from being given out again
after a lost save.

### StateFile

A snapshot is the set of the changes it contains, numbered by `log`; loading,
changing and writing are separate steps of each process, and a write is two:
`fs::write` truncates a JSON file before it fills it (two writers can mix, a death
leaves a torn file), and a DuckDB file is locked while it is written (other
processes get an error).  `Succeeds` and `Applied` say which calls act, on what a
reference resolves to, and what a refused call leaves in memory; the calls of
`main.rs` differ in whether they save before they answer and in what becomes of a
failing save (`onError`).  `fresh` and `stale` record whether somebody has written
over a file whose content he had never loaded.

### BoardInput

A step is one event: its handler and then `ensure_selection`, which the event loop
runs before the next event.  The text in a form is reduced to what the handlers
tell apart (empty, wrong, right), titles to the issue they belong to.  Failures of
saves, launches, closes (`CloseStopsKey`, `ClickCloseStops`) and writes to a child that
has ended (`TerminalKeyFails`) are actions or parameters; a handler that returns an
error through `?` ends the event loop (`phase = "error"`).  `Drawn` is the list the frame shows,
`RowOf` the arithmetic of the mouse handler, computed independently as in the
code.  A sorted list is given by its order, a set of pairs (`IssueOrder`,
`ProjectOrder`), and `Ordered` is the list that it makes of a set.  `Init` is any board
that an earlier run or the CLI can have left.

### ScreenGrid

The grid cell by cell (a space or a glyph, with its attributes), with u16 arithmetic
modulo `Word`.
`resize`, printing, cursor motion, erasing, insertion, deletion and scrolling of
lines, regions, the alternate screen, the saved cursor and the attributes to come
(`pen`) are actions; `Sgr`, `Emitted` and `Regions` are the parameter parser,
`render_to_sgr` and, of one row, `compute_diff` as functions; `Reported` is the set of
places in all regions of a diff.  `Sgr` is the loop over the
parameters and `Reads` one turn of it: what it has read so far is the attributes and
how many of the parameters to come belong to a colour already read.  `panicked` marks
an index out of range.

### EventFlow

`Transition` numbers and records an event, `Ingest` takes any event of the history,
as often and in whatever order the environment pleases (an event never taken is a
lost one), `Publish` and `Drain` are the fan-out.  `Replay` is the lifecycle's check
of a history and `Rebuild` the projection of session states.  These folds, and the
choice of a session's events (`Chosen`), are recursive functions instead of
operators of the community modules, because those cannot be proved about.  A marker of
dropped output is an element of the queue with the number it announces.

### IssueStore and LinearSync

`Statements` is the list of the four migrations; `open_and_migrate` runs all of it
at each open and `CloseFile` may cut it anywhere.  Links are sequences in the order
of their creation.  In `LinearSync` the remote list changes at any time; `processed`
is the engine's memory, lost at `Restart`, while the caller may keep the cursor.

### ApiTickets

One action per call of ApiService that changes projects, issues or comments, and
`Reload` for a save followed by a load.  A refused call changes nothing and is no
step.  An identifier is the pair of key and number that the code joins with a
hyphen (a key has none, so the pair can be read off the text); number 0 stands for
`None`.  A key is a value; what the code does with its text is given by two
constants, `DeriveKey` (a name to the key derived from it) and `Variants` (a key to
itself followed by the keys with suffixes).  `HasVariant` leaves out the last resort
of `dedupe_project_identifier`, a random suffix for more than 9999 projects of one
stem.  Ids are naturals because loading visits them in order.  `Loaded` is a
relation rather than a recursive definition: it says of each project that its key
is the first free variant given those of the projects before it.  `Init` loads any
snapshot an older version may have left: keys missing or double, issues that have
a project and no number.  `reader` is a client that follows the cursors of
`comment_list`; what it may expect is fixed when it begins.  As in the code, comments are
a table by id and a listing (`Listed`) sorts the ids.  Comment ids are
counted, for one process gives out version 7 UUIDs in ascending order.  The records of
an issue's moves (`MovesOf`) are in the order they were made, which is that of
`issue_migrations` (a stable sort by milliseconds) as long as the clock is not set back;
that it may be set back is left out of both.

## 3. Runs

| Run | Instance | Question |
|---|---|---|
| `pipeline_safety` | 2 sessions (2 and 1 chunks), capacities 1/1/1, one size | Can threads, launches, failing closes and quits interleave so that output is lost, reordered or shown elsewhere, the parser of a live session is reset, or a child survives? No, but for the child of a launch that failed after starting it. |
| `pipeline_liveness` | 1 session, 3 chunks, two pane sizes, capacities 1/2/3, fair threads; deadlock is checked | Do PTY and parser agree on the size, is all output processed and painted, does quitting end? Yes, as long as the render channel has room. |
| `pipeline_deadlock` | 2 sessions, capacities 1/1/1 | Can the main thread and the ScreenThread wait for each other? Yes: finding. |
| `daemon` | 2 clients with 2 calls, 2 sessions (1 restored), 1 status, versions 1 and 2, 1 subscriber, fair threads | Are calls atomic, versions exact, event streams the history, and does every call return? Yes. |
| `board_safety` | 2 issues, 2 sessions, 1 project, 4 ids given out, JSON file | Do links, records, table, worktrees and file agree through failures, crashes and restarts? Yes, but for projects with a refused key, which are not saved. |
| `board_input` | 2 issues, 1 project, 2 columns and a status that is none, a filter, 2 edits | Does any order of keys, commands and clicks make a key act on an issue that is not the one listed, shown or drawn, or on a session that is gone? Only where a click or a filter has come between. |
| `state_file` | board, MCP server and one CLI process, 1 issue, 1 project, 5 tools, 3 changes, both formats | Is what is answered written, is the file always one consistent snapshot, and is a change lost only by a stale save or a torn write? Yes. |
| `state_lost` | as above | Can a process undo what another saved and answered? Yes: finding. |
| `tickets` | 2 projects of one derived key, 3 keys, 2 issues, 2 comments (5 for a reader in a smaller part), every older snapshot | Can identifiers clash or change unrecorded, records and comments disagree, or a client that follows cursors miss a comment? No. |
| `screen_grid` | sizes 3x2 and 1x3, counts 0, 1, 2, 15, words of 4 bits, 1 written cell | Do grid, region, cursor and hidden screen survive every sequence, does a diff report the characters that changed, are attributes read back? Yes, but for a restored cursor that a smaller size has cut off and for nested alternate screens. |
| `event_flow` | 2 sessions, 5 transitions, 6 of the states as goals, window 3, 7 outputs | Are accepted events a prefix of each history whatever the delivery, and is lost output announced? Yes. |
| `linear_sync` | 1 issue, 2 sessions, 2 external issues, 2 statuses, two mappings | Is the schema whole after every cut, is one link primary, does the cursor pass over anything? As promised, but for a list that gets shorter. |

**Bounds.**  Capacities of one and two stand for 50: what matters is a full, an
empty and, in `pipeline_liveness`, a partly filled event channel; the proofs below
hold for all capacities.  Two sessions are needed for one to disturb another and for
the shared channels to interleave; the numbers of chunks (`MaxChunks`) let every
stage of a session hold a chunk while another is ahead of it.  In the daemon a
write can be overtaken between any two of its steps by a complete call of the
other client.  On the board two sessions let one be superseded by the other and one
live while the other is closed; a behaviour uses any four of the five ids (`MaxIds`):
crashes and restarts are not bounded.
`MaxChanges = 3` gives each of the three processes a change of its own, on an issue,
a project and the assignment that joins them.  `MaxEdits` bounds the changes to
issues and projects, not the events; two columns and a hidden status are all that
rows and filters tell apart, and the first issue starts in the first column
(`MCInit`), for which of two equal issues starts where is a renaming.
`MaxComments` bounds all comments ever made and with them the moves, each of which
makes one.  Older snapshots put issues anywhere at the start, so two moves suffice
for a number to be freed and given out again; loads, key changes, creations and
deletions are not bounded, and the theorems have no bound at all.  A reader gets
five comments, two full pages and a rest, in the part with one issue and one project
(`Bounded` in `MCApiTickets`).  The grid's two sizes shrink one dimension while the other
grows, and a saved cursor can lie more than a column outside; one written cell is moved
through all places, and what happens to one is not affected by another.  Words of four
bits are the shortest in which a tab stop is a number.  Nothing but SGR looks at the
attributes, so all their combinations are explored on an untouched screen (`MCNext`),
and bold, which makes two cells of one character different, together with everything
except saved positions, regions and the alternate screen (`PenFirst`).  A window of
three keeps two outputs beside a marker, and seven outputs make it drop a marker.
Five transitions are two sessions' starts and one that runs ahead of a gap.  In
`linear_sync` the constraint `OnePart` explores links or synchronisation beside the
migrations, as neither reads the other's state; sequences of restarts and opens are not
bounded.  `SYMMETRY` is used where ids are interchangeable and no temporal
property beyond a step is checked.

**Deadlock checking** is off where a run ends with nothing left to do: all calls
made, all ids, changes or events used, the application or the board ended, or
(pipeline) the chunks exhausted and the main thread blocked as in
`pipeline_deadlock`.  `pipeline_liveness` checks it.

**Fairness.**  The threads of the process are scheduled: weak fairness on each
reader's send, forwarder, the ScreenThread and the main thread's own steps.
Children and the user owe nothing: no read of new output, key, launch, close or
exit is fair.  A send on the shared event channel is strongly fair, for several
senders compete for a slot and the channel (crossbeam) wakes a blocked sender when
one is freed; without it one thread could lose every race.  The daemon has only
weak fairness, as the mutexes of the standard library promise no order; calls are
bounded, so nobody is overtaken for ever.  `pipeline_liveness` gives the render
channel room for all chunks of the instance, because beyond that the program may
stop in the cycle that `pipeline_deadlock` shows; the liveness results are about
the program while that cycle is not reached.  `shutdown` has the same weakness: it
sends SessionExited without draining the render channel.

## 4. Findings

- `pipeline_deadlock`: the main thread blocks in `event_tx.send`
  (`session_manager.rs:83`, `133`, `155`) while the ScreenThread blocks in
  `render_tx.send` (`session_bus.rs:85`); the main thread is the only one that
  drains render requests (`board_poc.rs:349`).  PROJECT_SPEC.md:760 asks that
  kanban operations stay responsive under output.
- `state_lost`: `save_api` (`main.rs:1710`) writes one process's whole snapshot over
  the file whatever that holds, so a change another process has saved and answered
  is undone.  PROJECT_SPEC.md:518 says that mutating calls carry the version of what
  they change; those of issues and projects do not.

### Observations

Behaviour met while modelling that a maintainer may want to know.  The models
contain it; the properties are stated so as to hold with it, or exclude it by name.

*Board and sessions*
- A second launch of an issue whose session runs replaces the link and leaves the
  running session without any (PROJECT_SPEC.md:197-198 speaks of one active session
  and of secondary ones).
- A launch that fails after the child was started (`runtime-pty/src/lib.rs:95-102`) does
  not kill it: no `PtySession` exists whose drop would, and `terminate_all` does not know
  it.  It is left to the hangup of its terminal (PROJECT_SPEC.md:767 asks that normal
  exits leave no orphans), while the board removes the worktree it was started in.
- `project-new` with a key that is not valid or not free reports a failure, but has made
  the project under a key of its own; it is on the board and not in the file, until
  anything else is saved (`board_poc.rs:1394-1406`).  The form checks the key first.
- `:` commands drop the error of a failing save.
- Nothing reconciles records on start (PROJECT_SPEC.md:341): they stay "running".
- The guard against needless resizes (`board_poc.rs:3632`) reads the size from the
  screen store, which lags behind the PTY, so a resize may be sent several times.

*Board input*
- A refused path, an input without a session, a move or delete with nothing
  selected: the error leaves the event loop through `?` and ends the application.
  So does typing in terminal mode once a click has selected an issue without a session,
  once the filter hides the launched issue, after a relaunch or close by button failed,
  or when the child has ended and the write to it fails.
- A close by button that fails has taken the session out of the table; its record stays
  running, its link and worktree stay, no SessionExited is sent, and an attached
  terminal stays attached (`session_manager.rs:152-154`, `board_poc.rs:1276-1280`).
- The deletion confirmed by `y` is that of the issue selected by then, and an edit form
  saves into the issue selected by then; a click may have changed both.
- `m` and `d` act on the selected issue in the projects view too, where it is not
  shown.  Issues of a status that is no column can be selected but are never drawn.
- Rows of issues are looked up in every column of the screen.
- The project picker draws its first five entries only, and the marked one may not be
  among them.
- The edit form shows the latest comment and adds it again when saved.

*Tickets*
- The error at `rpc-core/src/lib.rs:666` says that a project's identifier is
  immutable after its first issue; the code looks at the issues of this moment
  (`:660`), so the key can change once they have left.

*Terminal surface*
- A saved cursor that a smaller size has cut off is restored as it is, and deleting
  characters there indexes out of range.
- Entering the alternate screen twice forgets the main one.
- `compute_diff` compares the characters of the columns that both screens have: a change
  of attributes alone is not reported, nor are the columns that a wider screen adds
  (unless a change reaches the last common column).  So painting its regions does not
  always show the new screen; the test `diff_detects_changed_cells`
  (`terminal-surface/tests/vt_snapshots.rs`) changes characters only.  `row_end` is the
  last row of a region of changes, and one more than the last for the region of added
  rows.  Nothing in the application repaints from it: the board draws with `vt100`.
- Sums of u16 wrap in a release build; inserting a line into a grid without rows would
  panic (sizes are assumed to be at least one).  Inserting and deleting lines ignore
  the top of the region.  A cursor motion without a number does not move.

*Events*
- The id of an event that comes early is recorded before its number is checked, so
  that sending it again is taken for a duplicate and the gap is permanent.
- A marker counts the elements dropped since the last one, not what a dropped marker
  announced; `LossIsAnnounced` therefore promises only that loss shows, not how much.
- A window of zero would loop for ever; `Window` is assumed positive.

*Database and Linear*
- Every open runs all migrations again whatever version is recorded; a cut inside the
  last leaves version 4 recorded and the unique index on issues missing until the
  next open.
- While an issue is not in progress it can get several primary links, and
  `primary_for_issue` returns the oldest.
- An operation quarantined for a status without mapping is not tried again in
  that process after the mapping has changed (PROJECT_SPEC.md:627); a return to a
  status pushed before is not pushed, and an update of a pulled issue is not pulled.
- A list that gets shorter makes the cursor skip issues (excluded by `shrunk` in
  `NothingPassedOver`).

## 5. Mutants

A definition named `Faulty...` is a plausible mistake in the definition that
follows it (a dropped guard, a forgotten assignment, a wrong order).  No
specification uses one.  Replacing the definition by its faulty variant makes TLC
report the property that `PROJECT.json` ("mutants") names, which shows that the
property depends on that piece of the code.

## 6. Proofs

The theorems hold for every value of the constants; the runs of section 3 check the same
formulas on small instances.  The bounds on runs (`MaxChanges`, `MaxComments`, ...) are
constants too: the theorems hold for every bound.  The assumptions are on the constants
only, stated where these are declared, and evaluated by TLC in the runs.  An invariant
is proved from three facts: it holds at the start, every step keeps it, and it
implies the property.

### SessionPipelineProofs

From `ConstantsAssumption` (the initial size is a size, capacities are positive,
`MaxChunks` is a function to naturals), for any number of sessions, any capacities and
any amount of output:

| Theorem | Statement |
|---|---|
| `Typing` | `Spec => []TypeOK`, which includes that no channel exceeds its capacity |
| `OutputOrder` | `Spec => []NothingLostOrReordered` |
| `Refinement` | `Spec => FeedSafe`: the pipeline implements `SessionFeed` |
| `QuitEndsTheOthers` | `Spec => []OnlyFailedLaunchesOutlive` |
| `LiveScreensComplete` | `Spec => []LiveScreenComplete` |
| `ScreensOpenFirst` | `Spec => []ScreenBeforeBytes` |
| `SizesSettle` | `Spec => []SizesAgree` |

*Typing* is inductive by itself, except that a step needs what a channel's head and
tail are.  *OutputOrder*: for each session the chunks read so far are cut into
consecutive stretches by the places they can be in (hand of the reader, output
channel, hand of the forwarder, event channel, hand of the ScreenThread, applied);
`PastReader`, `PastOutput`, `PastForwarder` and `Received` are the cuts.
`NothingLostOrReordered` says that each place holds exactly its stretch; with
`TypeOK` it is inductive.  In the event channel, which all sessions share, a
stretch is stated by three facts: the session's chunks there lie in the stretch,
they ascend, and every chunk of the stretch is there.  `OrderFrame` disposes of the
steps that move none of this, one lemma per moving step does the rest, and
`OtherEventKeepsOrder` the main thread's events.  *Refinement*: a `ScreenApply` of a
bytes event is `Show`, for the order invariant says that the chunk in hand is the
next one; `ReaderRead` is `Emit`, `ShutdownDone` is `End`, all else stutters.
*QuitEndsTheOthers*: every running child is in the table, or its SessionStarted is in the
main thread's hand, or no reader was ever started for it (`LaunchFailed`), and the main
thread ends only when the first two are empty.  *The other
three* rest on `ScreenFollows`, an invariant about one session at a time: on the way
to the screen (`Way`: the hand of the ScreenThread, the event channel, the hand of
the main thread) a session not launched is not mentioned; a live one has no
SessionExited there, has its screen or a SessionStarted ahead of everything else of it,
shows what was applied, and has as the last size on its way that of the PTY.

### StdioDaemonProofs

From `DaemonAssumption` (clients and sessions are finitely many, the restored are
sessions, the status of a new session is none of those set) and `NoneAssumption` (`None`
is neither a call nor a reply), for any number of clients, sessions, calls and
subscribers:

| Theorem | Statement |
|---|---|
| `SubscribersSeeHistory` | `Spec => []StreamIsHistory` |
| `DaemonImplementsPromise` | `Spec => CallsAreAtomic`: the daemon implements `VersionedSessions` |

The inductive invariant adds to the types who is where: `ApiExclusive` (between taking
and dropping the api lock there is its holder and nobody else), `PlaceFits` (what a
client has been asked and whether it has a reply), `ReadIsCurrent` (the version
`session_set_status` has read is still that of the session: the api lock is held
from the read to the write) and `LastUnannounced` (a change that is yet to be announced
is the last one made, so announcements keep its order).  For the refinement `Begin` is
`Invoke`, the steps that create, list, refuse or write are `Perform`, giving up the last
lock is `Return`, and all else stutters.

### BoardSessionsProofs

From `BoardAssumption` (`None` is no issue, session or project), for any number of issues,
sessions and projects, either format of the file and any sequence of handlers, failures, crashes
and restarts:

| Theorem | Statement |
|---|---|
| `LinksAlwaysResolve` | `Spec => []LinksResolve` |
| `NoLiveSessionShownEnded` | `Spec => []LiveIsRecordedRunning` |
| `NoWorktreeUnderLiveSession` | `Spec => []LiveWorktreeKept` |
| `FileFollowsBoard` | `Spec => []OnlyRefusedProjectsUnsaved` |

The invariant adds `Snapshots` (memory and file are both in order, and whatever id
occurs there, or belongs to a session launched in a worktree of its own, has been given
out, so that a new one is nowhere in use) and `DownIsQuiet` (no session is live while the application is down).  A
handler is cut like the code into what it does to the records and the `Persist` at its
end.

### BoardInputProofs

From `BoardInputAssumption` (ids are naturals and finitely many, the columns are
different statuses, `OtherStatus` is none of them, the words for none are no status,
issue or project), for any issues, projects, columns and filters, any
number of edits, and every board that an earlier run or the CLI can have left:

| Theorem | Statement |
|---|---|
| `SelectionIsAlwaysListed` | `Spec => []SelectionIsListed` |
| `TerminalStaysAttached` | `Spec => []TerminalIsAttached` |
| `EditsReachTheirIssue` | `Spec => EditsStayWithTheirIssue` |
| `ClicksHitWhatIsDrawn` | `Spec => []ClickHitsWhatIsDrawn` |

The invariant `IInv` has beside the types and `TerminalIsAttached` the selection
(`SelectionInList`), the picker's index (`PickerInRange`), and two facts about an open
edit form that no property states and its saving needs: it was opened on an issue
(`EditFormHasIssue`), and unless a click has come between, that is the issue now selected
(`EditFormShowsSelection`).  The keys of the form change neither selection nor list, and
the handler that saves it acts on the selection of that moment.  Each handler is shown to
make a `BoardStep`: types are kept, the selection is what `ensure_selection` makes of the
step's outcome (`Reselects`), the form is newly opened, moved in or stays (`FormStep`),
and a title changes only by a submitted edit or back to the issue's own (`TitleStep`).
The invariant follows from these four alone.

*Rows*: both orders are total (`TotalOrder`), so an issue's position, one more than
the number of those before it, is different from any other's (`BelowGrows`) and each
position up to the number of issues is taken (`EachPosition`).  Hence a sorted list
has each of its issues once, at its position.  `Drawn` strings the columns together;
`ColumnPlaced` says that the list of a column begins behind the issues of those above,
which is what the mouse handler counts.

### StateFileProofs

From `StateFileAssumption` (processes differ, entities and the words for none differ)
and `ToolsAssumption` (`Tools` are tools of the CLI), for any number of CLI processes,
issues, projects and changes:

| Theorem | Statement |
|---|---|
| `AnswersFollowWrites` | `Spec => []AnsweredWasWritten` |
| `OnlyStaleSavesLose` | `Spec => []LossNeedsStaleSave` |
| `FileStaysClosed` | `Spec => []FileIsClosed` |
| `RefusalsLeaveCreations` | `Spec => []RefusalLeavesAtMostACreation` |

The invariant adds `CallsAreOwn` (what a call has changed is in its own process's memory,
and neither in another's nor in anything written), `FreshKnows` (while no stale save
has happened, a process that has loaded or written what the file holds knows every
change answered and written), `AllClosed` (the memory of each process, not only the
file, has the creation of what it mentions) and `RefusedStaysOut`.

### ApiTicketsProofs

From `TicketsAssumption` (ids are naturals and finitely many, each key is its own
first variant, page sizes are naturals, `None` is none of these), for any number of projects, issues, names, keys and
comments, and any snapshot of an older version:

| Theorem | Statement |
|---|---|
| `OneIssuePerIdentifier` | `Spec => []IdentifiersUnique` |
| `NoSilentChange` | `Spec => ChangesAreRecorded` |
| `MovesLeadHere` | `Spec => []MigrationChain` |
| `EveryMoveIsNoted` | `Spec => []MovesAreNoted` |
| `PagesMissNothing` | `Spec => []ListingComplete` |

The inductive invariant `IInv` is `InOrder` of the projects and issues: keys differ,
each issue is ad hoc or carries exactly the identifier of its project and number,
and, what `IdentifiersUnique` does not say, numbers within a project differ and all
numbers are bounded.  The bound is what gives `next_issue_number` its maximum
(`HighestIs`, from the well-foundedness of the naturals).  *Loading*:
`NormalKeysDiffer` and `LoadedInOrder` show that whatever an older snapshot holds is
in order afterwards (an issue without a number gets the highest plus its rank, and
ranks differ because the sets they count are strictly nested), which gives the
initial states; `ReloadKeeps` shows that loading what is in order already changes
nothing, by the least project whose key would change.  *Steps*: all changes of one
issue go through `IssueChangeInOrder`, and `AssignedIs` says that an assignment
keeps the number within a project and takes a free one otherwise.  *NoSilentChange*
needs besides that the ids of issues are never given out twice (`IdsUsed`).

*Moves*: `Fits` adds that the records of each issue are a chain that ends where the issue
is, and that their number is that of its comments on moves (`NotesFit`).  That needs
what choosing from a list (`MovesOf`) makes of one record more, and that removing
an issue's records leaves those of the others alone.  *Listings*: `ReaderFit` says of a
reader that what it has seen ends with its cursor and has everything it may expect up to
there (`Follows`).  `AscendingIs`, `ListedIs` and `PageIs` say what sorting and a page
are; `StepReaderFits` that comments added meanwhile, and those deleted with another
issue, do not move the cursor.

### LinearSyncProofs

Without assumptions, for any issues, sessions, mappings and history of Linear's list:

| Theorem | Statement |
|---|---|
| `FinishedOpenIsWhole` | `Spec => []SchemaIsWhole` |
| `EveryIssueIsLookedAt` | `Spec => []NothingPassedOver` |
| `NewPrimaryStandsAlone` | `Spec => OnePrimary` |

`SchemaGrows` says that after its first n statements an open has made everything these
leave standing, whatever the file held before; after the last that is the whole
schema.  `OnePrimary` needs that a session is linked to an issue at most once
(`LinksTyped`).

### RecursionProofs: EventFlow

From `EventFlowAssumption` (the streams are sessions, the window is positive), for any
number of sessions, events and outputs:

| Theorem | Statement |
|---|---|
| `AcceptedAreHistory` | `Spec => []AcceptedIsHistory` |
| `DrainsTellOfLoss` | `Spec => []LossIsAnnounced` |

`Lives` says of the lifecycle that the log of each session is numbered from 1 and a path
of allowed transitions that ends in its current state; `Takes` of the ingestor that what
it has accepted of a session is the beginning of that path, that the projected state is
where this beginning ends, and that every number it has passed is in `seen`.  The last
is the point of the proof: an event that comes to the ingestor unseen is therefore the
next one or ahead of a gap, never behind.  Replay of what was accepted succeeds because the
projected state is that from which the next event of the path started.  `FanoutFits`
says what a queue holds since the last drain: its outputs are the newest, it has a
marker if and only if some are missing, and the markers count no more than is missing.
`MarkerMakesRoom` is the step that may drop earlier markers: each of them stands for at
least one output, so that what the new marker counts is missing indeed.

### RecursionProofs: ScreenGrid

From `ScreenGridAssumption` (sizes are at least 1x1 and, like the counts, fit into a
word; renditions are sequences of numbers) and `NoneIsNoScreen` (`None` is no screen),
for panes of every size:

| Theorem | Statement |
|---|---|
| `ScreensHaveTheSizeOfThePane` | `ScreenSpec => []GridFits` |
| `AlternateScreenGivesBack` | `ScreenSpec => []MainScreenKept` |
| `OnlyRestoringLeavesGrid` | `ScreenSpec => CursorStaysInGrid` |
| `DiffsFindCharacters` | `ScreenSpec => DiffFindsCharacters` |
| `AttributesReadBack` | `ScreenSpec => SgrRoundTrip` |

The invariant `ScreenInv`: both screens are grids of the size of the pane
(`ScreensFit`), cursor, saved position and region are numbers, the region's last row
one of the screen's (`PlacesFit`), and the main screen is kept.  `DiffFindsCharacters` needs
what the recursion of `compute_diff` over a row yields, and that a step
either keeps the width, so that a run still open at the end of a row ends with it, or is a
resize, which changes nothing that both screens have (`CroppedIsSame`).

`AttributesReadBack` is about two functions of any input.  `PenTyped` is the
invariant: the attributes to come are colours of one or three bytes and flags, whatever
was parsed (a number of a colour is taken modulo 256, an incomplete colour changes
nothing, `ExtendedTyped`).  `Makes(p, b, c)` says that the parameters `p`, whatever
follows them, turn the attributes `b` into `c`.  That is so if reading reaches the end
of `p` with `c` and nothing left to pass over (`ReadsOn`), for reading on depends on
nothing before (`ReadsLater`); and it composes (`MakesBoth`).  What `render_to_sgr`
writes is cut into its pieces: the reset makes a plain cell of any other, each colour
(`MakesColor`) and each flag (`MakesFlag`) adds one attribute, and after the last the
attributes are those that were to be written (`EmittedMakes`).  A piece that could be
read together with its neighbour, or a colour whose parameters do not fill their
places, would have no such lemma.

### Induction

The induction theorems of the library take an operator as a parameter, which the
provers cannot instantiate.  Two forms are within reach and are used instead: a set
of numbers that is not empty has a least element (`LeastNumber`, from the
well-foundedness of the naturals), which turns an induction into the search for a least
counterexample; and a set of sequences that has the empty one and is closed under
`Append` has all (`SeqInduction`, from the former).  With them it is proved that a
recursive function exists (`Recursion` and the lemmas `...Runs` and `...Exist`) and what an
element more makes of it (`...From`).

### Only model-checked

Liveness (`FeedLive`, `OutputIsPainted`, `QuitCompletes`, `EveryCallReturns`), which is
outside the prover's reach, and the two findings, which are counterexamples.  Every
other property of a run is a theorem.

## 7. Not modelled, and why

- Kernel PTY buffers and writes to a PTY: a child that does not read can block the
  main thread in `write_all`, which is the kernel's flow control and not visible in
  the code's own state.  An endless flood of output: the drain loop of the main
  thread has no bound, `MaxChunks` does.
- Drawing, layout, themes, text editing within a field, the pane divider, workspace
  mode (`w`, `board_poc.rs:2099-2148`), scrolling: geometry and wording that no
  property is about.
- Command lines, argument parsing, output formats, tool and resource schemas, JSON
  encoding.
- Resume planning and startup reconciliation: two decision tables without state that
  nothing calls; a model would repeat the table.
- Of the grid: `serialize` and getters, the escape-sequence parser (the `vte` crate).
- Of the projection: issue statuses and links (the same rule of the last value) and
  the checksum.
- `AsyncPtySession` (used by nothing); adapters, configuration, secrets and
  diagnostics (pure or single-threaded, and covered by unit tests).

## 8. Plan

1. Done: `SessionPipeline` with `SessionFeed` and proofs; `StdioDaemon` with
   `VersionedSessions`; `BoardSessions`; `BoardInput`; `StateFile`; `ApiTickets` with
   proofs; `EventFlow`; `IssueStore` with `LinearSync`; `ScreenGrid`.
2. Done: the proofs of section 6.  Every safety invariant and action property of the
   runs is a theorem.
3. Open: the components section 7 leaves out; and of the hazards without a property, a
   child that ends by itself and stays in the table, should the code come to notice it.
