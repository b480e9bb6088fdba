------------------------------- MODULE ApiTickets -------------------------------
(***************************************************************************)
(* The ticket half of ApiService: projects and their keys, issues and      *)
(* their identifiers, the records of moves between projects, comments and  *)
(* their listing page by page, and loading a saved snapshot.               *)
(*                                                                         *)
(* An identifier is the pair of a project's key and an issue number: the   *)
(* code joins them with a hyphen, which no key contains, so that different *)
(* pairs are different texts.  A number is 0 where the code has None; the  *)
(* numbers it gives out start at 1.  Comment ids are UUIDs of version 7,   *)
(* which one process gives out in ascending order: here they are counted.  *)
(* Calls that are refused change nothing and are no steps.  The version    *)
(* counters, titles, paths and columns of issues are left out: nothing     *)
(* here depends on them.                                                   *)
(***************************************************************************)
EXTENDS Naturals, Sequences, FiniteSets, SequencesExt

CONSTANTS
  Issues,       \* issue ids, in the order of their text
  Projects,     \* project ids, in the order of their text
  Names,        \* names of projects
  Keys,         \* valid project keys
  DeriveKey,    \* the key derived from each name ("PRJ" if it has no letters)
  Variants,     \* each key, followed by the keys with suffixes 2, 3, ...
  Limits,       \* page sizes asked for
  MaxComments,  \* bound: comments ever made, those about moves included
  None

ASSUME TicketsAssumption ==
  /\ Issues \subseteq Nat /\ Projects \subseteq Nat
  /\ IsFiniteSet(Issues) /\ IsFiniteSet(Projects)
  /\ DeriveKey \in [Names -> Keys]
  /\ Variants \in [Keys -> Seq(Keys)]
  /\ \A k \in Keys : Variants[k] # <<>> /\ Variants[k][1] = k
  /\ Limits \subseteq Nat /\ MaxComments \in Nat
  /\ None \notin Projects \cup (Keys \X Nat) \cup Nat

VARIABLES
  projects,    \* ApiService.projects: the name and the key of each project
  issues,      \* ApiService.issues: project, number and identifier of each issue
  migrations,  \* ApiService.migrations
  comments,    \* ApiService.comments, by their ids
  lastComment, \* the last comment id given out
  used,        \* history: the issue ids given out, which are never given out again
  reader       \* a client that lists comments page by page

ticketVars == <<projects, issues, migrations, used>>
commentVars == <<comments, lastComment>>
vars == <<ticketVars, commentVars, reader>>

(* A function changed or extended at one argument. *)
With(f, x, v) == [y \in DOMAIN f \cup {x} |-> IF y = x THEN v ELSE f[y]]

-----------------------------------------------------------------------------
(* Project keys *)

(* dedupe_project_identifier; HasVariant excludes its last resort for more *)
(* than 9999 projects that share a stem.                                   *)
HasVariant(base, taken) ==
  \E n \in DOMAIN Variants[base] : Variants[base][n] \notin taken

Dedupe(base, taken) ==
  LET Free(n) == Variants[base][n] \notin taken
  IN  Variants[base][CHOOSE n \in DOMAIN Variants[base] :
                       Free(n) /\ \A m \in 1..(n - 1) : ~Free(m)]

KeysInUse == {projects[p].key : p \in DOMAIN projects}

IssuesOf(p) == {i \in DOMAIN issues : issues[i].project = p}

ProjectCreate(p, name) ==
  /\ p \notin DOMAIN projects
  /\ HasVariant(DeriveKey[name], KeysInUse)
  /\ projects' = With(projects, p,
       [name |-> name, key |-> Dedupe(DeriveKey[name], KeysInUse)])
  /\ UNCHANGED <<issues, migrations, used, commentVars, reader>>

(* A key is set whether or not issues of the project carry the old one.    *)
FaultyProjectSetIdentifier(p, key) ==
  /\ p \in DOMAIN projects
  /\ \A q \in DOMAIN projects \ {p} : projects[q].key # key
  /\ projects' = [projects EXCEPT ![p].key = key]
  /\ UNCHANGED <<issues, migrations, used, commentVars, reader>>

ProjectSetIdentifier(p, key) ==
  /\ IssuesOf(p) = {}
  /\ \A q \in DOMAIN projects \ {p} : projects[q].key # key
  /\ p \in DOMAIN projects
  /\ projects' = [projects EXCEPT ![p].key = key]
  /\ UNCHANGED <<issues, migrations, used, commentVars, reader>>

-----------------------------------------------------------------------------
(* Issues and their projects *)

Highest(S) == CHOOSE n \in S : \A m \in S : m <= n

(* The next number is one more than the number of issues.                  *)
FaultyNextNumber(p) == Cardinality(IssuesOf(p)) + 1

NextNumber(p) == Highest({issues[i].number : i \in IssuesOf(p)} \cup {0}) + 1

AdHoc == [project |-> None, number |-> 0, identifier |-> None]

IssueCreate(i) ==
  /\ i \notin used
  /\ used' = used \cup {i}
  /\ issues' = With(issues, i, AdHoc)
  /\ UNCHANGED <<projects, migrations, commentVars, reader>>

(* Every assignment gives a new number, also one to the same project.      *)
FaultyAssigned(i, p) ==
  [project |-> p, number |-> NextNumber(p),
   identifier |-> <<projects[p].key, NextNumber(p)>>]

(* The issue after issue_assign_project: the number is a new one if the    *)
(* project is.                                                             *)
Assigned(i, p) ==
  LET n == IF issues[i].project # p \/ issues[i].number = 0
             THEN NextNumber(p) ELSE issues[i].number
  IN  [project |-> p, number |-> n, identifier |-> <<projects[p].key, n>>]

(* The record of a move, and the comment the system makes about it.        *)
Record(i, to) ==
  /\ lastComment < MaxComments
  /\ lastComment' = lastComment + 1
  /\ comments' = With(comments, lastComment + 1, [on |-> <<"issue", i>>, body |-> "moved"])
  /\ migrations' = Append(migrations,
       [issue |-> i,
        from |-> issues[i].project, fromId |-> issues[i].identifier,
        to |-> to.project, toId |-> to.identifier])

IssueAssignProject(i, p) ==
  /\ p \in DOMAIN projects
  /\ i \in DOMAIN issues
  /\ issues' = [issues EXCEPT ![i] = Assigned(i, p)]
  /\ IF issues[i].project # p
       THEN Record(i, Assigned(i, p))
       ELSE UNCHANGED <<migrations, commentVars>>
  /\ UNCHANGED <<projects, used, reader>>

IssueUnassignProject(i) ==
  /\ i \in DOMAIN issues
  /\ issues[i].project # None
  /\ issues' = [issues EXCEPT ![i] = AdHoc]
  /\ Record(i, AdHoc)
  /\ UNCHANGED <<projects, used, reader>>

(* The records of the moves of these issues, in the order they were made:  *)
(* SelectSeq, in a form that can be proved about.  issue_migrations sorts  *)
(* them by their milliseconds, which changes nothing as long as the        *)
(* system's clock is not set back.                                         *)
MovesOf(log, is) ==
  LET chosen[n \in 0..Len(log)] ==
        IF n = 0 THEN <<>>
        ELSE IF log[n].issue \in is THEN Append(chosen[n - 1], log[n]) ELSE chosen[n - 1]
  IN chosen[Len(log)]

CommentsOn(e) == {n \in DOMAIN comments : comments[n].on = e}

(* The comments of a deleted issue stay.                                   *)
FaultyCommentsWithout(i) == comments

CommentsWithout(i) ==
  [n \in DOMAIN comments \ CommentsOn(<<"issue", i>>) |-> comments[n]]

IssueDelete(i) ==
  /\ i \in DOMAIN issues
  /\ issues' = [j \in DOMAIN issues \ {i} |-> issues[j]]
  /\ comments' = CommentsWithout(i)
  /\ migrations' = MovesOf(migrations, Issues \ {i})
  /\ UNCHANGED <<projects, used, lastComment, reader>>

-----------------------------------------------------------------------------
(* Comments *)

Entities == {<<"issue", i>> : i \in DOMAIN issues}
              \cup {<<"project", p>> : p \in DOMAIN projects}

CommentAdd(e) ==
  /\ e \in Entities
  /\ lastComment < MaxComments
  /\ lastComment' = lastComment + 1
  /\ comments' = With(comments, lastComment + 1, [on |-> e, body |-> "user"])
  /\ UNCHANGED <<ticketVars, reader>>

(* The numbers of S, the smallest first.                                   *)
Ascending(S) ==
  [n \in 1..Cardinality(S) |-> CHOOSE x \in S : Cardinality({y \in S : y < x}) = n - 1]

(* The ids of the comments on an entity in the order asked for.            *)
Listed(e, order) ==
  LET all == Ascending(CommentsOn(e))
  IN  IF order = "asc" THEN all ELSE Reverse(all)

(* A page begins with the comment the cursor names.                        *)
FaultyStart(list, cursor) ==
  IF cursor = None THEN 0
  ELSE (CHOOSE n \in DOMAIN list : list[n] = cursor) - 1

(* How many comments precede the page after the cursor. *)
Start(list, cursor) ==
  IF cursor = None THEN 0
  ELSE CHOOSE n \in DOMAIN list : list[n] = cursor

(* The page after the cursor: at least one comment, if there is any.       *)
Page(list, cursor, limit) ==
  LET start == Start(list, cursor)
      size  == IF limit = 0 THEN 1 ELSE limit
      end   == IF start + size < Len(list) THEN start + size ELSE Len(list)
      items == SubSeq(list, start + 1, end)
  IN  [items |-> items,
       next  |-> IF end < Len(list) THEN list[end] ELSE None]

Idle == [state |-> "idle", on |-> None, order |-> "asc", limit |-> 0,
         cursor |-> None, seen |-> <<>>, expected |-> {}]

(* A client asks for the first page.  What it may expect to see are the    *)
(* comments that are there at this moment.                                 *)
ReadFirst(e, order, limit) ==
  /\ reader.state # "reading"
  /\ e \in Entities
  /\ reader' = [Idle EXCEPT !.state = "reading", !.on = e, !.order = order,
                            !.limit = limit,
                            !.expected = CommentsOn(e)]
  /\ UNCHANGED <<ticketVars, commentVars>>

(* One comment_list call: it continues from the cursor of the last page,   *)
(* or fails because the entity is gone.                                    *)
ReadPage ==
  /\ reader.state = "reading"
  /\ LET list == Listed(reader.on, reader.order)
         page == Page(list, reader.cursor, reader.limit)
     IN  reader' =
           IF reader.on \in Entities
             THEN [reader EXCEPT
                     !.seen = @ \o page.items,
                     !.cursor = page.next,
                     !.state = IF page.next = None THEN "done" ELSE "reading"]
             ELSE Idle
  /\ UNCHANGED <<ticketVars, commentVars>>

-----------------------------------------------------------------------------
(* Loading a snapshot: normalize_identifiers *)

(* The key a stored project starts from: its own if that is valid, or else *)
(* the one derived from its name.                                          *)
BaseKey(project) ==
  IF project.key \in Keys THEN project.key ELSE DeriveKey[project.name]

(* The keys after loading: projects are visited in the order of their ids, *)
(* and each takes the first variant no earlier one has taken.              *)
NormalKeys(stored, key) ==
  \A p \in DOMAIN stored :
    LET taken == {key[q] : q \in {q \in DOMAIN stored : q < p}}
    IN  /\ HasVariant(BaseKey(stored[p]), taken)
        /\ key[p] = Dedupe(BaseKey(stored[p]), taken)

Siblings(stored, i) ==
  {j \in DOMAIN stored : stored[j].project = stored[i].project}

StoredNumbers(stored, i) == {stored[j].number : j \in Siblings(stored, i)}

(* The siblings without a number up to issue i, in the order of their ids. *)
Unnumbered(stored, i) ==
  {j \in Siblings(stored, i) : stored[j].number = 0 /\ j <= i}

(* The number of an issue after loading: the one it has, or else one of    *)
(* those that follow the highest, in the order of the ids.                 *)
NormalNumber(stored, i) ==
  IF stored[i].number # 0 THEN stored[i].number
  ELSE Highest(StoredNumbers(stored, i)) + Cardinality(Unnumbered(stored, i))

NormalIssue(stored, key, i) ==
  LET p == stored[i].project
      n == NormalNumber(stored, i)
  IN  IF p \in DOMAIN key
        THEN [project |-> p, number |-> n, identifier |-> <<key[p], n>>]
        ELSE [project |-> p, number |-> 0, identifier |-> None]

(* What from_snapshot makes of the stored projects and issues. *)
Loaded(storedProjects, storedIssues, ps, is) ==
  /\ DOMAIN ps = DOMAIN storedProjects
  /\ NormalKeys(storedProjects, [p \in DOMAIN ps |-> ps[p].key])
  /\ \A p \in DOMAIN ps : ps[p].name = storedProjects[p].name
  /\ is = [i \in DOMAIN storedIssues |->
             NormalIssue(storedIssues, [p \in DOMAIN ps |-> ps[p].key], i)]

ProjectTable == UNION {[P -> [name : Names, key : Keys]] : P \in SUBSET Projects}

(* The application is left and started again: what was saved is loaded. *)
Reload ==
  /\ projects' \in ProjectTable
  /\ Loaded(projects, issues, projects', issues')
  /\ UNCHANGED <<migrations, used, commentVars, reader>>

(* Snapshots of older versions: keys may be missing or double, issues may  *)
(* have no number yet, and there are no comments or migrations.            *)
OldProjects == UNION {[P -> [name : Names, key : Keys \cup {None}]] : P \in SUBSET Projects}

OldIssues(P) ==
  {t \in UNION {[I -> [project : P \cup {None}, number : 0..Cardinality(Issues)]]
                  : I \in SUBSET Issues} :
     /\ \A i \in DOMAIN t : t[i].project = None => t[i].number = 0
     /\ \A i, j \in DOMAIN t :
          i # j /\ t[i].project = t[j].project /\ t[i].number # 0
            => t[i].number # t[j].number}

Init ==
  /\ \E ps \in OldProjects : \E is \in OldIssues(DOMAIN ps) :
       /\ projects \in ProjectTable
       /\ Loaded(ps, is, projects, issues)
  /\ migrations = <<>>
  /\ comments = <<>> /\ lastComment = 0
  /\ used = DOMAIN issues
  /\ reader = Idle

ProjectStep ==
  \E p \in Projects :
    \/ \E name \in Names : ProjectCreate(p, name)
    \/ \E key \in Keys : ProjectSetIdentifier(p, key)

IssueStep ==
  \E i \in Issues :
    \/ IssueCreate(i)
    \/ \E p \in Projects : IssueAssignProject(i, p)
    \/ IssueUnassignProject(i)
    \/ IssueDelete(i)

CommentStep ==
  \/ \E e \in Entities : CommentAdd(e)
  \/ \E e \in Entities, order \in {"asc", "desc"}, limit \in Limits :
       ReadFirst(e, order, limit)
  \/ ReadPage

Next == ProjectStep \/ IssueStep \/ CommentStep \/ Reload

Spec == Init /\ [][Next]_vars

-----------------------------------------------------------------------------
(* Properties *)

Identifiers == Keys \X (Nat \ {0})

CommentIds == 1..lastComment

(* Types: in particular a number and an identifier are there exactly when  *)
(* the issue is in a project that exists.                                  *)
TypeOK ==
  /\ projects \in [DOMAIN projects -> [name : Names, key : Keys]]
  /\ DOMAIN projects \subseteq Projects
  /\ DOMAIN issues \subseteq used /\ used \subseteq Issues
  /\ \A i \in DOMAIN issues :
       \/ issues[i] = AdHoc
       \/ issues[i] \in [project : DOMAIN projects, number : Nat \ {0},
                         identifier : Identifiers]
  /\ migrations \in Seq([issue : Issues,
                         from : Projects \cup {None}, fromId : Identifiers \cup {None},
                         to : Projects \cup {None}, toId : Identifiers \cup {None}])
  /\ lastComment \in 0..MaxComments
  /\ DOMAIN comments \subseteq CommentIds
  /\ comments \in [DOMAIN comments ->
       [on : ({"issue"} \X Issues) \cup ({"project"} \X Projects), body : {"moved", "user"}]]
  /\ reader.state \in {"idle", "reading", "done"}
  /\ reader.cursor \in CommentIds \cup {None}
  /\ reader.seen \in Seq(CommentIds)

(* An identifier names one issue: no two projects have the same key, an    *)
(* issue's identifier is made of the key of its project and of its number, *)
(* and no two issues have the same, whatever is created, moved, deleted    *)
(* and loaded (next_issue_number, dedupe_project_identifier,               *)
(* project_set_identifier, normalize_identifiers).                         *)
IdentifiersUnique ==
  /\ \A p, q \in DOMAIN projects : p # q => projects[p].key # projects[q].key
  /\ \A i \in DOMAIN issues : issues[i].project # None =>
       issues[i].identifier = <<projects[issues[i].project].key, issues[i].number>>
  /\ \A i, j \in DOMAIN issues :
       i # j /\ issues[i].project # None => issues[i].identifier # issues[j].identifier

(* The records of an issue's moves, in the order they were made, are a     *)
(* chain that leads to where the issue is now, with the identifiers it had *)
(* on the way.  (Every variable has its type.)                             *)
MigrationChain ==
  /\ TypeOK
  /\ \A i \in DOMAIN issues :
    LET moves == MovesOf(migrations, {i})
    IN  moves # <<>> =>
          /\ \A n \in 1..(Len(moves) - 1) :
               /\ moves[n].to = moves[n + 1].from
               /\ moves[n].toId = moves[n + 1].fromId
          /\ moves[Len(moves)].to = issues[i].project
          /\ moves[Len(moves)].toId = issues[i].identifier

(* The comments on an issue tell of exactly the moves on record, and no    *)
(* comment or record outlives its issue (issue_delete).                    *)
MovesAreNoted ==
  /\ \A n \in DOMAIN migrations : migrations[n].issue \in DOMAIN issues
  /\ \A n \in DOMAIN comments : comments[n].on \in Entities
  /\ \A i \in DOMAIN issues :
       Cardinality({n \in CommentsOn(<<"issue", i>>) : comments[n].body = "moved"})
         = Len(MovesOf(migrations, {i}))

(* A client that follows the cursors of comment_list has seen, when it is  *)
(* told that there is no more, every comment that was there when it began, *)
(* each once and in order, also when comments are added or the service is  *)
(* restarted in between.                                                   *)
ListingComplete ==
  /\ \A n \in 1..(Len(reader.seen) - 1) :
       IF reader.order = "asc" THEN reader.seen[n] < reader.seen[n + 1]
                               ELSE reader.seen[n] > reader.seen[n + 1]
  /\ reader.state = "done" =>
       reader.expected \subseteq {reader.seen[n] : n \in DOMAIN reader.seen}

(* A step in which an issue's identifier changes records that move. *)
ChangeIsRecorded ==
  \A i \in DOMAIN issues \cap DOMAIN issues' :
    issues'[i].identifier # issues[i].identifier =>
      migrations' = Append(migrations,
        [issue |-> i,
         from |-> issues[i].project, fromId |-> issues[i].identifier,
         to |-> issues'[i].project, toId |-> issues'[i].identifier])

(* The identifier of an issue changes only together with a record of that  *)
(* move: not when the snapshot is loaded again, nor when keys are set or   *)
(* other issues come and go.                                               *)
ChangesAreRecorded == [][ChangeIsRecorded]_vars

=============================================================================
