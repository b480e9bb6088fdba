---------------------------- MODULE StateFileProofs ----------------------------
(***************************************************************************)
(* Theorems about StateFile: what the shared state file holds, for any     *)
(* number of CLI processes, issues, projects and changes.                  *)
(***************************************************************************)
EXTENDS StateFile, SequenceTheorems, TLAPS

ChangeRecord == [by : Procs, tool : CliTools, entity : Issues \cup Projects,
                 project : Projects \cup {None}, quiet : BOOLEAN]

(* The change of a call is new: it is in its own process's memory, and     *)
(* neither in another's nor in anything that was written.                  *)
CallsAreOwn ==
  \A p \in Procs :
    /\ call[p] \subseteq mem[p]
    /\ call[p] \cap written = {}
    /\ \A q \in Procs \ {p} : call[p] \cap mem[q] = {}
    /\ pc[p] \in {"down", "ready"} => call[p] = {}
    /\ onError[p] = "stays" => p = Board /\ \A n \in call[p] : log[n].quiet

(* A process that has loaded or written what the file holds knows every    *)
(* change that was answered and written.                                   *)
FreshKnows == ~stale => \A p \in fresh : acked \cap written \subseteq mem[p]

(* A set of changes of the history l has the creation of whatever it names.*)
CreatedIn(l, db, e) == \E m \in db : l[m].tool \in Creates /\ l[m].entity = e
ClosedIn(l, db) ==
  \A n \in db : /\ CreatedIn(l, db, l[n].entity)
                /\ l[n].project # None => CreatedIn(l, db, l[n].project)

AllClosed == ClosedIn(log, file.content) /\ \A p \in Procs : ClosedIn(log, mem[p])

(* What a CLI command refused has gone with its process.                   *)
RefusedStaysOut ==
  \A n \in refused : /\ log[n].tool \in Creates
                     /\ log[n].by \in Clis =>
                          n \notin file.content /\ \A p \in Procs : n \notin mem[p]

IInv ==
  /\ TypeOK
  /\ log \in Seq(ChangeRecord)
  /\ file.content \subseteq written
  /\ CallsAreOwn
  /\ FreshKnows
  /\ AllClosed
  /\ RefusedStaysOut
  /\ AnsweredWasWritten
  /\ LossNeedsStaleSave

-----------------------------------------------------------------------------
(* Histories and closed sets of changes *)

LEMMA LogGrows ==
  ASSUME IInv, NEW r \in ChangeRecord, log' = Append(log, r)
  PROVE  /\ log' \in Seq(ChangeRecord)
         /\ Len(log') \notin Numbers
         /\ Numbers' = Numbers \cup {Len(log')}
         /\ log'[Len(log')] = r
         /\ \A n \in Numbers : log'[n] = log[n]
         /\ Leftover = {Len(log')}
<1>1. log \in Seq(ChangeRecord)
  BY DEF IInv
<1>2. /\ log' \in Seq(ChangeRecord)
      /\ Len(log') = Len(log) + 1
      /\ \A i \in 1 .. Len(log) : log'[i] = log[i]
      /\ log'[Len(log) + 1] = r
  BY <1>1, AppendProperties
<1>3. DOMAIN log = 1 .. Len(log) /\ DOMAIN log' = 1 .. Len(log') /\ Len(log) \in Nat
  BY <1>1, <1>2, LenProperties
<1>4. 1 .. (Len(log) + 1) = (1 .. Len(log)) \cup {Len(log) + 1}
      /\ Len(log) + 1 \notin 1 .. Len(log)
  BY <1>3
<1> QED
  BY <1>2, <1>3, <1>4 DEF Numbers, Leftover

LEMMA ClosedStays ==
  ASSUME NEW l, NEW m, NEW db, \A n \in db : m[n] = l[n], ClosedIn(l, db)
  PROVE  ClosedIn(m, db)
BY DEF ClosedIn, CreatedIn

LEMMA ClosedAdds ==
  ASSUME NEW l, NEW db, NEW k, ClosedIn(l, db),
         CreatedIn(l, db \cup {k}, l[k].entity),
         l[k].project # None => CreatedIn(l, db \cup {k}, l[k].project)
  PROVE  ClosedIn(l, db \cup {k})
<1>1. \A e : CreatedIn(l, db, e) => CreatedIn(l, db \cup {k}, e)
  BY DEF CreatedIn
<1>2. SUFFICES ASSUME NEW n \in db \cup {k}
               PROVE  /\ CreatedIn(l, db \cup {k}, l[n].entity)
                      /\ l[n].project # None => CreatedIn(l, db \cup {k}, l[n].project)
  BY DEF ClosedIn
<1>3. CASE n \in db
  BY <1>1, <1>3 DEF ClosedIn
<1>4. CASE n = k
  BY <1>4
<1> QED
  BY <1>2, <1>3, <1>4

-----------------------------------------------------------------------------
(* A call that succeeds *)

(* p makes the change r in a snapshot db.                                  *)
Grown(p, db, r) ==
  /\ r \in ChangeRecord
  /\ log' = Append(log, r)
  /\ CreatedIn(log', db \cup {Len(log')}, r.entity)
  /\ r.project # None => CreatedIn(log', db \cup {Len(log')}, r.project)
  /\ call' = [call EXCEPT ![p] = {Len(log')}]
  /\ mem' = [mem EXCEPT ![p] = db \cup {Len(log')}]

(* What else a call does, db being p's own memory or what the file holds.  *)
NewCall(p, db, r) ==
  /\ Grown(p, db, r)
  /\ pc[p] # "write" /\ pc' = [pc EXCEPT ![p] = "save"]
  /\ \/ p # Board /\ onError' = onError
     \/ p = Board /\ onError' = [onError EXCEPT ![p] = IF r.quiet THEN "stays" ELSE "ends"]
  /\ \/ db = mem[p] /\ fresh' = fresh
     \/ db = file.content /\ file.ok /\ fresh' = fresh \cup {p}
  /\ UNCHANGED <<backend, file, mixed, stale, written, acked, refused>>

LEMMA AppliedFacts ==
  ASSUME IInv, NEW p \in Procs, NEW db \in SUBSET Numbers,
         NEW tool \in Tools, NEW ref, NEW project \in Projects \cup {None},
         NEW valid, NEW quiet \in BOOLEAN,
         Succeeds(db, tool, ref, project, valid),
         Applied(p, db, tool, ref, project, quiet)
  PROVE  \E r : Grown(p, db, r) /\ r.quiet = quiet
<1>1. PICK e \in Target(db, tool, ref) :
        /\ log' = Append(log, Change(p, tool, e, project, quiet))
        /\ call' = [call EXCEPT ![p] = {Len(log')}]
        /\ mem' = [mem EXCEPT ![p] = db \cup {Len(log')}]
  BY DEF Applied
<1> DEFINE r == Change(p, tool, e, project, quiet)
<1>2. tool \in Creates \cup OnIssue \cup OnProject
  BY ToolsAssumption DEF CliTools
<1>3. e \in Issues \cup Projects /\ (tool \in Creates \/ Created(db, e))
  BY <1>2 DEF Target, ResolveIssue, ResolveProject, Exists, NewIds, Creates, OnIssue, OnProject
<1>4. project = None \/ Created(db, project)
  BY DEF Succeeds, ProjectFound, ResolveProject, Exists
<1>5. r \in ChangeRecord /\ r.quiet = quiet /\ r.entity = e /\ r.project = project /\ r.tool = tool
  BY <1>2, <1>3 DEF Change, ChangeRecord, CliTools
<1>6. /\ log'[Len(log')] = r
      /\ \A n \in db : log'[n] = log[n]
  BY <1>1, <1>5, LogGrows
<1>7. \A x : Created(db, x) => CreatedIn(log', db \cup {Len(log')}, x)
  BY <1>6 DEF Created, CreatedIn
<1>8. CreatedIn(log', db \cup {Len(log')}, e)
  BY <1>3, <1>5, <1>6, <1>7 DEF CreatedIn
<1> QED
  BY <1>1, <1>4, <1>5, <1>7, <1>8 DEF Grown

LEMMA NewCallPreserves ==
  ASSUME IInv, NEW p \in Procs, NEW db, NEW r, NewCall(p, db, r)
  PROVE  IInv'
<1> DEFINE k == Len(log')
<1>1. /\ log' \in Seq(ChangeRecord) /\ k \notin Numbers /\ Numbers' = Numbers \cup {k}
      /\ log'[k] = r /\ \A n \in Numbers : log'[n] = log[n]
  BY LogGrows DEF NewCall, Grown
<1>2. /\ db = mem[p] \/ db = file.content
      /\ db \subseteq Numbers /\ ClosedIn(log, db)
  BY DEF IInv, NewCall, TypeOK, AllClosed
<1>3. TypeOK'
  <2>1. \A n \in Numbers' : log'[n] \in ChangeRecord
    BY <1>1 DEF NewCall, Grown, IInv, TypeOK, ChangeRecord
  <2>2. /\ file' \in [content : SUBSET Numbers', ok : BOOLEAN]
        /\ mem' \in [Procs -> SUBSET Numbers']
        /\ call' \in [Procs -> SUBSET Numbers']
    BY <1>1, <1>2 DEF NewCall, Grown, IInv, TypeOK
  <2>3. /\ pc' \in [Procs -> {"down", "ready", "save", "write"}]
        /\ onError' \in [Procs -> {"ends", "stays"}]
    BY DEF NewCall, IInv, TypeOK
  <2>4. /\ backend' \in {"json", "duckdb"} /\ stale' \in BOOLEAN
        /\ mixed' \subseteq Writers' /\ fresh' \subseteq Procs
        /\ acked' \cup written' \cup refused' \subseteq Numbers'
    BY <1>1 DEF NewCall, IInv, TypeOK, Writers
  <2> QED
    BY <2>1, <2>2, <2>3, <2>4 DEF TypeOK, ChangeRecord
<1>4. CallsAreOwn'
  <2>1. /\ call' = [call EXCEPT ![p] = {k}] /\ mem' = [mem EXCEPT ![p] = db \cup {k}]
        /\ pc' = [pc EXCEPT ![p] = "save"] /\ written' = written
    BY DEF NewCall, Grown
  <2>2. \A q \in Procs : call[q] \subseteq Numbers /\ mem[q] \subseteq Numbers
    BY DEF IInv, TypeOK
  <2>3. written \subseteq Numbers /\ file.content \subseteq written
    BY DEF IInv, TypeOK
  <2>4. \A q \in Procs : /\ call'[q] \subseteq mem'[q]
                         /\ call'[q] \cap written = {}
                         /\ pc'[q] \in {"down", "ready"} => call'[q] = {}
    BY <1>1, <2>1, <2>2, <2>3 DEF IInv, TypeOK, CallsAreOwn
  <2>5. ASSUME NEW o \in Procs, NEW q \in Procs \ {o} PROVE call'[o] \cap mem'[q] = {}
    <3>1. CASE o = p
      BY <1>1, <2>1, <2>2, <2>5, <3>1 DEF IInv, TypeOK
    <3>2. CASE o # p /\ q # p
      BY <2>1, <2>5, <3>2 DEF IInv, TypeOK, CallsAreOwn
    <3>3. CASE q = p
      <4>1. call[o] \cap db = {}
        BY <1>2, <2>3, <2>5, <3>3 DEF IInv, CallsAreOwn
      <4> QED
        BY <1>1, <2>1, <2>2, <2>5, <3>3, <4>1 DEF IInv, TypeOK
    <3> QED
      BY <3>1, <3>2, <3>3
  <2>6. ASSUME NEW q \in Procs, onError'[q] = "stays"
        PROVE  q = Board /\ \A n \in call'[q] : log'[n].quiet
    <3>1. CASE q = p
      BY <1>1, <2>1, <2>6, <3>1 DEF NewCall, Grown, IInv, TypeOK, CallsAreOwn
    <3>2. CASE q # p
      <4>1. onError[q] = "stays" /\ call'[q] = call[q]
        BY <2>1, <2>6, <3>2 DEF NewCall, Grown, IInv, TypeOK
      <4>2. q = Board /\ \A n \in call[q] : log[n].quiet
        BY <4>1 DEF IInv, CallsAreOwn
      <4> QED
        BY <1>1, <2>2, <4>1, <4>2
    <3> QED
      BY <3>1, <3>2
  <2> QED
    BY <2>1, <2>4, <2>5, <2>6 DEF CallsAreOwn
<1>5. FreshKnows'
  <2>1. SUFFICES ASSUME ~stale, NEW q \in fresh' PROVE acked \cap written \subseteq mem'[q]
    BY DEF NewCall, Grown, FreshKnows
  <2>2. CASE q = p
    <3>1. acked \cap written \subseteq db
      BY <2>1, <2>2 DEF NewCall, Grown, IInv, TypeOK, FreshKnows, LossNeedsStaleSave
    <3> QED
      BY <2>2, <3>1 DEF NewCall, Grown, IInv, TypeOK
  <2>3. CASE q # p
    BY <2>1, <2>3 DEF NewCall, Grown, IInv, TypeOK, FreshKnows
  <2> QED
    BY <2>2, <2>3
<1>6. AllClosed'
  <2>1. \A q \in Procs \ {p} : ClosedIn(log', mem[q])
    BY <1>1, ClosedStays DEF IInv, TypeOK, AllClosed
  <2>2. ClosedIn(log', file.content)
    BY <1>1, ClosedStays DEF IInv, TypeOK, AllClosed
  <2>3. ClosedIn(log', db \cup {k})
    <3>1. ClosedIn(log', db)
      BY <1>1, <1>2, ClosedStays
    <3> QED
      BY <1>1, <3>1, ClosedAdds DEF NewCall, Grown
  <2> QED
    BY <2>1, <2>2, <2>3 DEF AllClosed, NewCall, Grown, IInv, TypeOK
<1>7. RefusedStaysOut'
  <2>1. SUFFICES ASSUME NEW n \in refused
                 PROVE  /\ log'[n].tool \in Creates
                        /\ log'[n].by \in Clis =>
                             n \notin file.content /\ \A q \in Procs : n \notin mem'[q]
    BY DEF RefusedStaysOut, NewCall, Grown
  <2>2. n # k /\ log'[n] = log[n]
    BY <1>1 DEF IInv, TypeOK
  <2>3. log[n].tool \in Creates /\ (log[n].by \in Clis =>
          n \notin file.content /\ n \notin db /\ \A q \in Procs : n \notin mem[q])
    BY <1>2 DEF IInv, RefusedStaysOut
  <2> QED
    BY <2>2, <2>3 DEF NewCall, Grown, IInv, TypeOK
<1>8. AnsweredWasWritten'
  BY <1>1 DEF NewCall, Grown, IInv, TypeOK, AnsweredWasWritten
<1>9. LossNeedsStaleSave' /\ file'.content \subseteq written'
  BY DEF NewCall, Grown, IInv, LossNeedsStaleSave
<1> QED
  BY <1>1, <1>3, <1>4, <1>5, <1>6, <1>7, <1>8, <1>9 DEF IInv

LEMMA CliCallNew ==
  ASSUME IInv, NEW p \in Clis, NEW tool \in Tools, NEW ref \in Refs,
         NEW project \in Projects \cup {None}, NEW valid \in BOOLEAN,
         CliCall(p, tool, ref, project, valid),
         Succeeds(file.content, tool, ref, project, valid)
  PROVE  IInv'
<1>1. p \in Procs /\ p # Board
  BY StateFileAssumption DEF Procs
<1>2. file.content \subseteq Numbers
  BY DEF IInv, TypeOK
<1>3. PICK r : Grown(p, file.content, r)
  BY <1>1, <1>2, AppliedFacts DEF CliCall
<1>4. NewCall(p, file.content, r)
  BY <1>1, <1>3 DEF CliCall, CliLoads, Loadable, NewCall
<1> QED
  BY <1>1, <1>4, NewCallPreserves

LEMMA McpCallNew ==
  ASSUME IInv, NEW tool \in Tools, NEW ref \in Refs,
         NEW project \in Projects \cup {None}, NEW valid \in BOOLEAN,
         McpCall(tool, ref, project, valid),
         Succeeds(mem[Mcp], tool, ref, project, valid)
  PROVE  IInv'
<1>1. Mcp \in Procs /\ Mcp # Board
  BY StateFileAssumption DEF Procs
<1>2. mem[Mcp] \subseteq Numbers
  BY <1>1 DEF IInv, TypeOK
<1>3. PICK r : Grown(Mcp, mem[Mcp], r)
  BY <1>1, <1>2, AppliedFacts DEF McpCall
<1>4. NewCall(Mcp, mem[Mcp], r)
  BY <1>1, <1>3 DEF McpCall, McpMutated, NewCall, fileVars
<1> QED
  BY <1>1, <1>4, NewCallPreserves

LEMMA BoardChangeNew ==
  ASSUME IInv, NEW tool \in Tools, NEW ref \in Refs,
         NEW project \in Projects \cup {None}, NEW valid \in BOOLEAN,
         NEW quiet \in BOOLEAN, BoardChange(tool, ref, project, valid, quiet)
  PROVE  IInv'
<1>1. Board \in Procs
  BY DEF Procs
<1>2. mem[Board] \subseteq Numbers
  BY <1>1 DEF IInv, TypeOK
<1>3. PICK r : Grown(Board, mem[Board], r) /\ r.quiet = quiet
  BY <1>1, <1>2, AppliedFacts DEF BoardChange
<1>4. NewCall(Board, mem[Board], r)
  BY <1>1, <1>3 DEF BoardChange, NewCall, fileVars
<1> QED
  BY <1>1, <1>4, NewCallPreserves

-----------------------------------------------------------------------------
(* A call that is refused *)

(* Its half done creation, if any, becomes part of the history.            *)
HalfDone(p) ==
  \/ UNCHANGED <<log, refused>>
  \/ \E r \in ChangeRecord : /\ r.by = p /\ r.tool \in Creates /\ r.project = None
                             /\ log' = Append(log, r)
                             /\ refused' = refused \cup {Len(log')}

LEMMA RefusedIsHalfDone ==
  ASSUME IInv, NEW p \in Procs, NEW tool, NEW ref, NEW quiet \in BOOLEAN,
         Refused(p, tool, ref, quiet)
  PROVE  HalfDone(p)
<1>1. CASE LeavesHalf(tool) /\ Target({}, tool, ref) # {}
  <2> DEFINE r == Change(p, tool, ref, None, quiet)
  <2>1. tool \in Creates /\ ref \in Issues \cup Projects
    <3>1. tool \in Creates
      BY <1>1 DEF LeavesHalf
    <3>2. CASE tool = "issue_create"
      BY <1>1, <3>1, <3>2 DEF Target, NewIds, OnIssue, OnProject
    <3>3. CASE tool = "project_create"
      BY <1>1, <3>1, <3>3 DEF Target, NewIds, OnIssue, OnProject
    <3> QED
      BY <3>1, <3>2, <3>3 DEF Creates
  <2>2. r \in ChangeRecord /\ r.by = p /\ r.tool \in Creates /\ r.project = None
    BY <2>1 DEF Change, ChangeRecord, CliTools
  <2>3. log' = Append(log, r) /\ refused' = refused \cup {Len(log')}
    BY <1>1 DEF Refused
  <2> QED
    BY <2>2, <2>3 DEF HalfDone
<1>2. CASE ~(LeavesHalf(tool) /\ Target({}, tool, ref) # {})
  BY <1>2 DEF Refused, HalfDone
<1> QED
  BY <1>1, <1>2

(* What the history gains, and the closed sets of changes it leaves.       *)
LEMMA HalfDoneFacts ==
  ASSUME IInv, NEW p \in Procs, HalfDone(p)
  PROVE  /\ log' \in Seq(ChangeRecord)
         /\ Leftover \cap Numbers = {}
         /\ Numbers' = Numbers \cup Leftover
         /\ \A n \in Numbers : log'[n] = log[n]
         /\ refused' = refused \cup Leftover
         /\ \A n \in Leftover : log'[n].by = p /\ log'[n].tool \in Creates
                              /\ log'[n].project = None
<1>1. CASE UNCHANGED <<log, refused>>
  BY <1>1 DEF IInv, Numbers, Leftover
<1>2. ASSUME NEW r \in ChangeRecord, r.by = p, r.tool \in Creates, r.project = None,
             log' = Append(log, r), refused' = refused \cup {Len(log')}
      PROVE  /\ log' \in Seq(ChangeRecord)
             /\ Leftover \cap Numbers = {}
             /\ Numbers' = Numbers \cup Leftover
             /\ \A n \in Numbers : log'[n] = log[n]
             /\ refused' = refused \cup Leftover
             /\ \A n \in Leftover : log'[n].by = p /\ log'[n].tool \in Creates
                                  /\ log'[n].project = None
  BY <1>2, LogGrows
<1> QED
  BY <1>1, <1>2 DEF HalfDone

(* What every refusal keeps, whether the process goes on or ends.          *)
LEMMA RefusalKeeps ==
  ASSUME IInv, NEW p \in Procs, HalfDone(p),
         UNCHANGED <<backend, file, mixed, stale, written, acked>>,
         \/ mem' = [mem EXCEPT ![p] = @ \cup Leftover] /\ p \notin Clis
         \/ mem' = [mem EXCEPT ![p] = {}]
  PROVE  /\ AllClosed'
         /\ RefusedStaysOut'
         /\ AnsweredWasWritten'
         /\ LossNeedsStaleSave' /\ file'.content \subseteq written'
<1> DEFINE new == Leftover
<1>1. /\ new \cap Numbers = {} /\ Numbers' = Numbers \cup new
      /\ \A n \in Numbers : log'[n] = log[n]
      /\ refused' = refused \cup new
      /\ \A n \in new : log'[n].by = p /\ log'[n].tool \in Creates /\ log'[n].project = None
  BY HalfDoneFacts
<1>2. /\ \A q \in Procs : mem[q] \subseteq Numbers /\ ClosedIn(log, mem[q])
      /\ file.content \subseteq Numbers /\ ClosedIn(log, file.content)
      /\ refused \subseteq Numbers /\ acked \subseteq Numbers
  BY DEF IInv, TypeOK, AllClosed
<1>3. \A q \in Procs \ {p} : mem'[q] = mem[q]
  BY DEF IInv, TypeOK
<1>4. (mem'[p] = mem[p] \cup new /\ p \notin Clis) \/ mem'[p] = {}
  BY DEF IInv, TypeOK
<1>5. AllClosed'
  <2>1. \A q \in Procs \ {p} : ClosedIn(log', mem'[q])
    BY <1>1, <1>2, <1>3, ClosedStays
  <2>2. ClosedIn(log', file.content)
    BY <1>1, <1>2, ClosedStays
  <2>3. ClosedIn(log', mem[p] \cup new)
    <3>1. ClosedIn(log', mem[p])
      BY <1>1, <1>2, ClosedStays
    <3> QED
      BY <1>1, <3>1 DEF ClosedIn, CreatedIn
  <2>4. ClosedIn(log', {})
    BY DEF ClosedIn
  <2> QED
    BY <1>4, <2>1, <2>2, <2>3, <2>4 DEF AllClosed
<1>6. RefusedStaysOut'
  <2>1. SUFFICES ASSUME NEW n \in refused \cup new
                 PROVE  /\ log'[n].tool \in Creates
                        /\ log'[n].by \in Clis =>
                             n \notin file.content /\ \A q \in Procs : n \notin mem'[q]
    BY <1>1 DEF RefusedStaysOut
  <2>2. CASE n \in refused
    <3>1. /\ log[n].tool \in Creates /\ log'[n] = log[n] /\ n \notin new
          /\ log[n].by \in Clis => n \notin file.content /\ \A q \in Procs : n \notin mem[q]
      BY <1>1, <1>2, <2>2 DEF IInv, RefusedStaysOut
    <3> QED
      BY <1>3, <1>4, <3>1
  <2>3. CASE n \in new
    <3>1. n \notin file.content /\ \A q \in Procs : n \notin mem[q]
      BY <1>1, <1>2, <2>3
    <3> QED
      BY <1>1, <1>3, <1>4, <2>3, <3>1
  <2> QED
    BY <2>1, <2>2, <2>3
<1>7. AnsweredWasWritten'
  BY <1>1, <1>2 DEF IInv, AnsweredWasWritten
<1>8. LossNeedsStaleSave' /\ file'.content \subseteq written'
  BY DEF IInv, LossNeedsStaleSave
<1> QED
  BY <1>5, <1>6, <1>7, <1>8

LEMMA CliCallRefused ==
  ASSUME IInv, NEW p \in Clis, NEW tool, NEW ref, NEW project, NEW valid,
         CliCall(p, tool, ref, project, valid),
         ~Succeeds(file.content, tool, ref, project, valid)
  PROVE  IInv'
<1>1. p \in Procs
  BY DEF Procs
<1>2. /\ pc[p] = "down"
      /\ Refused(p, tool, ref, FALSE)
      /\ Ends(p) /\ fresh' = fresh \ {p}
      /\ UNCHANGED <<backend, file, mixed, stale, written, acked>>
  BY DEF CliCall, CliLoads, CliRefused
<1>3. HalfDone(p)
  BY <1>1, <1>2, RefusedIsHalfDone
<1>4. mem' = [mem EXCEPT ![p] = {}]
  BY <1>2 DEF Ends
<1>5. /\ AllClosed' /\ RefusedStaysOut' /\ AnsweredWasWritten'
      /\ LossNeedsStaleSave' /\ file'.content \subseteq written'
  BY <1>1, <1>2, <1>3, <1>4, RefusalKeeps
<1>6. /\ log' \in Seq(ChangeRecord) /\ Numbers' = Numbers \cup Leftover
      /\ \A n \in Numbers : log'[n] = log[n]
      /\ refused' = refused \cup Leftover
  BY <1>1, <1>3, HalfDoneFacts
<1>7. TypeOK'
  <2>1. \A n \in Numbers' : log'[n] \in ChangeRecord
    BY <1>6 DEF Numbers
  <2> QED
    BY <1>1, <1>2, <1>6, <2>1 DEF Ends, IInv, TypeOK, ChangeRecord, Writers
<1>8. CallsAreOwn'
  <2>1. \A q \in Procs : call[q] \subseteq Numbers
    BY DEF IInv, TypeOK
  <2> QED
    BY <1>1, <1>2, <1>6, <2>1 DEF Ends, IInv, TypeOK, CallsAreOwn
<1>9. FreshKnows'
  BY <1>1, <1>2 DEF Ends, IInv, TypeOK, FreshKnows
<1> QED
  BY <1>5, <1>6, <1>7, <1>8, <1>9 DEF IInv

(* The MCP server and the board go on with what is left in their memory.   *)
LEMMA RefusedGoesOn ==
  ASSUME IInv, NEW p \in {Mcp, Board}, NEW tool, NEW ref, NEW quiet \in BOOLEAN,
         Refused(p, tool, ref, quiet),
         mem' = [mem EXCEPT ![p] = @ \cup Leftover],
         UNCHANGED <<fileVars, pc, call, onError, acked>>
  PROVE  IInv'
<1>1. p \in Procs /\ p \notin Clis
  BY StateFileAssumption DEF Procs
<1>2. HalfDone(p) /\ UNCHANGED <<backend, file, mixed, fresh, stale, written, acked>>
  BY <1>1, RefusedIsHalfDone DEF fileVars
<1>3. /\ AllClosed' /\ RefusedStaysOut' /\ AnsweredWasWritten'
      /\ LossNeedsStaleSave' /\ file'.content \subseteq written'
  BY <1>1, <1>2, RefusalKeeps
<1>4. /\ log' \in Seq(ChangeRecord) /\ Numbers' = Numbers \cup Leftover
      /\ Leftover \cap Numbers = {}
      /\ \A n \in Numbers : log'[n] = log[n]
      /\ refused' = refused \cup Leftover
  BY <1>1, <1>2, HalfDoneFacts
<1>5. mem'[p] = mem[p] \cup Leftover /\ \A q \in Procs \ {p} : mem'[q] = mem[q]
  BY <1>1 DEF IInv, TypeOK
<1>6. TypeOK'
  <2>1. \A n \in Numbers' : log'[n] \in ChangeRecord
    BY <1>4 DEF Numbers
  <2>2. mem' \in [Procs -> SUBSET Numbers']
    BY <1>1, <1>4 DEF IInv, TypeOK
  <2> QED
    BY <1>2, <1>4, <2>1, <2>2 DEF IInv, TypeOK, ChangeRecord, Writers
<1>7. CallsAreOwn'
  <2>1. \A q \in Procs : call[q] \subseteq Numbers
    BY DEF IInv, TypeOK
  <2>2. \A q \in Procs : \A n \in call[q] : log'[n] = log[n]
    BY <1>4, <2>1
  <2> QED
    BY <1>1, <1>2, <1>4, <1>5, <2>1, <2>2 DEF IInv, CallsAreOwn
<1>8. FreshKnows'
  BY <1>2, <1>5 DEF IInv, TypeOK, FreshKnows
<1> QED
  BY <1>3, <1>4, <1>6, <1>7, <1>8 DEF IInv

-----------------------------------------------------------------------------
(* Processes start and end *)

LEMMA StartPreserves ==
  ASSUME IInv, McpStart \/ BoardStart
  PROVE  IInv'
<1>1. PICK p \in Procs :
        /\ pc[p] = "down" /\ pc' = [pc EXCEPT ![p] = "ready"]
        /\ \/ file.ok /\ mem' = [mem EXCEPT ![p] = file.content] /\ fresh' = fresh \cup {p}
           \/ mem' = [mem EXCEPT ![p] = {}] /\ fresh' = fresh \ {p}
        /\ UNCHANGED <<backend, file, log, call, onError, mixed, stale, acked, written, refused>>
  BY DEF McpStart, BoardStart, Loads, Loadable, Procs
<1>2. call[p] = {}
  BY <1>1 DEF IInv, CallsAreOwn
<1>3. TypeOK'
  BY <1>1 DEF IInv, TypeOK, Writers, Numbers
<1>4. CallsAreOwn'
  BY <1>1, <1>2 DEF IInv, TypeOK, CallsAreOwn
<1>5. FreshKnows'
  BY <1>1 DEF IInv, TypeOK, FreshKnows, LossNeedsStaleSave
<1>6. AllClosed'
  <2>1. ClosedIn(log, {})
    BY DEF ClosedIn
  <2>2. \A q \in Procs : ClosedIn(log, mem'[q])
    BY <1>1, <2>1 DEF IInv, TypeOK, AllClosed
  <2> QED
    BY <1>1, <2>2 DEF IInv, AllClosed
<1>7. RefusedStaysOut'
  BY <1>1 DEF IInv, TypeOK, RefusedStaysOut
<1>8. AnsweredWasWritten' /\ LossNeedsStaleSave' /\ file'.content \subseteq written'
      /\ log' \in Seq(ChangeRecord)
  BY <1>1 DEF IInv, AnsweredWasWritten, LossNeedsStaleSave
<1> QED
  BY <1>3, <1>4, <1>5, <1>6, <1>7, <1>8 DEF IInv

LEMMA TornTyped == Torn \in [content : SUBSET Numbers, ok : BOOLEAN]
BY DEF Torn

(* A process is gone; at worst the file is torn.                           *)
LEMMA EndPreserves ==
  ASSUME IInv, McpEof \/ \E p \in Procs : Dies(p)
  PROVE  IInv'
<1>1. PICK p \in Procs :
        /\ file' \in {file, Torn} /\ mixed' = mixed \ {p}
        /\ Ends(p) /\ fresh' = fresh \ {p}
        /\ UNCHANGED <<backend, log, stale, acked, written, refused>>
  <2>1. CASE McpEof
    BY <2>1 DEF McpEof, IInv, TypeOK, Writers, Procs
  <2>2. ASSUME NEW p \in Procs, Dies(p)
        PROVE  /\ file' \in {file, Torn} /\ mixed' = mixed \ {p}
               /\ Ends(p) /\ fresh' = fresh \ {p}
               /\ UNCHANGED <<backend, log, stale, acked, written, refused>>
    BY <2>2 DEF Dies, Abandons
  <2> QED
    BY <2>1, <2>2
<1>2. /\ pc' = [pc EXCEPT ![p] = "down"] /\ mem' = [mem EXCEPT ![p] = {}]
      /\ call' = [call EXCEPT ![p] = {}] /\ onError' = [onError EXCEPT ![p] = "ends"]
  BY <1>1 DEF Ends
<1>3. TypeOK'
  <2>1. file' \in [content : SUBSET Numbers, ok : BOOLEAN]
    BY <1>1, TornTyped DEF IInv, TypeOK
  <2>2. mixed' \subseteq Writers'
    BY <1>1, <1>2 DEF IInv, TypeOK, Writers
  <2> QED
    BY <1>1, <1>2, <2>1, <2>2 DEF IInv, TypeOK, Numbers
<1>4. CallsAreOwn'
  BY <1>1, <1>2 DEF IInv, TypeOK, CallsAreOwn
<1>5. FreshKnows'
  BY <1>1, <1>2 DEF IInv, TypeOK, FreshKnows
<1>6. AllClosed'
  <2>1. ClosedIn(log, {})
    BY DEF ClosedIn
  <2>2. \A q \in Procs : ClosedIn(log, mem'[q])
    BY <1>2, <2>1 DEF IInv, TypeOK, AllClosed
  <2>3. ClosedIn(log, file'.content)
    <3>1. file'.content \in {file.content, {}}
      BY <1>1 DEF Torn
    <3> QED
      BY <2>1, <3>1 DEF IInv, AllClosed
  <2> QED
    BY <1>1, <2>2, <2>3 DEF AllClosed
<1>7. RefusedStaysOut'
  BY <1>1, <1>2 DEF IInv, TypeOK, RefusedStaysOut, Torn
<1>8. AnsweredWasWritten' /\ LossNeedsStaleSave' /\ file'.content \subseteq written'
      /\ log' \in Seq(ChangeRecord)
  BY <1>1 DEF IInv, AnsweredWasWritten, LossNeedsStaleSave, Torn
<1> QED
  BY <1>3, <1>4, <1>5, <1>6, <1>7, <1>8 DEF IInv

-----------------------------------------------------------------------------
(* Saving *)

LEMMA SaveErrorIgnoredPreserves ==
  ASSUME IInv, NEW p \in Procs, SaveErrorIgnored(p)
  PROVE  IInv'
<1>1. /\ onError[p] = "stays"
      /\ file' \in {file, Torn} /\ mixed' = mixed \ {p}
      /\ pc' = [pc EXCEPT ![p] = "ready"] /\ call' = [call EXCEPT ![p] = {}]
      /\ onError' = [onError EXCEPT ![p] = "ends"]
      /\ acked' = acked \cup call[p]
      /\ UNCHANGED <<backend, log, mem, fresh, stale, written, refused>>
  BY DEF SaveErrorIgnored, Abandons
<1>2. /\ call[p] \subseteq Numbers /\ call[p] \cap written = {}
      /\ \A n \in call[p] : log[n].quiet
  BY <1>1 DEF IInv, TypeOK, CallsAreOwn
<1>3. TypeOK'
  <2>1. file' \in [content : SUBSET Numbers, ok : BOOLEAN]
    BY <1>1, TornTyped DEF IInv, TypeOK
  <2>2. mixed' \subseteq Writers'
    BY <1>1, <1>2 DEF IInv, TypeOK, Writers
  <2> QED
    BY <1>1, <1>2, <2>1, <2>2 DEF IInv, TypeOK, Numbers
<1>4. CallsAreOwn'
  BY <1>1 DEF IInv, TypeOK, CallsAreOwn
<1>5. acked' \cap written' = acked \cap written
  BY <1>1, <1>2
<1>6. FreshKnows' /\ LossNeedsStaleSave' /\ file'.content \subseteq written'
  BY <1>1, <1>5 DEF IInv, FreshKnows, LossNeedsStaleSave, Torn
<1>7. AllClosed' /\ RefusedStaysOut'
  BY <1>1 DEF IInv, AllClosed, ClosedIn, RefusedStaysOut, Torn
<1>8. AnsweredWasWritten' /\ log' \in Seq(ChangeRecord)
  BY <1>1, <1>2 DEF IInv, AnsweredWasWritten
<1> QED
  BY <1>3, <1>4, <1>6, <1>7, <1>8 DEF IInv

LEMMA BeginWritePreserves ==
  ASSUME IInv, NEW p \in Procs, BeginWrite(p)
  PROVE  IInv'
<1>1. /\ file' \in {file, Torn}
      /\ mixed' \subseteq mixed \cup Writers \cup {p}
      /\ pc' = [pc EXCEPT ![p] = "write"]
      /\ UNCHANGED <<backend, log, mem, call, onError, fresh, stale, acked, written, refused>>
  BY DEF BeginWrite
<1>2. TypeOK'
  <2>1. file' \in [content : SUBSET Numbers, ok : BOOLEAN]
    BY <1>1, TornTyped DEF IInv, TypeOK
  <2>2. mixed' \subseteq Writers'
    BY <1>1 DEF IInv, TypeOK, Writers
  <2> QED
    BY <1>1, <2>1, <2>2 DEF IInv, TypeOK, Numbers
<1>3. CallsAreOwn'
  BY <1>1 DEF IInv, TypeOK, CallsAreOwn
<1>4. FreshKnows' /\ LossNeedsStaleSave' /\ file'.content \subseteq written'
  BY <1>1 DEF IInv, FreshKnows, LossNeedsStaleSave, Torn
<1>5. AllClosed' /\ RefusedStaysOut'
  BY <1>1 DEF IInv, AllClosed, ClosedIn, RefusedStaysOut, Torn
<1>6. AnsweredWasWritten' /\ log' \in Seq(ChangeRecord)
  BY <1>1 DEF IInv, AnsweredWasWritten
<1> QED
  BY <1>2, <1>3, <1>4, <1>5, <1>6 DEF IInv

LEMMA BoardQuitPreserves ==
  ASSUME IInv, BoardQuit
  PROVE  IInv'
<1>1. /\ Board \in Procs /\ pc[Board] = "ready"
      /\ pc' = [pc EXCEPT ![Board] = "save"]
      /\ onError' = [onError EXCEPT ![Board] = "ends"]
      /\ UNCHANGED <<backend, file, log, mem, call, mixed, fresh, stale, acked, written,
                     refused>>
  BY DEF BoardQuit, fileVars, Procs
<1>2. TypeOK' /\ CallsAreOwn'
  BY <1>1 DEF IInv, TypeOK, CallsAreOwn, Writers, Numbers
<1> QED
  BY <1>1, <1>2 DEF IInv, FreshKnows, AllClosed, RefusedStaysOut, AnsweredWasWritten,
     LossNeedsStaleSave

(* A save is finished: p's whole memory is in the file, or a mixture.      *)
Finished(p) ==
  /\ file' = [content |-> mem[p], ok |-> TRUE] \/ file' = Torn
  /\ mixed' = mixed \ {p}
  /\ stale' = (stale \/ p \notin fresh)
  /\ written' = written \cup mem[p]
  /\ acked' = acked \cup call[p]
  /\ call' = [call EXCEPT ![p] = {}]
  /\ onError' = [onError EXCEPT ![p] = "ends"]
  /\ \/ mem' = mem /\ pc' = [pc EXCEPT ![p] = "ready"] /\ fresh' = {p}
     \/ mem' = [mem EXCEPT ![p] = {}] /\ pc' = [pc EXCEPT ![p] = "down"] /\ fresh' = {}
  /\ UNCHANGED <<backend, log, refused>>

LEMMA FinishIsFinished ==
  ASSUME IInv, NEW intact \in BOOLEAN,
         McpFinish(intact) \/ BoardFinish(intact) \/ \E p \in Clis : CliFinish(p, intact)
  PROVE  \E p \in Procs : Finished(p)
<1>1. CASE McpFinish(intact)
  <2>1. Finished(Mcp)
    BY <1>1 DEF McpFinish, FinishWrite, Answered, Finished, Snapshot
  <2> QED
    BY <2>1 DEF Procs
<1>2. CASE BoardFinish(intact)
  <2>1. CASE call[Board] = {}
    <3>1. acked' = acked \cup call[Board]
      BY <1>2, <2>1 DEF BoardFinish
    <3> QED
      BY <1>2, <2>1, <3>1 DEF BoardFinish, FinishWrite, Ends, Finished, Snapshot, Procs
  <2>2. CASE call[Board] # {}
    <3>1. Finished(Board)
      BY <1>2, <2>2 DEF BoardFinish, FinishWrite, Answered, Finished, Snapshot
    <3> QED
      BY <3>1 DEF Procs
  <2> QED
    BY <2>1, <2>2
<1>3. ASSUME NEW p \in Clis, CliFinish(p, intact)
      PROVE  Finished(p)
  BY <1>3 DEF CliFinish, FinishWrite, Ends, Finished, Snapshot
<1> QED
  BY <1>1, <1>2, <1>3 DEF Procs

LEMMA FinishedPreserves ==
  ASSUME IInv, NEW p \in Procs, Finished(p)
  PROVE  IInv'
<1>1. /\ mem[p] \subseteq Numbers /\ call[p] \subseteq mem[p]
      /\ \A q \in Procs \ {p} : call[q] \cap mem[p] = {}
      /\ acked \cup written \cup refused \subseteq Numbers
  BY DEF IInv, TypeOK, CallsAreOwn
<1>2. file'.content \in {mem[p], {}} /\ (file'.ok => file'.content = mem[p])
  BY DEF Finished, Torn
<1>3. \A q \in Procs : mem'[q] \in {mem[q], {}} /\ (q # p => mem'[q] = mem[q])
  BY DEF Finished, IInv, TypeOK
<1>4. TypeOK'
  <2>1. file' \in [content : SUBSET Numbers, ok : BOOLEAN]
    <3>1. [content |-> mem[p], ok |-> TRUE] \in [content : SUBSET Numbers, ok : BOOLEAN]
      BY <1>1
    <3> QED
      BY <3>1, TornTyped DEF Finished
  <2>2. mixed' \subseteq Writers'
    BY DEF Finished, IInv, TypeOK, Writers
  <2>3. /\ pc' \in [Procs -> {"down", "ready", "save", "write"}]
        /\ mem' \in [Procs -> SUBSET Numbers]
        /\ fresh' \subseteq Procs
    BY DEF Finished, IInv, TypeOK
  <2>4. acked' \cup written' \cup refused' \subseteq Numbers
    BY <1>1 DEF Finished
  <2> QED
    BY <2>1, <2>2, <2>3, <2>4 DEF Finished, IInv, TypeOK, Numbers
<1>5. CallsAreOwn'
  <2>1. /\ call' = [call EXCEPT ![p] = {}] /\ onError' = [onError EXCEPT ![p] = "ends"]
        /\ written' = written \cup mem[p] /\ log' = log
        /\ \A q \in Procs \ {p} : pc'[q] = pc[q]
    BY DEF Finished, IInv, TypeOK
  <2> QED
    BY <1>1, <1>3, <2>1 DEF IInv, TypeOK, CallsAreOwn
<1>6. ~stale' => acked' \cap written' \subseteq mem[p]
  <2>1. SUFFICES ASSUME ~stale' PROVE acked' \cap written' \subseteq mem[p]
    OBVIOUS
  <2>2. acked \cap written \subseteq mem[p]
    BY <2>1 DEF Finished, IInv, TypeOK, FreshKnows
  <2> QED
    BY <1>1, <2>2 DEF Finished
<1>7. FreshKnows'
  BY <1>6 DEF Finished, FreshKnows
<1>8. LossNeedsStaleSave'
  BY <1>2, <1>6 DEF LossNeedsStaleSave
<1>9. AllClosed'
  <2>1. ClosedIn(log, {}) /\ \A q \in Procs : ClosedIn(log, mem[q])
    BY DEF ClosedIn, IInv, AllClosed
  <2>2. ClosedIn(log, file'.content) /\ \A q \in Procs : ClosedIn(log, mem'[q])
    BY <1>2, <1>3, <2>1
  <2> QED
    BY <2>2 DEF AllClosed, Finished
<1>10. RefusedStaysOut'
  BY <1>2, <1>3 DEF Finished, IInv, RefusedStaysOut
<1>11. AnsweredWasWritten' /\ file'.content \subseteq written' /\ log' \in Seq(ChangeRecord)
  BY <1>1, <1>2 DEF Finished, IInv, AnsweredWasWritten
<1> QED
  BY <1>4, <1>5, <1>7, <1>8, <1>9, <1>10, <1>11 DEF IInv

-----------------------------------------------------------------------------
(* Theorems *)

LEMMA InitIsInOrder == Init => IInv
<1> SUFFICES ASSUME Init PROVE IInv
  OBVIOUS
<1>1. /\ file.content = {} /\ file.ok = TRUE /\ log = <<>> /\ Len(log) = 0
      /\ mem = [p \in Procs |-> {}] /\ call = [p \in Procs |-> {}]
      /\ pc = [p \in Procs |-> "down"] /\ onError = [p \in Procs |-> "ends"]
      /\ mixed = {} /\ fresh = {} /\ stale = FALSE
      /\ acked = {} /\ written = {} /\ refused = {}
      /\ backend \in {"json", "duckdb"}
      /\ file \in [content : SUBSET Numbers, ok : BOOLEAN]
  BY DEF Init, Empty
<1>2. Numbers = {}
  BY <1>1 DEF Numbers
<1>3. TypeOK
  BY <1>1, <1>2 DEF TypeOK, Writers
<1>4. CallsAreOwn /\ FreshKnows /\ AllClosed /\ RefusedStaysOut
  BY <1>1 DEF CallsAreOwn, FreshKnows, AllClosed, ClosedIn, RefusedStaysOut
<1>5. AnsweredWasWritten /\ LossNeedsStaleSave
  BY <1>1 DEF AnsweredWasWritten, LossNeedsStaleSave
<1> QED
  BY <1>1, <1>3, <1>4, <1>5 DEF IInv

LEMMA StepKeepsOrder == IInv /\ [Next]_vars => IInv'
<1> SUFFICES ASSUME IInv, [Next]_vars PROVE IInv'
  OBVIOUS
<1>1. CASE Calls
  <2>1. PICK tool \in Tools, ref \in Refs, project \in Projects \cup {None}, valid \in BOOLEAN :
          \/ \E p \in Clis : CliCall(p, tool, ref, project, valid)
          \/ McpCall(tool, ref, project, valid)
          \/ \E quiet \in BOOLEAN : BoardChange(tool, ref, project, valid, quiet)
    BY <1>1 DEF Calls
  <2>2. ASSUME NEW p \in Clis, CliCall(p, tool, ref, project, valid)
        PROVE  IInv'
    BY <2>2, CliCallNew, CliCallRefused
  <2>3. CASE McpCall(tool, ref, project, valid)
    <3>1. CASE Succeeds(mem[Mcp], tool, ref, project, valid)
      BY <2>3, <3>1, McpCallNew
    <3>2. CASE ~Succeeds(mem[Mcp], tool, ref, project, valid)
      <4>1. /\ Refused(Mcp, tool, ref, FALSE)
            /\ mem' = [mem EXCEPT ![Mcp] = @ \cup Leftover]
            /\ UNCHANGED <<fileVars, pc, call, onError, acked>>
        BY <2>3, <3>2 DEF McpCall, McpRefused
      <4> QED
        BY <4>1, RefusedGoesOn
    <3> QED
      BY <3>1, <3>2
  <2>4. ASSUME NEW quiet \in BOOLEAN, BoardChange(tool, ref, project, valid, quiet)
        PROVE  IInv'
    BY <2>4, BoardChangeNew
  <2> QED
    BY <2>1, <2>2, <2>3, <2>4
<1>2. CASE McpStart \/ BoardStart
  BY <1>2, StartPreserves
<1>3. CASE McpEof \/ \E p \in Procs : Dies(p)
  BY <1>3, EndPreserves
<1>4. CASE BoardQuit
  BY <1>4, BoardQuitPreserves
<1>5. ASSUME NEW q \in Projects, BoardRefused(q)
      PROVE  IInv'
  BY <1>5, RefusedGoesOn DEF BoardRefused
<1>6. ASSUME NEW p \in Procs, SaveErrorIgnored(p) \/ BeginWrite(p)
      PROVE  IInv'
  BY <1>6, SaveErrorIgnoredPreserves, BeginWritePreserves
<1>7. ASSUME NEW intact \in BOOLEAN,
             McpFinish(intact) \/ BoardFinish(intact) \/ \E p \in Clis : CliFinish(p, intact)
      PROVE  IInv'
  BY <1>7, FinishIsFinished, FinishedPreserves
<1>8. CASE UNCHANGED vars
  BY <1>8 DEF vars, IInv, TypeOK, Numbers, Writers, CallsAreOwn, FreshKnows, AllClosed,
     RefusedStaysOut, AnsweredWasWritten, LossNeedsStaleSave
<1> QED
  BY <1>1, <1>2, <1>3, <1>4, <1>5, <1>6, <1>7, <1>8 DEF Next

LEMMA AlwaysInOrder == Spec => []IInv
BY InitIsInOrder, StepKeepsOrder, PTL DEF Spec

(* Whatever a process has answered as done was in a finished write; only   *)
(* the board's `:` commands answer for a save that failed (run_mcp_server, *)
(* run_issue_command, run_project_command, persist).                       *)
THEOREM AnswersFollowWrites == Spec => []AnsweredWasWritten
<1>1. IInv => AnsweredWasWritten
  BY DEF IInv
<1> QED
  BY <1>1, AlwaysInOrder, PTL

(* An answered and written change is missing from a file that can be       *)
(* loaded only after some process has written over what it had not loaded: *)
(* the one way to lose a change is the stale save of a whole snapshot.     *)
THEOREM OnlyStaleSavesLose == Spec => []LossNeedsStaleSave
<1>1. IInv => LossNeedsStaleSave
  BY DEF IInv
<1> QED
  BY <1>1, AlwaysInOrder, PTL

(* Through any number of lost updates, the file holds the creation of      *)
(* every issue and project that it mentions, for each save writes the      *)
(* whole memory of one process.                                            *)
THEOREM FileStaysClosed == Spec => []FileIsClosed
<1>1. IInv => FileIsClosed
  BY DEF IInv, FileIsClosed, AllClosed, ClosedIn, CreatedIn, Created
<1> QED
  BY <1>1, AlwaysInOrder, PTL

(* What a failed call leaves in the file is a creation, and not by a CLI   *)
(* command: op_issue_create and op_project_create create before they look  *)
(* at the rest, and a CLI command ends without saving.                     *)
THEOREM RefusalsLeaveCreations == Spec => []RefusalLeavesAtMostACreation
<1>1. IInv => RefusalLeavesAtMostACreation
  BY DEF IInv, RefusedStaysOut, RefusalLeavesAtMostACreation
<1> QED
  BY <1>1, AlwaysInOrder, PTL
================================================================================
