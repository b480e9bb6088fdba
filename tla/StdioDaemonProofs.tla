--------------------------- MODULE StdioDaemonProofs ---------------------------
(***************************************************************************)
(* Theorems about StdioDaemon: for any number of clients, sessions, calls  *)
(* and subscribers, calls are atomic and event streams are the history.    *)
(***************************************************************************)
EXTENDS StdioDaemon, FiniteSetTheorems, SequenceTheorems, TLAPS

(* The places of a call under the api lock, and those before it takes      *)
(* effect.                                                                 *)
Inside == {"create", "list", "set", "write", "broadcast", "unlock_api"}
Before == {"idle", "lookup", "lock_session", "lock_api", "create", "list", "set", "write"}

ApiExclusive == \A c \in Clients : pc[c] \in Inside <=> apiLock = c

(* Where a client is says what it has been asked and what it has answered. *)
PlaceFits ==
  \A c \in Clients :
    /\ pc[c] = "idle" <=> call[c] = None
    /\ pc[c] \in Before <=> reply[c] = None
    /\ pc[c] \in {"lookup", "lock_session", "set", "write", "unlock_session"} =>
         call[c] \in SetCalls
    /\ pc[c] \in {"create", "list"} => call[c].op = pc[c]

(* Nothing happens to a session between the read and the write.            *)
ReadIsCurrent ==
  \A c \in Clients : pc[c] = "write" =>
    current[c] > 0 /\ current[c] = records[call[c].session].version

(* A change that is to be announced is the last one made.                  *)
LastUnannounced ==
  \A c \in Unannounced : Len(log) > 0 /\ log[Len(log)] = EventOf(c)

Announced == Len(log) - Cardinality(Unannounced)

Subscribed ==
  \A r \in Subscribers :
    /\ receiver[r] = "none" => r \notin subscribers /\ stream[r] = <<>>
    /\ receiver[r] = "open" => /\ r \in subscribers
                               /\ since[r] <= Announced
                               /\ stream[r] = SubSeq(log, since[r] + 1, Announced)

IInv ==
  /\ TypeOK
  /\ ApiExclusive
  /\ PlaceFits
  /\ ReadIsCurrent
  /\ LastUnannounced
  /\ Subscribed

-----------------------------------------------------------------------------
(* Types, the api lock, and what a client's place says *)

LEMMA InitIsInOrder == Init => IInv
<1> SUFFICES ASSUME Init PROVE IInv
  OBVIOUS
<1>1. TypeOK
  BY DaemonAssumption DEF Init, TypeOK, Promise!Init, Promise!New, Promise!Absent, Places, Event
<1>2. ApiExclusive /\ PlaceFits /\ ReadIsCurrent /\ Unannounced = {}
  BY DaemonAssumption DEF Init, Promise!Init, ApiExclusive, PlaceFits, ReadIsCurrent,
     Unannounced, Inside, Before
<1>3. Subscribed
  BY DEF Init, Subscribed
<1> QED
  BY <1>1, <1>2, <1>3 DEF IInv, LastUnannounced

(* What a client's step does to its own place and to the api lock.         *)
LEMMA ApiExclusivePreserved ==
  ASSUME IInv, NEW c \in Clients, ClientNext(c)
  PROVE  ApiExclusive'
<1> USE DaemonAssumption DEF IInv, TypeOK, ApiExclusive, Inside, Places, GoTo, At
<1>1. CASE CallCreate(c) \/ CallList(c) \/ CallSet(c) \/ LookupLock(c) \/ LockSession(c)
  <2>1. /\ apiLock' = apiLock
        /\ \E p, q \in Places \ Inside : pc[c] = p /\ pc' = [pc EXCEPT ![c] = q]
    BY <1>1 DEF CallCreate, CallList, CallSet, Begin, LookupLock, LockSession, lockVars
  <2> QED
    BY <2>1
<1>2. CASE LockApi(c)
  <2>1. call[c].op \in Inside
    BY <1>2, NoneAssumption DEF LockApi, PlaceFits, SetCalls
  <2> QED
    BY <1>2, <2>1 DEF LockApi
<1>3. CASE Create(c) \/ List(c) \/ SetNotFound(c) \/ SetRead(c) \/ SetConflict(c)
           \/ SetWrite(c) \/ Broadcast(c)
  <2>1. /\ apiLock' = apiLock
        /\ \E p, q \in Inside : pc[c] = p /\ pc' = [pc EXCEPT ![c] = q]
    BY <1>3 DEF Create, List, SetNotFound, SetRead, SetConflict, SetWrite, Broadcast, lockVars
  <2> QED
    BY <2>1
<1>4. CASE UnlockApiAndReturn(c) \/ UnlockApi(c)
  BY <1>4 DEF UnlockApiAndReturn, UnlockApi, Finish
<1>5. CASE UnlockSessionAndReturn(c)
  BY <1>5 DEF UnlockSessionAndReturn, Finish
<1> QED
  BY <1>1, <1>2, <1>3, <1>4, <1>5 DEF ClientNext, Work

-----------------------------------------------------------------------------
(* Replies, sequences, and who has changes to announce *)

LEMMA ReplyIsReply ==
  ASSUME NEW recs \in [Sessions -> [version : Nat, status : Statuses \cup {Created}]],
         NEW ids \in SUBSET Sessions,
         NEW outcome \in {"ok", "not_found", "conflict"}
  PROVE  /\ Promise!Reply(outcome, Promise!View(recs, ids)) \in Promise!Replies
         /\ Promise!Reply(outcome, {}) \in Promise!Replies
BY DEF Promise!Reply, Promise!View, Promise!Replies

LEMMA CallsAreSome == None \notin SetCalls /\ None \notin Promise!Replies
                      /\ None \notin [op : {"create", "list"}]
BY NoneAssumption DEF Promise!Calls, SetCalls

(* A client under the api lock is alone there.                             *)
LEMMA Alone ==
  ASSUME IInv, NEW c \in Clients, pc[c] \in Inside
  PROVE  /\ \A d \in Clients \ {c} : pc[d] \notin Inside
         /\ Unannounced = IF pc[c] = "broadcast" THEN {c} ELSE {}
BY DEF IInv, ApiExclusive, Inside, Unannounced

LEMMA FewUnannounced ==
  ASSUME IInv
  PROVE  /\ Cardinality(Unannounced) \in {0, 1}
         /\ Announced \in Nat
         /\ Announced <= Len(log)
<1>1. CASE Unannounced = {}
  BY <1>1, FS_EmptySet DEF IInv, TypeOK, Announced
<1>2. ASSUME NEW c \in Unannounced PROVE Unannounced = {c} /\ Len(log) > 0
  BY <1>2, Alone DEF IInv, LastUnannounced, Unannounced, Inside
<1>3. ASSUME NEW c \in Unannounced PROVE Cardinality(Unannounced) = 1
  BY <1>2, <1>3, FS_Singleton
<1> QED
  BY <1>1, <1>2, <1>3 DEF IInv, TypeOK, Announced

(* Appending to a sequence leaves its parts, and extends its end.          *)
LEMMA PartOfAppend ==
  ASSUME NEW S, NEW s \in Seq(S), NEW e \in S, NEW m \in Nat
  PROVE  SubSeq(Append(s, e), m + 1, Len(s)) = SubSeq(s, m + 1, Len(s))
BY SubSeqProperties, AppendProperties

LEMMA LastAppended ==
  ASSUME NEW S, NEW s \in Seq(S), Len(s) > 0, NEW m \in Nat, m <= Len(s) - 1
  PROVE  Append(SubSeq(s, m + 1, Len(s) - 1), s[Len(s)]) = SubSeq(s, m + 1, Len(s))
BY SubSeqProperties, AppendProperties

-----------------------------------------------------------------------------
(* A client's step *)

(* A change to the records is made under the api lock, recorded as an      *)
(* event, and still to be announced.                                       *)
Changes(c, s, new, event) ==
  /\ pc[c] \in {"create", "write"}
  /\ s \in Sessions
  /\ new \in [version : Nat \ {0}, status : Statuses \cup {Created}]
  /\ event \in Event
  /\ records' = [records EXCEPT ![s] = new]
  /\ reply' = [reply EXCEPT ![c] = Promise!Reply("ok", Promise!View(records', {s}))]
  /\ log' = Append(log, event)
  /\ pc' = [pc EXCEPT ![c] = "broadcast"]
  /\ UNCHANGED <<lockVars, call, current, eventVars, calls>>
  /\ EventOf(c)' = event

LEMMA CreateChanges ==
  ASSUME IInv, NEW c \in Clients, Create(c)
  PROVE  \E s \in Sessions : Changes(c, s, Promise!New, SessionCreated(s))
<1>1. PICK s \in Sessions :
        /\ records' = [records EXCEPT ![s] = Promise!New]
        /\ reply' = [reply EXCEPT ![c] = Promise!Reply("ok", Promise!View(records', {s}))]
        /\ log' = Append(log, SessionCreated(s))
  BY DEF Create, Answer
<1>2. Promise!New \in [version : Nat \ {0}, status : Statuses \cup {Created}]
      /\ SessionCreated(s) \in Event
  BY DEF Promise!New, SessionCreated, Event
<1>3. call'[c].op # "set"
  BY DEF Create, At, IInv, PlaceFits
<1>4. reply'[c].found = Promise!View(records', {s})
  <2>1. reply \in [Clients -> {None} \cup Promise!Replies]
    BY DEF IInv, TypeOK
  <2>2. reply'[c] = Promise!Reply("ok", Promise!View(records', {s}))
    BY <1>1, <2>1
  <2> QED
    BY <2>2 DEF Promise!Reply
<1>5. (CHOOSE rec \in Promise!View(records', {s}) : TRUE).session = s
  <2>1. \E rec \in Promise!View(records', {s}) : TRUE
    BY DEF Promise!View
  <2>2. \A rec \in Promise!View(records', {s}) : rec.session = s
    BY DEF Promise!View
  <2> QED
    BY <2>1, <2>2
<1>6. EventOf(c)' = SessionCreated(s)
  BY <1>3, <1>4, <1>5 DEF EventOf
<1> QED
  BY <1>1, <1>2, <1>6 DEF Changes, Create, GoTo, At

LEMMA SetWriteChanges ==
  ASSUME IInv, NEW c \in Clients, SetWrite(c)
  PROVE  LET s == call[c].session IN
         Changes(c, s, [version |-> records[s].version + 1, status |-> call[c].status],
                 SessionUpdated(s, call[c].status))
<1> DEFINE s == call[c].session
<1>1. call[c] \in SetCalls /\ call[c].op = "set" /\ s \in Sessions /\ call[c].status \in Statuses
  BY DEF IInv, PlaceFits, SetWrite, At, SetCalls
<1>2. EventOf(c)' = SessionUpdated(s, call[c].status)
  BY <1>1 DEF SetWrite, EventOf
<1>3. SessionUpdated(s, call[c].status) \in Event
  BY <1>1 DEF SessionUpdated, Event
<1>4. records[s].version \in Nat
  BY <1>1 DEF IInv, TypeOK
<1>5. [version |-> records[s].version + 1, status |-> call[c].status]
        \in [version : Nat \ {0}, status : Statuses \cup {Created}]
  BY <1>1, <1>4
<1>6. records' = [records EXCEPT ![s] = [version |-> records[s].version + 1,
                                         status |-> call[c].status]]
  BY <1>1 DEF SetWrite, IInv, TypeOK
<1> QED
  BY <1>1, <1>2, <1>3, <1>5, <1>6 DEF Changes, SetWrite, Answer, GoTo, At

(* A change keeps the invariant.                                           *)
LEMMA ChangePreserves ==
  ASSUME IInv, NEW c \in Clients, NEW s, NEW new, NEW event, Changes(c, s, new, event)
  PROVE  TypeOK' /\ PlaceFits' /\ ReadIsCurrent' /\ LastUnannounced' /\ Subscribed'
<1> USE DEF lockVars, eventVars
<1>1. TypeOK'
  <2>1. records' \in [Sessions -> [version : Nat, status : Statuses \cup {Created}]]
    BY DEF Changes, IInv, TypeOK
  <2>2. Promise!Reply("ok", Promise!View(records', {s})) \in Promise!Replies
    BY <2>1, ReplyIsReply DEF Changes
  <2>3. log' \in Seq(Event)
    BY AppendProperties DEF Changes, IInv, TypeOK
  <2> QED
    BY <2>1, <2>2, <2>3 DEF Changes, IInv, TypeOK, Places
<1>2. /\ Unannounced = {} /\ Unannounced' = {c}
      /\ \A d \in Clients \ {c} : pc'[d] \notin Inside
  <2>1. pc[c] \in Inside /\ pc[c] # "broadcast"
    BY DEF Changes, Inside
  <2>2. \A d \in Clients \ {c} : pc[d] \notin Inside
    BY <2>1, Alone
  <2> QED
    BY <2>1, <2>2 DEF Changes, IInv, TypeOK, Unannounced, Inside
<1>3. PlaceFits'
  <2>1. reply'[c] = Promise!Reply("ok", Promise!View(records', {s}))
    BY DEF Changes, IInv, TypeOK
  <2>2. reply'[c] \in Promise!Replies
    BY <1>1, <2>1, ReplyIsReply DEF TypeOK, Changes
  <2> QED
    BY <2>2, CallsAreSome DEF Changes, IInv, TypeOK, PlaceFits, Before
<1>4. ReadIsCurrent'
  BY <1>2 DEF Changes, ReadIsCurrent, IInv, TypeOK, Inside
<1>5. /\ Len(log') = Len(log) + 1
      /\ log'[Len(log')] = event
      /\ \A m \in Nat : SubSeq(log', m + 1, Len(log)) = SubSeq(log, m + 1, Len(log))
  BY AppendProperties, PartOfAppend DEF Changes, IInv, TypeOK
<1>6. LastUnannounced'
  BY <1>2, <1>5 DEF LastUnannounced, Changes, IInv, TypeOK
<1>7. Announced = Len(log) /\ Announced' = Len(log)
  <2>1. Cardinality(Unannounced) = 0 /\ Cardinality(Unannounced') = 1
    BY <1>2, FS_EmptySet, FS_Singleton
  <2> QED
    BY <1>5, <2>1 DEF Announced, IInv, TypeOK
<1>8. Subscribed'
  BY <1>5, <1>7 DEF Subscribed, Changes, IInv, TypeOK
<1> QED
  BY <1>1, <1>3, <1>4, <1>6, <1>8

(* A step that neither makes nor announces a change.                       *)
Quiet(c) ==
  /\ pc[c] # "broadcast" /\ pc'[c] # "broadcast"
  /\ \A d \in Clients \ {c} : /\ pc'[d] = pc[d]
                              /\ call'[d] = call[d]
                              /\ reply'[d] = reply[d]
                              /\ current'[d] = current[d]
  /\ UNCHANGED <<records, log, eventVars>>

QuietNext(c) ==
  \/ CallCreate(c) \/ CallList(c) \/ CallSet(c)
  \/ LookupLock(c) \/ LockSession(c) \/ LockApi(c)
  \/ List(c) \/ SetNotFound(c) \/ SetRead(c) \/ SetConflict(c)
  \/ UnlockApiAndReturn(c) \/ UnlockApi(c) \/ UnlockSessionAndReturn(c)

LEMMA OpIsPlace ==
  ASSUME IInv, NEW c \in Clients, pc[c] = "lock_api"
  PROVE  /\ call[c].op \in {"create", "list", "set"}
         /\ call[c].op = "set" => call[c] \in SetCalls
BY DEF IInv, TypeOK, PlaceFits, SetCalls

LEMMA QuietTyped ==
  ASSUME IInv, NEW c \in Clients, QuietNext(c)
  PROVE  TypeOK' /\ PlaceFits' /\ Quiet(c)
<1> USE DEF IInv, TypeOK, At, GoTo, lockVars, eventVars, PlaceFits, Before, Places, Quiet
<1>1. CASE CallCreate(c) \/ CallList(c)
  <2>1. PICK k \in [op : {"create", "list"}] : Begin(c, k, "lock_api")
    BY <1>1 DEF CallCreate, CallList
  <2>2. k # None
    BY CallsAreSome
  <2> QED
    BY <2>1, <2>2 DEF Begin
<1>2. CASE CallSet(c)
  <2>1. PICK k \in SetCalls : Begin(c, k, "lookup")
    BY <1>2 DEF CallSet
  <2>2. k # None
    BY CallsAreSome
  <2> QED
    BY <2>1, <2>2 DEF Begin
<1>3. CASE LookupLock(c)
  <2>1. call[c].session \in Sessions
    BY <1>3 DEF LookupLock, SetCalls
  <2> QED
    BY <1>3, <2>1 DEF LookupLock
<1>4. CASE LockSession(c)
  <2>1. call[c].session \in Sessions
    BY <1>4 DEF LockSession, SetCalls
  <2> QED
    BY <1>4, <2>1 DEF LockSession
<1>5. CASE LockApi(c)
  <2>1. call[c].op \in {"create", "list", "set"}
    BY <1>5, OpIsPlace DEF LockApi
  <2>2. call[c].op = "set" => call[c] \in SetCalls
    BY <1>5, OpIsPlace DEF LockApi
  <2> QED
    BY <1>5, <2>1, <2>2 DEF LockApi
<1>6. CASE List(c) \/ SetNotFound(c) \/ SetConflict(c)
  <2>1. PICK new \in Promise!Replies : reply' = [reply EXCEPT ![c] = new]
    BY <1>6, ReplyIsReply DEF List, SetNotFound, SetConflict, Answer, Promise!Existing
  <2>2. /\ pc[c] \in {"list", "set", "write"} /\ pc' = [pc EXCEPT ![c] = "unlock_api"]
        /\ UNCHANGED <<records, lockVars, call, current, eventVars, log, calls>>
    BY <1>6 DEF List, SetNotFound, SetConflict
  <2> QED
    BY <2>1, <2>2, CallsAreSome
<1>7. CASE SetRead(c)
  <2>1. records[call[c].session].version \in Nat
    BY <1>7 DEF SetRead, SetCalls
  <2> QED
    BY <1>7, <2>1 DEF SetRead
<1>8. CASE UnlockApiAndReturn(c)
  BY <1>8 DEF UnlockApiAndReturn, Finish
<1>9. CASE UnlockApi(c)
  BY <1>9 DEF UnlockApi, SetCalls
<1>10. CASE UnlockSessionAndReturn(c)
  BY <1>10 DEF UnlockSessionAndReturn, Finish
<1> QED
  BY <1>1, <1>2, <1>3, <1>4, <1>5, <1>6, <1>7, <1>8, <1>9, <1>10 DEF QuietNext

LEMMA QuietPreserves ==
  ASSUME IInv, NEW c \in Clients, QuietNext(c)
  PROVE  TypeOK' /\ PlaceFits' /\ ReadIsCurrent' /\ LastUnannounced' /\ Subscribed'
<1>1. TypeOK' /\ PlaceFits' /\ Quiet(c)
  BY QuietTyped
<1>2. ReadIsCurrent'
  <2>1. SUFFICES ASSUME pc'[c] = "write"
                 PROVE  current'[c] > 0 /\ current'[c] = records'[call'[c].session].version
    BY <1>1 DEF ReadIsCurrent, Quiet, IInv
  <2>2. SetRead(c)
    BY <2>1, CallsAreSome, OpIsPlace DEF QuietNext, CallCreate, CallList, CallSet, Begin, LookupLock,
       LockSession, LockApi, List, SetNotFound, SetConflict, UnlockApiAndReturn, UnlockApi,
       UnlockSessionAndReturn, Finish, At, GoTo, IInv, TypeOK, Places
  <2> QED
    BY <2>2 DEF SetRead, IInv, TypeOK
<1>3. Unannounced' = Unannounced /\ c \notin Unannounced
  BY <1>1 DEF Quiet, Unannounced
<1>4. LastUnannounced'
  BY <1>1, <1>3 DEF LastUnannounced, Quiet, EventOf, IInv, Unannounced
<1>5. Announced' = Announced
  BY <1>1, <1>3 DEF Announced, Quiet
<1>6. Subscribed'
  BY <1>1, <1>5 DEF Subscribed, Quiet, eventVars, IInv
<1> QED
  BY <1>1, <1>2, <1>4, <1>6

(* The announcement of the last change.                                    *)
LEMMA BroadcastPreserves ==
  ASSUME IInv, NEW c \in Clients, Broadcast(c)
  PROVE  TypeOK' /\ PlaceFits' /\ ReadIsCurrent' /\ LastUnannounced' /\ Subscribed'
<1> DEFINE live == {r \in subscribers : receiver[r] = "open"}
<1>1. /\ pc[c] = "broadcast" /\ pc' = [pc EXCEPT ![c] = "unlock_api"]
      /\ stream' = [r \in Subscribers |->
                      IF r \in live THEN Append(stream[r], EventOf(c)) ELSE stream[r]]
      /\ subscribers' = live
      /\ UNCHANGED <<records, lockVars, call, reply, current, receiver, since, log, calls>>
  BY DEF Broadcast, At, GoTo
<1>2. Unannounced = {c}
  BY <1>1, Alone DEF Inside
<1>3. Unannounced' = {}
  BY <1>1, <1>2 DEF Unannounced, IInv, TypeOK
<1>4. Len(log) > 0 /\ EventOf(c) = log[Len(log)] /\ EventOf(c) \in Event
  BY <1>2 DEF IInv, LastUnannounced, TypeOK
<1>5. Announced = Len(log) - 1 /\ Announced' = Len(log)
  <2>1. Cardinality(Unannounced) = 1 /\ Cardinality(Unannounced') = 0
    BY <1>2, <1>3, FS_EmptySet, FS_Singleton
  <2> QED
    BY <1>1, <2>1 DEF Announced, IInv, TypeOK
<1>6. TypeOK'
  <2>1. stream' \in [Subscribers -> Seq(Event)]
    BY <1>1, <1>4, AppendProperties DEF IInv, TypeOK
  <2> QED
    BY <1>1, <2>1 DEF IInv, TypeOK, lockVars, Places
<1>7. PlaceFits' /\ ReadIsCurrent' /\ LastUnannounced'
  BY <1>1, <1>3, CallsAreSome DEF IInv, TypeOK, PlaceFits, Before, ReadIsCurrent, LastUnannounced
<1>8. Subscribed'
  <2> SUFFICES ASSUME NEW r \in Subscribers
               PROVE  /\ receiver[r] = "none" => r \notin live /\ stream'[r] = <<>>
                      /\ receiver[r] = "open" =>
                           /\ r \in live
                           /\ since[r] <= Len(log)
                           /\ stream'[r] = SubSeq(log, since[r] + 1, Len(log))
    BY <1>1, <1>5 DEF Subscribed
  <2>1. CASE receiver[r] # "open"
    BY <1>1, <2>1 DEF IInv, Subscribed
  <2>2. CASE receiver[r] = "open"
    <3>1. /\ r \in live
          /\ since[r] \in Nat /\ since[r] <= Len(log) - 1
          /\ stream[r] = SubSeq(log, since[r] + 1, Len(log) - 1)
      BY <1>5, <2>2 DEF IInv, TypeOK, Subscribed
    <3>2. Append(stream[r], EventOf(c)) = SubSeq(log, since[r] + 1, Len(log))
      BY <1>4, <3>1, LastAppended DEF IInv, TypeOK
    <3>3. stream'[r] = SubSeq(log, since[r] + 1, Len(log))
      BY <1>1, <3>1, <3>2
    <3>4. since[r] <= Len(log)
      BY <3>1 DEF IInv, TypeOK
    <3> QED
      BY <2>2, <3>1, <3>3, <3>4
  <2> QED
    BY <2>1, <2>2
<1> QED
  BY <1>6, <1>7, <1>8

(* A receiver comes and goes.                                              *)
LEMMA ReceiverPreserves ==
  ASSUME IInv, NEW r \in Subscribers, Subscribe(r) \/ DropReceiver(r)
  PROVE  IInv'
<1>1. UNCHANGED <<records, lockVars, clientVars, stream, log, calls>>
  BY DEF Subscribe, DropReceiver
<1>2. Unannounced' = Unannounced /\ Announced' = Announced
  BY <1>1 DEF Unannounced, Announced, clientVars
<1>3. Announced \in Nat
  BY FewUnannounced
<1>4. TypeOK'
  BY <1>1, <1>3 DEF IInv, TypeOK, lockVars, clientVars, Subscribe, DropReceiver, Announced
<1>5. ApiExclusive' /\ PlaceFits' /\ ReadIsCurrent' /\ LastUnannounced'
  BY <1>1, <1>2 DEF IInv, ApiExclusive, PlaceFits, ReadIsCurrent, LastUnannounced, EventOf,
     lockVars, clientVars
<1>6. CASE Subscribe(r)
  <2>1. SubSeq(log, Announced + 1, Announced) = <<>>
    BY <1>3, SubSeqEmpty
  <2>2. Subscribed'
    BY <1>1, <1>2, <1>3, <1>6, <2>1 DEF Subscribe, Subscribed, IInv, TypeOK, Announced
  <2> QED
    BY <1>4, <1>5, <2>2 DEF IInv
<1>7. CASE DropReceiver(r)
  <2>1. Subscribed'
    BY <1>1, <1>2, <1>7 DEF DropReceiver, Subscribed, IInv, TypeOK
  <2> QED
    BY <1>4, <1>5, <2>1 DEF IInv
<1> QED
  BY <1>6, <1>7

LEMMA StepKeepsOrder == IInv /\ [Next]_vars => IInv'
<1> SUFFICES ASSUME IInv, [Next]_vars PROVE IInv'
  OBVIOUS
<1>1. ASSUME NEW c \in Clients, ClientNext(c)
      PROVE  IInv'
  <2>1. ApiExclusive'
    BY <1>1, ApiExclusivePreserved
  <2>2. CASE Create(c)
    <3>1. PICK s \in Sessions : Changes(c, s, Promise!New, SessionCreated(s))
      BY <2>2, CreateChanges
    <3> QED
      BY <2>1, <3>1, ChangePreserves DEF IInv
  <2>3. CASE SetWrite(c)
    BY <2>1, <2>3, SetWriteChanges, ChangePreserves DEF IInv
  <2>4. CASE Broadcast(c)
    BY <2>1, <2>4, BroadcastPreserves DEF IInv
  <2>5. CASE QuietNext(c)
    BY <2>1, <2>5, QuietPreserves DEF IInv
  <2> QED
    BY <1>1, <2>2, <2>3, <2>4, <2>5 DEF ClientNext, Work, QuietNext
<1>2. ASSUME NEW r \in Subscribers, Subscribe(r) \/ DropReceiver(r)
      PROVE  IInv'
  BY <1>2, ReceiverPreserves
<1>3. CASE UNCHANGED vars
  BY <1>3 DEF vars, lockVars, clientVars, eventVars, IInv, TypeOK, ApiExclusive, PlaceFits,
     ReadIsCurrent, LastUnannounced, Subscribed, Announced, Unannounced, EventOf
<1> QED
  BY <1>1, <1>2, <1>3 DEF Next

(* A live subscriber has received every change announced since it          *)
(* subscribed, once and in the order of the changes, however many clients  *)
(* write and whatever the subscribers do (StdioDaemon::broadcast, under    *)
(* the api lock).                                                          *)
THEOREM SubscribersSeeHistory == Spec => []StreamIsHistory
<1>1. IInv => StreamIsHistory
  BY DEF IInv, StreamIsHistory, Subscribed, Announced
<1> QED
  BY InitIsInOrder, StepKeepsOrder, <1>1, PTL DEF Spec

-----------------------------------------------------------------------------
(* The daemon implements VersionedSessions *)

LEMMA BeginIsInvoke ==
  ASSUME IInv, NEW c \in Clients, CallCreate(c) \/ CallList(c) \/ CallSet(c)
  PROVE  Promise!Invoke(c)
<1>1. PICK k \in Promise!Calls, place \in Places : Begin(c, k, place)
  BY DEF CallCreate, CallList, CallSet, Promise!Calls, SetCalls, Places
<1> QED
  BY <1>1 DEF Begin, Promise!Invoke, IInv, PlaceFits, At

(* The step in which a call takes effect is the one that fixes its reply.  *)
LEMMA EffectIsPerform ==
  ASSUME IInv, NEW c \in Clients,
         Create(c) \/ List(c) \/ SetNotFound(c) \/ SetConflict(c) \/ SetWrite(c)
  PROVE  Promise!Perform(c)
<1>1. call[c] # None /\ reply[c] = None /\ call' = call
  BY DEF Create, List, SetNotFound, SetConflict, SetWrite, At, IInv, PlaceFits, Before
<1>2. CASE Create(c)
  <2>1. call[c].op = "create" /\ Promise!Create(c)
    BY <1>2 DEF Create, Promise!Create, Answer, At, IInv, PlaceFits
  <2> QED
    BY <1>1, <2>1 DEF Promise!Perform
<1>3. CASE List(c)
  <2>1. call[c].op = "list" /\ Promise!List(c)
    BY <1>3 DEF List, Promise!List, Answer, At, IInv, PlaceFits
  <2> QED
    BY <1>1, <2>1 DEF Promise!Perform
<1>4. ASSUME SetNotFound(c) \/ SetConflict(c) \/ SetWrite(c)
      PROVE  call[c] \in SetCalls /\ call[c].op = "set" /\ call[c].session \in Sessions
  BY <1>4 DEF SetNotFound, SetConflict, SetWrite, At, IInv, PlaceFits, SetCalls
<1>5. CASE SetNotFound(c)
  <2>1. Promise!Set(c)
    BY <1>5 DEF SetNotFound, Promise!Set, Answer
  <2> QED
    BY <1>1, <1>4, <1>5, <2>1 DEF Promise!Perform
<1>6. ASSUME SetConflict(c) \/ SetWrite(c)
      PROVE  /\ records[call[c].session].version > 0
             /\ current[c] = records[call[c].session].version
  BY <1>6 DEF SetConflict, SetWrite, At, IInv, ReadIsCurrent
<1>7. CASE SetConflict(c)
  <2>1. call[c].expected \notin {None, records[call[c].session].version}
    BY <1>6, <1>7 DEF SetConflict, Expected
  <2>2. Promise!Set(c)
    BY <1>6, <1>7, <2>1 DEF SetConflict, Promise!Set, Answer
  <2> QED
    BY <1>1, <1>4, <1>7, <2>2 DEF Promise!Perform
<1>8. CASE SetWrite(c)
  <2>1. call[c].expected \in {None, records[call[c].session].version}
    BY <1>6, <1>8 DEF SetWrite, Expected
  <2>2. records' = [records EXCEPT ![call[c].session] =
                      [version |-> records[call[c].session].version + 1,
                       status |-> call[c].status]]
    BY <1>4, <1>8 DEF SetWrite, IInv, TypeOK
  <2>3. Promise!Set(c)
    BY <1>6, <1>8, <2>1, <2>2 DEF SetWrite, Promise!Set, Answer
  <2> QED
    BY <1>1, <1>4, <1>8, <2>3 DEF Promise!Perform
<1> QED
  BY <1>2, <1>3, <1>5, <1>7, <1>8

LEMMA FinishIsReturn ==
  ASSUME IInv, NEW c \in Clients, UnlockApiAndReturn(c) \/ UnlockSessionAndReturn(c)
  PROVE  Promise!Return(c)
BY DEF UnlockApiAndReturn, UnlockSessionAndReturn, Finish, Promise!Return, At, IInv,
   PlaceFits, Before

(* Every call takes effect in one step between its invocation and its      *)
(* return, and a conditional write succeeds only on the version it names:  *)
(* the three locks of the daemon hide every interleaving                   *)
(* (StdioDaemon::session_set_status_with_version and the other calls).     *)
THEOREM DaemonImplementsPromise == Spec => CallsAreAtomic
<1>1. Init => Promise!Init
  BY DEF Init
<1>2. IInv /\ [Next]_vars => [Promise!Next]_(Promise!vars)
  <2> SUFFICES ASSUME IInv, [Next]_vars
               PROVE  Promise!Next \/ UNCHANGED Promise!vars
    OBVIOUS
  <2>1. ASSUME NEW c \in Clients, ClientNext(c)
        PROVE  Promise!Next \/ UNCHANGED Promise!vars
    <3>1. CASE CallCreate(c) \/ CallList(c) \/ CallSet(c)
      BY <3>1, BeginIsInvoke DEF Promise!Next
    <3>2. CASE Create(c) \/ List(c) \/ SetNotFound(c) \/ SetConflict(c) \/ SetWrite(c)
      BY <3>2, EffectIsPerform DEF Promise!Next
    <3>3. CASE UnlockApiAndReturn(c) \/ UnlockSessionAndReturn(c)
      BY <3>3, FinishIsReturn DEF Promise!Next
    <3>4. CASE LookupLock(c) \/ LockSession(c) \/ LockApi(c) \/ SetRead(c)
               \/ Broadcast(c) \/ UnlockApi(c)
      BY <3>4 DEF LookupLock, LockSession, LockApi, SetRead, Broadcast, UnlockApi, Promise!vars
    <3> QED
      BY <2>1, <3>1, <3>2, <3>3, <3>4 DEF ClientNext, Work
  <2>2. ASSUME NEW r \in Subscribers, Subscribe(r) \/ DropReceiver(r)
        PROVE  UNCHANGED Promise!vars
    BY <2>2 DEF Subscribe, DropReceiver, clientVars, Promise!vars
  <2>3. CASE UNCHANGED vars
    BY <2>3 DEF vars, clientVars, Promise!vars
  <2> QED
    BY <2>1, <2>2, <2>3 DEF Next
<1> QED
  BY InitIsInOrder, StepKeepsOrder, <1>1, <1>2, PTL DEF Spec, CallsAreAtomic, Promise!Spec
================================================================================
