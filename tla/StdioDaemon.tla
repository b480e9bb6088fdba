------------------------------ MODULE StdioDaemon ------------------------------
(***************************************************************************)
(* StdioDaemon shares one ApiService between client threads and announces  *)
(* every change to its subscribers.  Three kinds of mutex are taken, always *)
(* in the order: the lock of a session (status writes only), the api lock,  *)
(* the subscribers lock.                                                   *)
(*                                                                         *)
(* The mutex around the table of session locks and the one around the list *)
(* of subscribers are held without waiting for anything, so what is done   *)
(* under them is one step.  Nothing panics while a mutex is held: Poisoned *)
(* never occurs.                                                           *)
(***************************************************************************)
EXTENDS Integers, Sequences, FiniteSets

CONSTANTS
  Clients,      \* threads that issue calls
  Sessions,     \* session ids (UUIDs)
  Restored,     \* sessions of the ApiService the daemon is started with
  Statuses,     \* session states a client may set
  Created,      \* SessionState::Created
  Versions,     \* versions a client may expect
  Subscribers,  \* receivers returned by subscribe
  None,
  MaxCalls      \* model bound: MaxCalls[c] calls are made by c

ASSUME DaemonAssumption ==
  /\ IsFiniteSet(Clients)
  /\ IsFiniteSet(Sessions)
  /\ Restored \subseteq Sessions
  /\ Created \notin Statuses
  /\ Versions \subseteq Nat \ {0}
  /\ None \notin Clients \cup Nat
  /\ MaxCalls \in [Clients -> Nat]

VARIABLES
  records,      \* ApiService.sessions; version 0: no such session
  sessionLock,  \* sessionLock[s]: the client that holds the lock of s, or None
  locks,        \* sessions with an entry in session_locks
  apiLock,      \* the client that holds the api mutex, or None
  pc,           \* where each client is in its call
  call, reply,  \* the call in progress and its outcome, as in VersionedSessions
  current,      \* current[c]: the version c read under the api lock
  subscribers,  \* receivers whose sender is in the list
  receiver,     \* receiver[r]: "none" | "open" | "dropped"
  (* history *)
  stream,       \* stream[r]: every event sent to r
  log,          \* every change of records, as the event that announces it
  since,        \* since[r]: how much of log was announced when r subscribed
  calls         \* calls[c]: calls c has made

lockVars   == <<sessionLock, locks, apiLock>>
clientVars == <<pc, call, reply, current>>
eventVars  == <<subscribers, receiver, stream, since>>
vars == <<records, lockVars, clientVars, eventVars, log, calls>>

Promise == INSTANCE VersionedSessions

(* An Option that is None is no call and no reply.                         *)
ASSUME NoneAssumption == None \notin Promise!Calls \cup Promise!Replies

SetCalls == [op : {"set"}, session : Sessions, status : Statuses,
             expected : {None} \cup Versions]

(* DaemonEvent *)
SessionCreated(s) == [session |-> s, status |-> Created]
SessionUpdated(s, st) == [session |-> s, status |-> st]

Init ==
  /\ Promise!Init
  /\ sessionLock = [s \in Sessions |-> None]
  /\ locks = {}
  /\ apiLock = None
  /\ pc = [c \in Clients |-> "idle"]
  /\ current = [c \in Clients |-> 0]
  /\ subscribers = {}
  /\ receiver = [r \in Subscribers |-> "none"]
  /\ stream = [r \in Subscribers |-> <<>>]
  /\ log = <<>>
  /\ since = [r \in Subscribers |-> 0]
  /\ calls = [c \in Clients |-> 0]

At(c, place) == pc[c] = place
GoTo(c, place) == pc' = [pc EXCEPT ![c] = place]
Answer(c, outcome, found) ==
  reply' = [reply EXCEPT ![c] = Promise!Reply(outcome, found)]

-----------------------------------------------------------------------------
(* The calls, up to the api lock. *)

Begin(c, k, place) ==
  /\ At(c, "idle")
  /\ calls[c] < MaxCalls[c]
  /\ calls' = [calls EXCEPT ![c] = @ + 1]
  /\ call' = [call EXCEPT ![c] = k]
  /\ GoTo(c, place)
  /\ UNCHANGED <<records, lockVars, reply, current, eventVars, log>>

(* Bound of the model: there is an unused session id for every creation. *)
SpareId ==
  Cardinality({d \in Clients : pc[d] \in {"lock_api", "create"} /\ call[d].op = "create"})
    < Cardinality({s \in Sessions : records[s].version = 0})

(* session_create and session_list, called by a client of this process or  *)
(* arriving as a JSON line. *)
CallCreate(c) == SpareId /\ Begin(c, [op |-> "create"], "lock_api")
CallList(c) == Begin(c, [op |-> "list"], "lock_api")

(* session_set_status (None) and session_set_status_with_version. *)
CallSet(c) == \E k \in SetCalls : Begin(c, k, "lookup")

(* The entry of the session in the table of locks, made when missing. *)
LookupLock(c) ==
  /\ At(c, "lookup")
  /\ locks' = locks \cup {call[c].session}
  /\ GoTo(c, "lock_session")
  /\ UNCHANGED <<records, sessionLock, apiLock, call, reply, current, eventVars,
                 log, calls>>

LockSession(c) ==
  /\ At(c, "lock_session")
  /\ sessionLock[call[c].session] = None
  /\ sessionLock' = [sessionLock EXCEPT ![call[c].session] = c]
  /\ GoTo(c, "lock_api")
  /\ UNCHANGED <<records, locks, apiLock, call, reply, current, eventVars, log, calls>>

(* The api is not exclusive (a read-write lock taken for reading). *)
FaultyLockApi(c) ==
  /\ At(c, "lock_api")
  /\ apiLock' = c
  /\ GoTo(c, call[c].op)
  /\ UNCHANGED <<records, sessionLock, locks, call, reply, current, eventVars,
                 log, calls>>

LockApi(c) ==
  /\ At(c, "lock_api")
  /\ apiLock = None
  /\ apiLock' = c
  /\ GoTo(c, call[c].op)
  /\ UNCHANGED <<records, sessionLock, locks, call, reply, current, eventVars,
                 log, calls>>

-----------------------------------------------------------------------------
(* Under the api lock. *)

Create(c) ==
  /\ At(c, "create")
  /\ \E s \in Sessions :
       /\ records[s].version = 0
       /\ records' = [records EXCEPT ![s] = Promise!New]
       /\ Answer(c, "ok", Promise!View(records', {s}))
       /\ log' = Append(log, SessionCreated(s))
  /\ GoTo(c, "broadcast")
  /\ UNCHANGED <<lockVars, call, current, eventVars, calls>>

List(c) ==
  /\ At(c, "list")
  /\ Answer(c, "ok", Promise!View(records, Promise!Existing(records)))
  /\ GoTo(c, "unlock_api")
  /\ UNCHANGED <<records, lockVars, call, current, eventVars, log, calls>>

(* session_get *)
SetNotFound(c) ==
  /\ At(c, "set")
  /\ records[call[c].session].version = 0
  /\ Answer(c, "not_found", {})
  /\ GoTo(c, "unlock_api")
  /\ UNCHANGED <<records, lockVars, call, current, eventVars, log, calls>>

SetRead(c) ==
  /\ At(c, "set")
  /\ records[call[c].session].version > 0
  /\ current' = [current EXCEPT ![c] = records[call[c].session].version]
  /\ GoTo(c, "write")
  /\ UNCHANGED <<records, lockVars, call, reply, eventVars, log, calls>>

(* expected_version.unwrap_or(current.version) *)
Expected(c) == IF call[c].expected = None THEN current[c] ELSE call[c].expected

(* ApiService::session_set_status_with_version *)
SetConflict(c) ==
  /\ At(c, "write")
  /\ records[call[c].session].version # Expected(c)
  /\ Answer(c, "conflict", {})
  /\ GoTo(c, "unlock_api")
  /\ UNCHANGED <<records, lockVars, call, current, eventVars, log, calls>>

(* A stale write is accepted when its version is not ahead.                *)
FaultySetWrite(c) ==
  LET s == call[c].session IN
  /\ At(c, "write")
  /\ records[s].version >= Expected(c)
  /\ records' = [records EXCEPT ![s] = [version |-> Expected(c) + 1,
                                        status |-> call[c].status]]
  /\ Answer(c, "ok", Promise!View(records', {s}))
  /\ log' = Append(log, SessionUpdated(s, call[c].status))
  /\ GoTo(c, "broadcast")
  /\ UNCHANGED <<lockVars, call, current, eventVars, calls>>

SetWrite(c) ==
  LET s == call[c].session IN
  /\ At(c, "write")
  /\ records[s].version = Expected(c)
  /\ records' = [records EXCEPT ![s] = [version |-> @.version + 1,
                                        status |-> call[c].status]]
  /\ Answer(c, "ok", Promise!View(records', {s}))
  /\ log' = Append(log, SessionUpdated(s, call[c].status))
  /\ GoTo(c, "broadcast")
  /\ UNCHANGED <<lockVars, call, current, eventVars, calls>>

(* The event of the change that c has just made. *)
EventOf(c) ==
  IF call[c].op = "set" THEN SessionUpdated(call[c].session, call[c].status)
  ELSE SessionCreated((CHOOSE rec \in reply[c].found : TRUE).session)

(* Sent to every subscriber; a sender whose receiver is gone is removed. *)
Broadcast(c) ==
  LET live == {r \in subscribers : receiver[r] = "open"} IN
  /\ At(c, "broadcast")
  /\ stream' = [r \in Subscribers |->
                  IF r \in live THEN Append(stream[r], EventOf(c)) ELSE stream[r]]
  /\ subscribers' = live
  /\ GoTo(c, "unlock_api")
  /\ UNCHANGED <<records, lockVars, call, reply, current, receiver, since, log, calls>>

-----------------------------------------------------------------------------
(* The guards are dropped in reverse order of their declaration. *)

Finish(c) ==
  /\ call' = [call EXCEPT ![c] = None]
  /\ reply' = [reply EXCEPT ![c] = None]
  /\ current' = [current EXCEPT ![c] = 0]
  /\ GoTo(c, "idle")

UnlockApiAndReturn(c) ==
  /\ At(c, "unlock_api")
  /\ call[c].op # "set"
  /\ apiLock' = None
  /\ Finish(c)
  /\ UNCHANGED <<records, sessionLock, locks, eventVars, log, calls>>

UnlockApi(c) ==
  /\ At(c, "unlock_api")
  /\ call[c].op = "set"
  /\ apiLock' = None
  /\ GoTo(c, "unlock_session")
  /\ UNCHANGED <<records, sessionLock, locks, call, reply, current, eventVars,
                 log, calls>>

(* A refused write keeps the lock of the session. *)
FaultyUnlockSessionAndReturn(c) ==
  LET s == call[c].session IN
  /\ At(c, "unlock_session")
  /\ sessionLock' = IF reply[c].outcome = "ok" THEN [sessionLock EXCEPT ![s] = None]
                    ELSE sessionLock
  /\ Finish(c)
  /\ UNCHANGED <<records, locks, apiLock, eventVars, log, calls>>

UnlockSessionAndReturn(c) ==
  LET s == call[c].session IN
  /\ At(c, "unlock_session")
  /\ sessionLock' = [sessionLock EXCEPT ![s] = None]
  /\ Finish(c)
  /\ UNCHANGED <<records, locks, apiLock, eventVars, log, calls>>

-----------------------------------------------------------------------------
(* Subscribers. *)

(* A change that is recorded and not announced yet. *)
Unannounced == {c \in Clients : pc[c] = "broadcast"}

Subscribe(r) ==
  /\ receiver[r] = "none"
  /\ receiver' = [receiver EXCEPT ![r] = "open"]
  /\ subscribers' = subscribers \cup {r}
  /\ since' = [since EXCEPT ![r] = Len(log) - Cardinality(Unannounced)]
  /\ UNCHANGED <<records, lockVars, clientVars, stream, log, calls>>

DropReceiver(r) ==
  /\ receiver[r] = "open"
  /\ receiver' = [receiver EXCEPT ![r] = "dropped"]
  /\ UNCHANGED <<records, lockVars, clientVars, subscribers, stream, since, log, calls>>

-----------------------------------------------------------------------------
(* What a client thread does until its call returns. *)
Work(c) ==
  \/ LookupLock(c) \/ LockSession(c) \/ LockApi(c)
  \/ Create(c) \/ List(c)
  \/ SetNotFound(c) \/ SetRead(c) \/ SetConflict(c) \/ SetWrite(c)
  \/ Broadcast(c)
  \/ UnlockApiAndReturn(c) \/ UnlockApi(c) \/ UnlockSessionAndReturn(c)

ClientNext(c) == CallCreate(c) \/ CallList(c) \/ CallSet(c) \/ Work(c)

Next ==
  \/ \E c \in Clients : ClientNext(c)
  \/ \E r \in Subscribers : Subscribe(r) \/ DropReceiver(r)

Spec == Init /\ [][Next]_vars

(* A thread in a call is scheduled.  Weak fairness: a Rust mutex does not  *)
(* promise to serve a waiting thread, only that the lock is not idle.      *)
FairSpec == Spec /\ \A c \in Clients : WF_vars(Work(c))

-----------------------------------------------------------------------------
(* Properties *)

Places == {"idle", "lookup", "lock_session", "lock_api", "create", "list", "set",
           "write", "broadcast", "unlock_api", "unlock_session"}

Event == [session : Sessions, status : Statuses \cup {Created}]

(* Every variable has its type. *)
TypeOK ==
  /\ records \in [Sessions -> [version : Nat, status : Statuses \cup {Created}]]
  /\ sessionLock \in [Sessions -> Clients \cup {None}]
  /\ locks \in SUBSET Sessions
  /\ apiLock \in Clients \cup {None}
  /\ pc \in [Clients -> Places]
  /\ call \in [Clients -> {None} \cup [op : {"create", "list"}] \cup SetCalls]
  /\ reply \in [Clients -> {None} \cup Promise!Replies]
  /\ current \in [Clients -> Nat]
  /\ subscribers \in SUBSET Subscribers
  /\ receiver \in [Subscribers -> {"none", "open", "dropped"}]
  /\ stream \in [Subscribers -> Seq(Event)]
  /\ log \in Seq(Event)
  /\ since \in [Subscribers -> Nat]
  /\ calls \in [Clients -> Nat]

(* A live subscriber receives every change that is announced after it      *)
(* subscribed, once, and in the order in which the changes were made, over *)
(* all sessions and clients; and every variable has its type.              *)
StreamIsHistory ==
  /\ TypeOK
  /\ \A r \in Subscribers : receiver[r] = "open" =>
       stream[r] = SubSeq(log, since[r] + 1, Len(log) - Cardinality(Unannounced))

(* Every call takes effect atomically between its invocation and return.   *)
CallsAreAtomic == Promise!Spec

(* Every call returns. *)
EveryCallReturns == \A c \in Clients : call[c] # None ~> call[c] = None
================================================================================
