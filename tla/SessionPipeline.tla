--------------------------- MODULE SessionPipeline ---------------------------
(***************************************************************************)
(* The threads and channels that carry the output of agent processes to    *)
(* the screen, and the main (UI) thread that starts, resizes and ends the  *)
(* sessions:                                                               *)
(*                                                                         *)
(*   child --PTY--> reader --output--> forwarder --events--> ScreenThread  *)
(*                                        ^                      |         *)
(*                          main thread --+      <---render------+         *)
(*                                                                         *)
(* One reader and one forwarder per session; one event channel and one     *)
(* render channel shared by all sessions.  All channels are bounded, and a *)
(* send on a full channel blocks the sending thread.                       *)
(*                                                                         *)
(* A chunk of output is known by its position in the child's output.  The  *)
(* kernel's PTY buffer is not a variable: a reader may obtain another      *)
(* chunk at any time, also after the child has exited (bytes left in the   *)
(* buffer, or written by a descendant that still holds the terminal).      *)
(***************************************************************************)
EXTENDS Integers, Sequences

CONSTANTS
  Sessions,     \* session ids (UUIDs: each is spawned at most once)
  Sizes,        \* terminal sizes (columns and rows)
  InitialSize,  \* the size PTYs and parsers are created with
  OutputCap,    \* capacity of each PTY output channel  (PtyConfig, 50)
  EventCap,     \* capacity of the event channel        (DEFAULT_CHANNEL_SIZE)
  RenderCap,    \* capacity of the render channel       (DEFAULT_CHANNEL_SIZE)
  MaxChunks     \* model bound: MaxChunks[s] chunks are produced by s

ASSUME ConstantsAssumption ==
  /\ InitialSize \in Sizes
  /\ OutputCap \in Nat \ {0}
  /\ EventCap \in Nat \ {0}
  /\ RenderCap \in Nat \ {0}
  /\ MaxChunks \in [Sessions -> Nat]

VARIABLES
  (* child processes and PTYs *)
  proc,        \* "none" | "running" | "exited"
  read,        \* number of chunks the reader has read from the PTY
  ptySize,     \* window size of the PTY
  (* per-session threads; a hand is the chunk held while sending, 0 if none *)
  reader,      \* PTY reader thread: "none" | "running" | "done"
  readerHand,
  output,      \* channel from the reader to the forwarder
  fwd,         \* forwarder thread: "none" | "running" | "done"
  fwdHand,
  (* ScreenThread *)
  events,        \* the shared event channel
  screenHand,    \* the event received and not yet applied (length 0 or 1)
  screenSending, \* the ScreenThread is in its render_tx.send
  screens,       \* sessions that have a parser in the screen store
  text,          \* text[s]: chunks processed by the current parser of s
  size,          \* size[s]: size of the current parser of s
  applied,       \* history: all chunks ever processed for s
  render,        \* number of requests in the render channel
  (* main thread *)
  mainPc,      \* "drain" | "render" | "poll" | "shutdown" | "done"
  mainHand,    \* the event the main thread is sending (length 0 or 1)
  needsRender,
  sessions     \* the sessions of the SessionManager's table

ptyVars    == <<proc, read, ptySize>>
threadVars == <<reader, readerHand, output, fwd, fwdHand>>
storeVars  == <<screens, text, size, applied>>
mainVars   == <<mainPc, mainHand, needsRender, sessions>>
vars == <<ptyVars, threadVars, events, screenHand, screenSending, storeVars,
          render, mainVars>>

-----------------------------------------------------------------------------
(* SessionEvent; Render and Input are never sent by the application. *)

EventType == {"started", "bytes", "resize", "exited"}

Event == [type : EventType, session : Sessions, chunk : Nat, size : Sizes]

Started(s)    == [type |-> "started", session |-> s, chunk |-> 0, size |-> InitialSize]
Bytes(s, c)   == [type |-> "bytes", session |-> s, chunk |-> c, size |-> InitialSize]
Resize(s, sz) == [type |-> "resize", session |-> s, chunk |-> 0, size |-> sz]
Exited(s)     == [type |-> "exited", session |-> s, chunk |-> 0, size |-> InitialSize]

-----------------------------------------------------------------------------
(* Definitions named Faulty... are plausible mistakes in the definition    *)
(* that follows them; no specification uses them (see README, "Mutants").  *)

FaultyHasRoom(channel, cap) == Len(channel) <= cap

(* A send on a bounded channel waits for room. *)
HasRoom(channel, cap) == Len(channel) < cap

Init ==
  /\ proc = [s \in Sessions |-> "none"]
  /\ read = [s \in Sessions |-> 0]
  /\ ptySize = [s \in Sessions |-> InitialSize]
  /\ reader = [s \in Sessions |-> "none"]
  /\ readerHand = [s \in Sessions |-> 0]
  /\ output = [s \in Sessions |-> <<>>]
  /\ fwd = [s \in Sessions |-> "none"]
  /\ fwdHand = [s \in Sessions |-> 0]
  /\ events = <<>>
  /\ screenHand = <<>>
  /\ screenSending = FALSE
  /\ screens = {}
  /\ text = [s \in Sessions |-> <<>>]
  /\ size = [s \in Sessions |-> InitialSize]
  /\ applied = [s \in Sessions |-> <<>>]
  /\ render = 0
  /\ mainPc = "drain"
  /\ mainHand = <<>>
  /\ needsRender = TRUE
  /\ sessions = {}

-----------------------------------------------------------------------------
(* Children and PTY reader threads. *)

(* Every thread ends with the main thread; what is on its way is dropped.  *)
Alive == mainPc # "done"

(* The child ends by itself; nobody is told (see ReaderEof). *)
ChildExit(s) ==
  /\ proc[s] = "running"
  /\ proc' = [proc EXCEPT ![s] = "exited"]
  /\ UNCHANGED <<read, ptySize, threadVars, events, screenHand, screenSending,
                 storeVars, render, mainVars>>

ReaderRead(s) ==
  /\ Alive
  /\ reader[s] = "running"
  /\ readerHand[s] = 0
  /\ read[s] < MaxChunks[s]
  /\ read' = [read EXCEPT ![s] = @ + 1]
  /\ readerHand' = [readerHand EXCEPT ![s] = read[s] + 1]
  /\ UNCHANGED <<proc, ptySize, reader, output, fwd, fwdHand, events,
                 screenHand, screenSending, storeVars, render, mainVars>>

(* The hand is not cleared: the send is repeated.                          *)
FaultyReaderSend(s) ==
  /\ Alive
  /\ readerHand[s] # 0
  /\ HasRoom(output[s], OutputCap)
  /\ output' = [output EXCEPT ![s] = Append(@, readerHand[s])]
  /\ UNCHANGED <<ptyVars, reader, readerHand, fwd, fwdHand, events, screenHand,
                 screenSending, storeVars, render, mainVars>>

ReaderSend(s) ==
  /\ Alive
  /\ readerHand[s] # 0
  /\ HasRoom(output[s], OutputCap)
  /\ output' = [output EXCEPT ![s] = Append(@, readerHand[s])]
  /\ readerHand' = [readerHand EXCEPT ![s] = 0]
  /\ UNCHANGED <<ptyVars, reader, fwd, fwdHand, events, screenHand,
                 screenSending, storeVars, render, mainVars>>

(* End of file or a read error: the thread ends and drops its sender. *)
ReaderEof(s) ==
  /\ Alive
  /\ reader[s] = "running"
  /\ readerHand[s] = 0
  /\ proc[s] = "exited"
  /\ reader' = [reader EXCEPT ![s] = "done"]
  /\ UNCHANGED <<ptyVars, readerHand, output, fwd, fwdHand, events,
                 screenHand, screenSending, storeVars, render, mainVars>>

-----------------------------------------------------------------------------
(* Forwarder threads (the closure spawned by spawn_session). *)

ForwarderRecv(s) ==
  /\ Alive
  /\ fwd[s] = "running"
  /\ fwdHand[s] = 0
  /\ output[s] # <<>>
  /\ fwdHand' = [fwdHand EXCEPT ![s] = Head(output[s])]
  /\ output' = [output EXCEPT ![s] = Tail(@)]
  /\ UNCHANGED <<ptyVars, reader, readerHand, fwd, events, screenHand,
                 screenSending, storeVars, render, mainVars>>

(* try_send, its error ignored.                                            *)
FaultyForwarderSend(s) ==
  /\ Alive
  /\ fwdHand[s] # 0
  /\ events' = IF HasRoom(events, EventCap)
                 THEN Append(events, Bytes(s, fwdHand[s])) ELSE events
  /\ fwdHand' = [fwdHand EXCEPT ![s] = 0]
  /\ UNCHANGED <<ptyVars, reader, readerHand, output, fwd, screenHand,
                 screenSending, storeVars, render, mainVars>>

ForwarderSend(s) ==
  /\ Alive
  /\ fwdHand[s] # 0
  /\ HasRoom(events, EventCap)
  /\ events' = Append(events, Bytes(s, fwdHand[s]))
  /\ fwdHand' = [fwdHand EXCEPT ![s] = 0]
  /\ UNCHANGED <<ptyVars, reader, readerHand, output, fwd, screenHand,
                 screenSending, storeVars, render, mainVars>>

(* Ends with the reader, whatever is left in the channel.                  *)
FaultyForwarderEnd(s) ==
  /\ Alive
  /\ fwd[s] = "running"
  /\ fwdHand[s] = 0
  /\ reader[s] = "done"
  /\ fwd' = [fwd EXCEPT ![s] = "done"]
  /\ UNCHANGED <<ptyVars, reader, readerHand, output, fwdHand, events,
                 screenHand, screenSending, storeVars, render, mainVars>>

(* recv fails only when the channel is empty and the reader has ended. *)
ForwarderEnd(s) ==
  /\ Alive
  /\ fwd[s] = "running"
  /\ fwdHand[s] = 0
  /\ output[s] = <<>>
  /\ reader[s] = "done"
  /\ fwd' = [fwd EXCEPT ![s] = "done"]
  /\ UNCHANGED <<ptyVars, reader, readerHand, output, fwdHand, events,
                 screenHand, screenSending, storeVars, render, mainVars>>

-----------------------------------------------------------------------------
(* The ScreenThread.  Receiving an event, updating the store under its     *)
(* mutex and sending the render request are three steps: the main thread   *)
(* reads the store between them.                                           *)

ScreenRecv ==
  /\ Alive
  /\ screenHand = <<>>
  /\ ~screenSending
  /\ events # <<>>
  /\ screenHand' = <<Head(events)>>
  /\ events' = Tail(events)
  /\ UNCHANGED <<ptyVars, threadVars, screenSending, storeVars, render,
                 mainVars>>

(* A new parser for every event. *)
FaultyFreshSize(s) == InitialSize

(* A parser that is missing is created, with the initial size. *)
FreshText(s) == IF s \in screens THEN text[s] ELSE <<>>
FreshSize(s) == IF s \in screens THEN size[s] ELSE InitialSize

ApplyBytes(e) ==
  LET s == e.session IN
  /\ e.type = "bytes"
  /\ screens' = screens \cup {s}
  /\ text' = [text EXCEPT ![s] = Append(FreshText(s), e.chunk)]
  /\ size' = [size EXCEPT ![s] = FreshSize(s)]
  /\ applied' = [applied EXCEPT ![s] = Append(@, e.chunk)]
  /\ screenSending' = TRUE

ApplyStarted(e) ==
  LET s == e.session IN
  /\ e.type = "started"
  /\ screens' = screens \cup {s}
  /\ text' = [text EXCEPT ![s] = FreshText(s)]
  /\ size' = [size EXCEPT ![s] = FreshSize(s)]
  /\ UNCHANGED <<applied, screenSending>>

(* Resizing replaces the parser. *)
FaultyApplyResize(e) ==
  LET s == e.session IN
  /\ e.type = "resize"
  /\ size' = IF s \in screens THEN [size EXCEPT ![s] = e.size] ELSE size
  /\ text' = [text EXCEPT ![s] = <<>>]
  /\ UNCHANGED <<screens, applied, screenSending>>

ApplyResize(e) ==
  LET s == e.session IN
  /\ e.type = "resize"
  /\ size' = IF s \in screens THEN [size EXCEPT ![s] = e.size] ELSE size
  /\ UNCHANGED <<screens, text, applied, screenSending>>

ApplyExited(e) ==
  LET s == e.session IN
  /\ e.type = "exited"
  /\ screens' = screens \ {s}
  /\ text' = [text EXCEPT ![s] = <<>>]
  /\ size' = [size EXCEPT ![s] = InitialSize]
  /\ UNCHANGED <<applied, screenSending>>

ScreenApply ==
  /\ Alive
  /\ screenHand # <<>>
  /\ LET e == Head(screenHand)
     IN  ApplyBytes(e) \/ ApplyStarted(e) \/ ApplyResize(e) \/ ApplyExited(e)
  /\ screenHand' = <<>>
  /\ UNCHANGED <<ptyVars, threadVars, events, render, mainVars>>

ScreenRequestRender ==
  /\ Alive
  /\ screenSending
  /\ render < RenderCap
  /\ render' = render + 1
  /\ screenSending' = FALSE
  /\ UNCHANGED <<ptyVars, threadVars, events, screenHand, storeVars, mainVars>>

-----------------------------------------------------------------------------
(* The main thread: event_loop, and what its key handlers do to sessions.  *)

(* The drained requests are forgotten. *)
FaultyMainDrain ==
  /\ mainPc = "drain"
  /\ mainHand = <<>>
  /\ render > 0
  /\ render' = render - 1
  /\ UNCHANGED <<ptyVars, threadVars, events, screenHand, screenSending,
                 storeVars, mainVars>>

(* try_recv in a loop, until it fails. *)
MainDrain ==
  /\ mainPc = "drain"
  /\ mainHand = <<>>
  /\ render > 0
  /\ render' = render - 1
  /\ needsRender' = TRUE
  /\ UNCHANGED <<ptyVars, threadVars, events, screenHand, screenSending,
                 storeVars, mainPc, mainHand, sessions>>

MainDrained ==
  /\ mainPc = "drain"
  /\ mainHand = <<>>
  /\ render = 0
  /\ mainPc' = IF needsRender THEN "render" ELSE "poll"
  /\ UNCHANGED <<ptyVars, threadVars, events, screenHand, screenSending,
                 storeVars, render, mainHand, needsRender, sessions>>

(* A frame that resizes nothing: no session is shown, its screen has the   *)
(* size of the pane, it is not live, or resizing its PTY failed.           *)
MainRender ==
  /\ mainPc = "render"
  /\ mainHand = <<>>
  /\ mainPc' = "poll"
  /\ needsRender' = FALSE
  /\ UNCHANGED <<ptyVars, threadVars, events, screenHand, screenSending,
                 storeVars, render, mainHand, sessions>>

(* resize_session_to_pane for the session shown, when the screen store     *)
(* says that its size is not the pane's: the PTY first, then the event.    *)
NeedsResize(s, sz) == ~(s \in screens /\ size[s] = sz)

MainRenderResizing(s, sz) ==
  /\ mainPc = "render"
  /\ mainHand = <<>>
  /\ NeedsResize(s, sz)
  /\ s \in sessions
  /\ ptySize' = [ptySize EXCEPT ![s] = sz]
  /\ mainHand' = <<Resize(s, sz)>>
  /\ needsRender' = FALSE
  /\ UNCHANGED <<proc, read, threadVars, events, screenHand, screenSending,
                 storeVars, render, mainPc, sessions>>

(* No input within 16 ms. *)
MainPollTimeout ==
  /\ mainPc = "poll"
  /\ mainHand = <<>>
  /\ mainPc' = "drain"
  /\ UNCHANGED <<ptyVars, threadVars, events, screenHand, screenSending,
                 storeVars, render, mainHand, needsRender, sessions>>

(* A key or mouse event that does not touch the pipeline, which a launch   *)
(* does not either when its child cannot be started.                       *)
MainKey ==
  /\ mainPc = "poll"
  /\ mainHand = <<>>
  /\ mainPc' = "drain"
  /\ needsRender' = TRUE
  /\ UNCHANGED <<ptyVars, threadVars, events, screenHand, screenSending,
                 storeVars, render, mainHand, sessions>>

(* The forwarder is spawned before SessionStarted is sent. *)
FaultyMainLaunch(s) ==
  /\ mainPc = "poll"
  /\ mainHand = <<>>
  /\ proc[s] = "none"
  /\ proc' = [proc EXCEPT ![s] = "running"]
  /\ reader' = [reader EXCEPT ![s] = "running"]
  /\ fwd' = [fwd EXCEPT ![s] = "running"]
  /\ mainHand' = <<Started(s)>>
  /\ needsRender' = TRUE
  /\ UNCHANGED <<read, ptySize, readerHand, output, fwdHand, events,
                 screenHand, screenSending, storeVars, render, mainPc,
                 sessions>>

(* spawn_session up to its send of SessionStarted: the PTY exists and its  *)
(* reader runs; the forwarder is started after the send (MainSend).        *)
MainLaunch(s) ==
  /\ mainPc = "poll"
  /\ mainHand = <<>>
  /\ proc[s] = "none"
  /\ proc' = [proc EXCEPT ![s] = "running"]
  /\ reader' = [reader EXCEPT ![s] = "running"]
  /\ mainHand' = <<Started(s)>>
  /\ needsRender' = TRUE
  /\ UNCHANGED <<read, ptySize, readerHand, output, fwd, fwdHand, events,
                 screenHand, screenSending, storeVars, render, mainPc,
                 sessions>>

(* The launch fails after the child was started: the writer or the reader  *)
(* of the PTY cannot be had.  No PtySession was built, so nothing kills    *)
(* the child when it is dropped, and no thread reads its terminal.  The    *)
(* error is shown and the loop goes on.                                    *)
MainLaunchFails(s) ==
  /\ mainPc = "poll"
  /\ mainHand = <<>>
  /\ proc[s] = "none"
  /\ proc' = [proc EXCEPT ![s] = "running"]
  /\ mainPc' = "drain"
  /\ needsRender' = TRUE
  /\ UNCHANGED <<read, ptySize, threadVars, events, screenHand, screenSending,
                 storeVars, render, mainHand, sessions>>

(* Joins the forwarder before it kills the child. *)
FaultyTerminate(s, ok) ==
  /\ s \in sessions
  /\ fwd[s] = "done"
  /\ sessions' = sessions \ {s}
  /\ proc' = [proc EXCEPT ![s] = "exited"]
  /\ mainHand' = IF ok THEN <<Exited(s)>> ELSE <<>>
  /\ UNCHANGED <<read, ptySize, threadVars, events, screenHand,
                 screenSending, storeVars, render>>

(* SessionManager::terminate up to its send of SessionExited.  The session *)
(* leaves the table first.  PtySession::terminate kills the child and      *)
(* waits for it, so the child is gone whether it returns Ok or an error;   *)
(* after an error SessionExited is not sent.                               *)
Terminate(s, ok) ==
  /\ s \in sessions
  /\ sessions' = sessions \ {s}
  /\ proc' = [proc EXCEPT ![s] = "exited"]
  /\ mainHand' = IF ok THEN <<Exited(s)>> ELSE <<>>
  /\ UNCHANGED <<read, ptySize, threadVars, events, screenHand,
                 screenSending, storeVars, render>>

(* Closing a session, by key or by the button of the mouse.  An error ends *)
(* the event loop after a key; after the button it is shown and the loop   *)
(* goes on, with the screen of the session still in the store.             *)
MainClose(s, ok) ==
  /\ mainPc = "poll"
  /\ mainHand = <<>>
  /\ Terminate(s, ok)
  /\ mainPc' \in IF ok THEN {"poll"} ELSE {"drain", "shutdown"}
  /\ needsRender' = TRUE

(* The quit key, or an error of a handler, of the frame or of reading the  *)
(* input: the event loop is left.                                          *)
MainQuit ==
  /\ mainPc \in {"render", "poll"}
  /\ mainHand = <<>>
  /\ mainPc' = "shutdown"
  /\ UNCHANGED <<ptyVars, threadVars, events, screenHand, screenSending,
                 storeVars, render, mainHand, needsRender, sessions>>

(* terminate_all, errors ignored. *)
ShutdownTerminate(s, ok) ==
  /\ mainPc = "shutdown"
  /\ mainHand = <<>>
  /\ Terminate(s, ok)
  /\ UNCHANGED <<mainPc, needsRender>>

(* run returns without terminate_all. *)
FaultyShutdownDone ==
  /\ mainPc = "shutdown"
  /\ mainHand = <<>>
  /\ mainPc' = "done"
  /\ UNCHANGED <<ptyVars, threadVars, events, screenHand, screenSending,
                 storeVars, render, mainHand, needsRender, sessions>>

ShutdownDone ==
  /\ mainPc = "shutdown"
  /\ mainHand = <<>>
  /\ sessions = {}
  /\ mainPc' = "done"
  /\ UNCHANGED <<ptyVars, threadVars, events, screenHand, screenSending,
                 storeVars, render, mainHand, needsRender, sessions>>

(* The blocking event_tx.send of the main thread, with what follows it:    *)
(* after SessionStarted the forwarder is spawned and the session enters    *)
(* the table; after Resize the frame is finished; a key handler returns to *)
(* the loop.                                                               *)
MainSend ==
  /\ mainHand # <<>>
  /\ HasRoom(events, EventCap)
  /\ LET e == Head(mainHand) IN
     /\ events' = Append(events, e)
     /\ IF e.type = "started"
          THEN /\ fwd' = [fwd EXCEPT ![e.session] = "running"]
               /\ sessions' = sessions \cup {e.session}
          ELSE UNCHANGED <<fwd, sessions>>
  /\ mainHand' = <<>>
  /\ mainPc' = CASE mainPc = "render" -> "poll"
                 [] mainPc = "poll"   -> "drain"
                 [] OTHER             -> mainPc
  /\ UNCHANGED <<ptyVars, reader, readerHand, output, fwdHand, screenHand,
                 screenSending, storeVars, render, needsRender>>

-----------------------------------------------------------------------------
ChildNext(s) == ChildExit(s) \/ ReaderRead(s) \/ ReaderEof(s)

ForwarderNext(s) == ForwarderRecv(s) \/ ForwarderSend(s) \/ ForwarderEnd(s)

ScreenNext == ScreenRecv \/ ScreenApply \/ ScreenRequestRender

(* What the main thread does without the user. *)
MainLoop ==
  \/ MainDrain \/ MainDrained \/ MainRender \/ MainPollTimeout \/ MainSend
  \/ \E s \in Sessions, ok \in BOOLEAN : ShutdownTerminate(s, ok)
  \/ ShutdownDone

User ==
  \/ MainKey \/ MainQuit
  \/ \E s \in Sessions : MainLaunch(s) \/ MainLaunchFails(s)
  \/ \E s \in Sessions, ok \in BOOLEAN : MainClose(s, ok)
  \/ \E s \in Sessions, sz \in Sizes : MainRenderResizing(s, sz)

(* The application has ended. *)
Finished == mainPc = "done" /\ UNCHANGED vars

Next ==
  \/ \E s \in Sessions : ChildNext(s) \/ ReaderSend(s) \/ ForwarderNext(s)
  \/ ScreenNext
  \/ MainLoop
  \/ User
  \/ Finished

Spec == Init /\ [][Next]_vars

(* The threads of the program are scheduled; children and the user owe     *)
(* nothing.  Sends on the shared event channel are strongly fair: the      *)
(* channel wakes a blocked sender whenever a slot frees up.                *)
Fairness ==
  /\ \A s \in Sessions : /\ WF_vars(ReaderSend(s))
                         /\ WF_vars(ForwarderNext(s))
                         /\ SF_vars(ForwarderSend(s))
  /\ WF_vars(ScreenNext)
  /\ WF_vars(MainLoop)
  /\ SF_vars(MainSend)

FairSpec == Spec /\ Fairness

-----------------------------------------------------------------------------
(* Properties *)

(* Every variable has its type and no channel exceeds its capacity.        *)
TypeOK ==
  /\ proc \in [Sessions -> {"none", "running", "exited"}]
  /\ read \in [Sessions -> Nat]
  /\ ptySize \in [Sessions -> Sizes]
  /\ reader \in [Sessions -> {"none", "running", "done"}]
  /\ readerHand \in [Sessions -> Nat]
  /\ output \in [Sessions -> Seq(Nat)]
  /\ \A s \in Sessions : Len(output[s]) <= OutputCap
  /\ fwd \in [Sessions -> {"none", "running", "done"}]
  /\ fwdHand \in [Sessions -> Nat]
  /\ events \in Seq(Event)
  /\ Len(events) <= EventCap
  /\ screenHand \in Seq(Event)
  /\ Len(screenHand) <= 1
  /\ screenSending \in BOOLEAN
  /\ screens \in SUBSET Sessions
  /\ text \in [Sessions -> Seq(Nat)]
  /\ size \in [Sessions -> Sizes]
  /\ applied \in [Sessions -> Seq(Nat)]
  /\ render \in 0..RenderCap
  /\ mainPc \in {"drain", "render", "poll", "shutdown", "done"}
  /\ mainHand \in Seq(Event)
  /\ Len(mainHand) <= 1
  /\ needsRender \in BOOLEAN
  /\ sessions \in SUBSET Sessions

(* How many chunks of s have left each stage.                              *)
IsBytes(e, s) == e.type = "bytes" /\ e.session = s

PastReader(s) == IF readerHand[s] = 0 THEN read[s] ELSE read[s] - 1
PastOutput(s) == PastReader(s) - Len(output[s])
PastForwarder(s) == IF fwdHand[s] = 0 THEN PastOutput(s) ELSE PastOutput(s) - 1
Received(s) == IF screenHand # <<>> /\ IsBytes(Head(screenHand), s)
                 THEN Len(applied[s]) + 1 ELSE Len(applied[s])

ReaderInOrder(s) == readerHand[s] \in {0, read[s]}
OutputInOrder(s) == \A i \in 1..Len(output[s]) : output[s][i] = PastOutput(s) + i
ForwarderInOrder(s) == fwdHand[s] \in {0, PastOutput(s)}
EventsInOrder(s) ==
  /\ Received(s) <= PastForwarder(s)
  /\ \A i \in 1..Len(events) : IsBytes(events[i], s) =>
       events[i].chunk \in (Received(s) + 1)..PastForwarder(s)
  /\ \A i, j \in 1..Len(events) :
       i < j /\ IsBytes(events[i], s) /\ IsBytes(events[j], s)
         => events[i].chunk < events[j].chunk
  /\ \A c \in (Received(s) + 1)..PastForwarder(s) :
       \E i \in 1..Len(events) : IsBytes(events[i], s) /\ events[i].chunk = c
ScreenInOrder(s) ==
  /\ \A i \in 1..Len(applied[s]) : applied[s][i] = i
  /\ \A i \in 1..Len(screenHand) : IsBytes(screenHand[i], s) =>
       screenHand[i].chunk = Len(applied[s]) + 1
MainSendsNoOutput(s) == \A i \in 1..Len(mainHand) : ~IsBytes(mainHand[i], s)

InOrder(s) ==
  /\ ReaderInOrder(s) /\ OutputInOrder(s) /\ ForwarderInOrder(s)
  /\ EventsInOrder(s) /\ ScreenInOrder(s) /\ MainSendsNoOutput(s)

(* Through four threads and two channels, one of them shared, the output   *)
(* of a child stays in order and complete: every chunk read from the PTY   *)
(* is in exactly one place, and the places hold consecutive chunks.        *)
NothingLostOrReordered == \A s \in Sessions : InOrder(s)

(* The screen of a live session shows everything that was processed for    *)
(* it: no resize, render or event of another session resets its parser.    *)
LiveScreenComplete == \A s \in sessions : text[s] = applied[s]

(* The fallback of the ScreenThread that creates a missing parser never    *)
(* runs for a live session: SessionStarted overtakes the first output.     *)
ScreenBeforeBytes ==
  \A s \in sessions :
    screenHand # <<>> /\ Head(screenHand).type \in {"bytes", "resize"}
      /\ Head(screenHand).session = s => s \in screens

(* The PTY and the parser of a live session agree on the window size once  *)
(* the resize events on their way are applied, however many frames resized *)
(* the session meanwhile on a stale reading of the screen store.           *)
SizesAgree ==
  LET pending == screenHand \o events \o mainHand
      ResizeAt(s) == {i \in DOMAIN pending :
                        pending[i].type = "resize" /\ pending[i].session = s}
  IN  \A s \in sessions :
        IF ResizeAt(s) = {} THEN size[s] = ptySize[s]
        ELSE \A i \in ResizeAt(s) : (\A j \in ResizeAt(s) : j <= i)
                                       => pending[i].size = ptySize[s]

(* A child is started, but no PtySession was built for it (MainLaunchFails).*)
LaunchFailed(s) == proc[s] # "none" /\ reader[s] = "none"

(* Whether the application ends by the quit key or by an error, and also   *)
(* when terminating sessions fails, the only children it can leave running *)
(* are those of launches that failed after the start: every other running  *)
(* child is in the table that terminate_all walks or is about to enter it, *)
(* and the application ends with an empty table.                           *)
OnlyFailedLaunchesOutlive ==
  /\ \A s \in Sessions : proc[s] = "running" /\ ~LaunchFailed(s) =>
       s \in sessions \/ mainHand = <<Started(s)>>
  /\ mainPc = "done" =>
       /\ sessions = {} /\ mainHand = <<>>
       /\ \A s \in Sessions : proc[s] = "running" => LaunchFailed(s)

(* Kanban operations remain responsive under output: the main thread is    *)
(* never in a send that waits for the ScreenThread while the ScreenThread  *)
(* is in a send that waits for the main thread.                            *)
Responsive ==
  ~ /\ mainHand # <<>> /\ Len(events) = EventCap
    /\ screenSending /\ render = RenderCap

(* The pipeline implements the feed of each session's output to its screen *)
(* (safety), and under fairness everything read is eventually shown, unless*)
(* the application ends before.                                            *)
Feed == INSTANCE SessionFeed
          WITH emitted <- read, shown <- applied, open <- Alive

FeedSafe == Feed!SafeSpec
FeedLive == Feed!Spec

(* Output that was processed is painted: a pending render request leads to *)
(* a frame, unless the application is ending.                              *)
OutputIsPainted == render > 0 ~> mainPc \in {"render", "shutdown", "done"}

(* Leaving the event loop leads to the end of the application.             *)
QuitCompletes == mainPc = "shutdown" ~> mainPc = "done"
=============================================================================
