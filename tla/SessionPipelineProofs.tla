------------------------ MODULE SessionPipelineProofs ------------------------
(***************************************************************************)
(* Proofs about the session pipeline, for every number of sessions, every  *)
(* channel capacity and every amount of output.                            *)
(***************************************************************************)
EXTENDS SessionPipeline, SequenceTheorems, TLAPS

-----------------------------------------------------------------------------
(* Typing *)

LEMMA EventTyping ==
  ASSUME NEW s \in Sessions
  PROVE  /\ Started(s) \in Event
         /\ Exited(s) \in Event
         /\ \A c \in Nat : Bytes(s, c) \in Event
         /\ \A sz \in Sizes : Resize(s, sz) \in Event
BY ConstantsAssumption
   DEF Started, Exited, Bytes, Resize, Event, EventType

LEMMA InitTyping == Init => TypeOK
<1> SUFFICES ASSUME Init PROVE TypeOK
  OBVIOUS
<1>1. /\ <<>> \in Seq(Nat)
      /\ <<>> \in Seq(Event)
      /\ Len(<<>>) = 0
  OBVIOUS
<1>2. /\ \A s \in Sessions : Len(output[s]) <= OutputCap
      /\ Len(events) <= EventCap
      /\ Len(screenHand) <= 1
      /\ Len(mainHand) <= 1
      /\ render \in 0..RenderCap
  BY <1>1, ConstantsAssumption DEF Init
<1>3. /\ output \in [Sessions -> Seq(Nat)]
      /\ text \in [Sessions -> Seq(Nat)]
      /\ applied \in [Sessions -> Seq(Nat)]
      /\ events \in Seq(Event) /\ screenHand \in Seq(Event) /\ mainHand \in Seq(Event)
  BY <1>1 DEF Init
<1>4. /\ read \in [Sessions -> Nat] /\ readerHand \in [Sessions -> Nat]
      /\ fwdHand \in [Sessions -> Nat]
      /\ ptySize \in [Sessions -> Sizes] /\ size \in [Sessions -> Sizes]
  BY ConstantsAssumption DEF Init
<1> QED
  BY <1>2, <1>3, <1>4 DEF Init, TypeOK

LEMMA TypingPreserved == TypeOK /\ [Next]_vars => TypeOK'
<1> SUFFICES ASSUME TypeOK, [Next]_vars PROVE TypeOK'
  OBVIOUS
<1> USE ConstantsAssumption DEF TypeOK, HasRoom
<1>1. ASSUME NEW s \in Sessions, ChildExit(s) PROVE TypeOK'
  BY <1>1 DEF ChildExit, threadVars, storeVars, mainVars
<1>2. ASSUME NEW s \in Sessions, ReaderRead(s) PROVE TypeOK'
  BY <1>2 DEF ReaderRead, storeVars, mainVars
<1>3. ASSUME NEW s \in Sessions, ReaderSend(s) PROVE TypeOK'
  <2>1. /\ output' \in [Sessions -> Seq(Nat)]
        /\ \A x \in Sessions : Len(output'[x]) <= OutputCap
    BY <1>3 DEF ReaderSend
  <2>2. readerHand' \in [Sessions -> Nat]
    BY <1>3 DEF ReaderSend
  <2> QED
    BY <1>3, <2>1, <2>2 DEF ReaderSend, ptyVars, storeVars, mainVars
<1>4. ASSUME NEW s \in Sessions, ReaderEof(s) PROVE TypeOK'
  BY <1>4 DEF ReaderEof, ptyVars, storeVars, mainVars
<1>5. ASSUME NEW s \in Sessions, ForwarderRecv(s) PROVE TypeOK'
  <2>1. /\ Head(output[s]) \in Nat
        /\ Tail(output[s]) \in Seq(Nat)
        /\ Len(Tail(output[s])) <= OutputCap
    BY <1>5 DEF ForwarderRecv
  <2> QED
    BY <1>5, <2>1 DEF ForwarderRecv, ptyVars, storeVars, mainVars
<1>6. ASSUME NEW s \in Sessions, ForwarderSend(s) PROVE TypeOK'
  <2>1. Bytes(s, fwdHand[s]) \in Event
    BY EventTyping
  <2>2. /\ events' \in Seq(Event)
        /\ Len(events') <= EventCap
    BY <1>6, <2>1 DEF ForwarderSend
  <2>3. fwdHand' \in [Sessions -> Nat]
    BY <1>6 DEF ForwarderSend
  <2> QED
    BY <1>6, <2>2, <2>3 DEF ForwarderSend, ptyVars, storeVars, mainVars
<1>7. ASSUME NEW s \in Sessions, ForwarderEnd(s) PROVE TypeOK'
  BY <1>7 DEF ForwarderEnd, ptyVars, storeVars, mainVars
<1>8. CASE ScreenRecv
  BY <1>8 DEF ScreenRecv, ptyVars, threadVars, storeVars, mainVars
<1>9. CASE ScreenApply
  <2> DEFINE e == Head(screenHand)
  <2>1. e \in Event
    BY <1>9 DEF ScreenApply
  <2>2. /\ e.session \in Sessions /\ e.chunk \in Nat /\ e.size \in Sizes
    BY <2>1 DEF Event
  <2>3. /\ FreshText(e.session) \in Seq(Nat)
        /\ FreshSize(e.session) \in Sizes
        /\ <<>> \in Seq(Nat)
    BY <2>2 DEF FreshText, FreshSize
  <2> HIDE DEF e
  <2>4. ApplyBytes(e) \/ ApplyStarted(e) \/ ApplyResize(e) \/ ApplyExited(e)
    BY <1>9 DEF ScreenApply, e
  <2>5. screens' \in SUBSET Sessions /\ size' \in [Sessions -> Sizes]
    <3>1. CASE ApplyBytes(e)
      BY <2>2, <2>3, <3>1 DEF ApplyBytes
    <3>2. CASE ApplyStarted(e)
      BY <2>2, <2>3, <3>2 DEF ApplyStarted
    <3>3. CASE ApplyResize(e)
      BY <2>2, <3>3 DEF ApplyResize
    <3>4. CASE ApplyExited(e)
      BY <2>2, <3>4 DEF ApplyExited
    <3> QED
      BY <2>4, <3>1, <3>2, <3>3, <3>4
  <2>9. screenSending' \in BOOLEAN
    BY <2>4, Zenon DEF ApplyBytes, ApplyStarted, ApplyResize, ApplyExited
  <2>6. text' \in [Sessions -> Seq(Nat)]
    <3>1. Append(FreshText(e.session), e.chunk) \in Seq(Nat)
      BY <2>2, <2>3
    <3>2. CASE ApplyBytes(e)
      BY <2>2, <3>1, <3>2 DEF ApplyBytes
    <3>3. CASE ApplyStarted(e)
      BY <2>2, <2>3, <3>3 DEF ApplyStarted
    <3>4. CASE ApplyResize(e)
      BY <3>4 DEF ApplyResize
    <3>5. CASE ApplyExited(e)
      <4>1. <<>> \in Seq(Nat)
        OBVIOUS
      <4> QED
        BY <2>2, <3>5, <4>1 DEF ApplyExited
    <3> QED
      BY <2>4, <3>2, <3>3, <3>4, <3>5
  <2>7. applied' \in [Sessions -> Seq(Nat)]
    <3>1. CASE ApplyBytes(e)
      <4>1. Append(applied[e.session], e.chunk) \in Seq(Nat)
        BY <2>2
      <4> QED
        BY <2>2, <3>1, <4>1 DEF ApplyBytes
    <3>2. CASE ~ApplyBytes(e)
      BY <2>4, <3>2 DEF ApplyStarted, ApplyResize, ApplyExited
    <3> QED
      BY <3>1, <3>2
  <2>8. screenHand' \in Seq(Event) /\ Len(screenHand') <= 1
    BY <1>9 DEF ScreenApply
  <2> QED
    BY <1>9, <2>5, <2>9, <2>6, <2>7, <2>8
       DEF ScreenApply, ptyVars, threadVars, mainVars
<1>10. CASE ScreenRequestRender
  <2>1. render' \in 0..RenderCap
    BY <1>10 DEF ScreenRequestRender
  <2>2. screenSending' \in BOOLEAN
    BY <1>10, Zenon DEF ScreenRequestRender
  <2> QED
    BY <1>10, <2>1, <2>2
       DEF ScreenRequestRender, ptyVars, threadVars, storeVars, mainVars
<1>11. CASE MainDrain
  BY <1>11 DEF MainDrain, ptyVars, threadVars, storeVars
<1>12. CASE MainDrained
  BY <1>12 DEF MainDrained, ptyVars, threadVars, storeVars
<1>13. CASE MainRender
  BY <1>13 DEF MainRender, ptyVars, threadVars, storeVars
<1>14. ASSUME NEW s \in Sessions, NEW sz \in Sizes, MainRenderResizing(s, sz)
       PROVE TypeOK'
  <2>1. mainHand' \in Seq(Event) /\ Len(mainHand') <= 1
    BY <1>14, EventTyping DEF MainRenderResizing
  <2>2. ptySize' \in [Sessions -> Sizes] /\ needsRender' \in BOOLEAN
    BY <1>14 DEF MainRenderResizing
  <2> QED
    BY <1>14, <2>1, <2>2 DEF MainRenderResizing, threadVars, storeVars
<1>15. CASE MainPollTimeout
  BY <1>15 DEF MainPollTimeout, ptyVars, threadVars, storeVars
<1>16. CASE MainKey
  BY <1>16 DEF MainKey, ptyVars, threadVars, storeVars
<1>17. ASSUME NEW s \in Sessions, MainLaunch(s) PROVE TypeOK'
  BY <1>17, EventTyping DEF MainLaunch, storeVars
<1>18. ASSUME NEW s \in Sessions, NEW ok \in BOOLEAN, MainClose(s, ok)
       PROVE TypeOK'
  <2>1. mainHand' \in Seq(Event) /\ Len(mainHand') <= 1
    BY <1>18, EventTyping DEF MainClose, Terminate
  <2>2. /\ proc' \in [Sessions -> {"none", "running", "exited"}]
        /\ sessions' \in SUBSET Sessions
        /\ mainPc' \in {"drain", "render", "poll", "shutdown", "done"}
        /\ needsRender' \in BOOLEAN
    BY <1>18 DEF MainClose, Terminate
  <2> QED
    BY <1>18, <2>1, <2>2 DEF MainClose, Terminate, threadVars, storeVars
<1>19. CASE MainQuit
  BY <1>19 DEF MainQuit, ptyVars, threadVars, storeVars
<1>20. ASSUME NEW s \in Sessions, NEW ok \in BOOLEAN, ShutdownTerminate(s, ok)
       PROVE TypeOK'
  BY <1>20, EventTyping DEF ShutdownTerminate, Terminate, threadVars, storeVars
<1>21. CASE ShutdownDone
  BY <1>21 DEF ShutdownDone, ptyVars, threadVars, storeVars
<1>22. CASE MainSend
  <2> DEFINE e == Head(mainHand)
  <2>0. e \in Event
    BY <1>22 DEF MainSend
  <2>1. e \in Event /\ e.session \in Sessions
    BY <2>0 DEF Event
  <2> HIDE DEF e
  <2>2. events' \in Seq(Event) /\ Len(events') <= EventCap
    BY <1>22, <2>1 DEF MainSend, e
  <2>3. /\ fwd' \in [Sessions -> {"none", "running", "done"}]
        /\ sessions' \in SUBSET Sessions
    BY <1>22, <2>1 DEF MainSend, e
  <2>4. /\ mainHand' \in Seq(Event) /\ Len(mainHand') <= 1
        /\ mainPc' \in {"drain", "render", "poll", "shutdown", "done"}
    BY <1>22 DEF MainSend
  <2> QED
    BY <1>22, <2>2, <2>3, <2>4 DEF MainSend, ptyVars, storeVars
<1>23. CASE UNCHANGED vars
  BY <1>23 DEF vars, ptyVars, threadVars, storeVars, mainVars
<1>24. ASSUME NEW s \in Sessions, MainLaunchFails(s) PROVE TypeOK'
  BY <1>24 DEF MainLaunchFails, threadVars, storeVars
<1> QED
  BY <1>1, <1>2, <1>3, <1>4, <1>5, <1>6, <1>7, <1>8, <1>9, <1>10, <1>11,
     <1>12, <1>13, <1>14, <1>15, <1>16, <1>17, <1>18, <1>19, <1>20, <1>21,
     <1>22, <1>23, <1>24
     DEF Next, ChildNext, ForwarderNext, ScreenNext, MainLoop, User, Finished

(* The variables keep their types and the channels their capacities.       *)
THEOREM Typing == Spec => []TypeOK
BY InitTyping, TypingPreserved, PTL DEF Spec

-----------------------------------------------------------------------------
(* Order and completeness of the output.  TypeOK /\ NothingLostOrReordered *)
(* is inductive: what a stage holds is determined by how many chunks have  *)
(* left it, so a send cannot hide a loss that a later stage would show.    *)

(* What a step must leave alone so that the order of s is kept.            *)
LEMMA OrderFrame ==
  ASSUME NEW s \in Sessions, InOrder(s),
         readerHand'[s] = readerHand[s], read'[s] = read[s],
         output'[s] = output[s], fwdHand'[s] = fwdHand[s],
         events' = events, screenHand' = screenHand, applied'[s] = applied[s],
         MainSendsNoOutput(s)'
  PROVE  InOrder(s)'
BY DEF InOrder, ReaderInOrder, OutputInOrder, ForwarderInOrder, EventsInOrder,
       ScreenInOrder, PastReader, PastOutput, PastForwarder, Received, IsBytes

(* Only output events count: another event may join the channel.           *)
LEMMA OtherEventKeepsOrder ==
  ASSUME NEW s \in Sessions, TypeOK, InOrder(s), NEW e \in Event, ~IsBytes(e, s),
         readerHand'[s] = readerHand[s], read'[s] = read[s],
         output'[s] = output[s], fwdHand'[s] = fwdHand[s],
         events' = Append(events, e), screenHand' = screenHand,
         applied'[s] = applied[s], MainSendsNoOutput(s)'
  PROVE  InOrder(s)'
<1>1. /\ PastReader(s)' = PastReader(s) /\ PastOutput(s)' = PastOutput(s)
      /\ PastForwarder(s)' = PastForwarder(s) /\ Received(s)' = Received(s)
  BY DEF PastReader, PastOutput, PastForwarder, Received, IsBytes
<1>2. /\ events \in Seq(Event)
      /\ Len(events') = Len(events) + 1
      /\ \A i \in 1..Len(events) : events'[i] = events[i]
      /\ events'[Len(events) + 1] = e
  BY DEF TypeOK
<1>3. ReaderInOrder(s)' /\ OutputInOrder(s)' /\ ForwarderInOrder(s)' /\ ScreenInOrder(s)'
  BY <1>1 DEF InOrder, ReaderInOrder, OutputInOrder, ForwarderInOrder,
              ScreenInOrder, IsBytes
<1>4. \A i \in 1..Len(events') :
        IsBytes(events'[i], s) => i \in 1..Len(events) /\ events'[i] = events[i]
  BY <1>2
<1>5. EventsInOrder(s)'
  <2>1. EventsInOrder(s)
    BY DEF InOrder
  <2>2. \A i \in 1..Len(events') : IsBytes(events'[i], s) =>
          events'[i].chunk \in (Received(s) + 1)..PastForwarder(s)
    BY <1>4, <2>1 DEF EventsInOrder
  <2>3. \A i, j \in 1..Len(events') :
          i < j /\ IsBytes(events'[i], s) /\ IsBytes(events'[j], s)
            => events'[i].chunk < events'[j].chunk
    BY <1>4, <2>1 DEF EventsInOrder
  <2>4. \A c \in (Received(s) + 1)..PastForwarder(s) :
          \E i \in 1..Len(events') : IsBytes(events'[i], s) /\ events'[i].chunk = c
    BY <1>2, <2>1 DEF EventsInOrder
  <2> QED
    BY <1>1, <2>1, <2>2, <2>3, <2>4 DEF EventsInOrder, IsBytes
<1> QED
  BY <1>3, <1>5 DEF InOrder

(* The counters are integers, and no stage is ahead of the one before it.  *)
LEMMA StageBounds ==
  ASSUME TypeOK, NEW s \in Sessions, InOrder(s)
  PROVE  /\ PastReader(s) \in Int /\ PastOutput(s) \in Int
         /\ PastForwarder(s) \in Int /\ Received(s) \in Nat
         /\ Received(s) <= PastForwarder(s)
         /\ PastForwarder(s) <= PastOutput(s)
         /\ PastOutput(s) <= PastReader(s)
         /\ PastReader(s) <= read[s]
<1>1. /\ read[s] \in Nat /\ readerHand[s] \in Nat /\ fwdHand[s] \in Nat
      /\ Len(output[s]) \in Nat /\ Len(applied[s]) \in Nat
  BY DEF TypeOK
<1>2. Received(s) <= PastForwarder(s)
  BY DEF InOrder, EventsInOrder
<1>3. PastReader(s) \in Int /\ PastReader(s) <= read[s]
  BY <1>1 DEF PastReader
<1>4. PastOutput(s) \in Int /\ PastOutput(s) <= PastReader(s)
  BY <1>1, <1>3 DEF PastOutput
<1>5. PastForwarder(s) \in Int /\ PastForwarder(s) <= PastOutput(s)
  BY <1>4 DEF PastForwarder
<1>6. Received(s) \in Nat
  BY <1>1 DEF Received
<1> QED
  BY <1>2, <1>3, <1>4, <1>5, <1>6

LEMMA ReaderKeepsOrder ==
  ASSUME TypeOK, NEW s \in Sessions, InOrder(s), ReaderRead(s) \/ ReaderSend(s)
  PROVE  InOrder(s)'
<1>1. CASE ReaderRead(s)
  <2>1. /\ readerHand[s] = 0
        /\ read'[s] = read[s] + 1 /\ readerHand'[s] = read[s] + 1
        /\ read[s] \in Nat
    BY <1>1 DEF ReaderRead, TypeOK
  <2>2. /\ output' = output /\ fwdHand' = fwdHand /\ events' = events
        /\ screenHand' = screenHand /\ applied' = applied /\ mainHand' = mainHand
    BY <1>1 DEF ReaderRead, storeVars, mainVars
  <2>3. PastReader(s)' = PastReader(s)
    BY <2>1 DEF PastReader
  <2>4. PastOutput(s)' = PastOutput(s) /\ Received(s)' = Received(s)
    BY <2>2, <2>3 DEF PastOutput, Received
  <2>5. PastForwarder(s)' = PastForwarder(s)
    BY <2>2, <2>4 DEF PastForwarder
  <2>6. ReaderInOrder(s)'
    BY <2>1 DEF ReaderInOrder
  <2>7. OutputInOrder(s)' /\ ForwarderInOrder(s)'
    BY <2>2, <2>4 DEF InOrder, OutputInOrder, ForwarderInOrder
  <2>8. EventsInOrder(s)'
    BY <2>2, <2>4, <2>5 DEF InOrder, EventsInOrder, IsBytes
  <2>9. ScreenInOrder(s)' /\ MainSendsNoOutput(s)'
    BY <2>2 DEF InOrder, ScreenInOrder, MainSendsNoOutput, IsBytes
  <2> QED
    BY <2>6, <2>7, <2>8, <2>9 DEF InOrder
<1>2. CASE ReaderSend(s)
  <2>1. /\ readerHand[s] # 0 /\ readerHand'[s] = 0
        /\ read' = read /\ fwdHand' = fwdHand /\ events' = events
        /\ screenHand' = screenHand /\ applied' = applied /\ mainHand' = mainHand
        /\ output'[s] = Append(output[s], readerHand[s])
    BY <1>2 DEF ReaderSend, TypeOK, ptyVars, storeVars, mainVars
  <2>2. readerHand[s] = read[s] /\ read[s] \in Nat
    BY <2>1 DEF InOrder, ReaderInOrder, TypeOK
  <2>3. /\ Len(output'[s]) = Len(output[s]) + 1
        /\ \A i \in 1..Len(output[s]) : output'[s][i] = output[s][i]
        /\ output'[s][Len(output[s]) + 1] = read[s]
        /\ Len(output[s]) \in Nat
    BY <2>1, <2>2 DEF TypeOK
  <2>4. PastReader(s) = read[s] - 1 /\ PastReader(s)' = read[s]
    BY <2>1, <2>2 DEF PastReader
  <2>5. PastOutput(s)' = PastOutput(s) /\ PastOutput(s) = read[s] - 1 - Len(output[s])
    BY <2>2, <2>3, <2>4 DEF PastOutput
  <2>6. PastForwarder(s)' = PastForwarder(s) /\ Received(s)' = Received(s)
    BY <2>1, <2>5 DEF PastForwarder, Received
  <2>7. OutputInOrder(s)'
    <3> SUFFICES ASSUME NEW i \in 1..Len(output'[s])
                 PROVE  output'[s][i] = PastOutput(s) + i
      BY <2>5 DEF OutputInOrder
    <3>1. CASE i = Len(output[s]) + 1
      BY <2>2, <2>3, <2>5, <3>1
    <3>2. CASE i # Len(output[s]) + 1
      <4>1. i \in 1..Len(output[s])
        BY <2>3, <3>2
      <4> QED
        BY <2>3, <4>1 DEF InOrder, OutputInOrder
    <3> QED
      BY <3>1, <3>2
  <2>8. ReaderInOrder(s)' /\ ForwarderInOrder(s)'
    BY <2>1, <2>5 DEF InOrder, ReaderInOrder, ForwarderInOrder
  <2>9. EventsInOrder(s)'
    BY <2>1, <2>6 DEF InOrder, EventsInOrder, IsBytes
  <2>10. ScreenInOrder(s)' /\ MainSendsNoOutput(s)'
    BY <2>1 DEF InOrder, ScreenInOrder, MainSendsNoOutput, IsBytes
  <2> QED
    BY <2>7, <2>8, <2>9, <2>10 DEF InOrder
<1> QED
  BY <1>1, <1>2

LEMMA ForwarderRecvKeepsOrder ==
  ASSUME TypeOK, NEW s \in Sessions, InOrder(s), ForwarderRecv(s)
  PROVE  InOrder(s)'
<1>1. /\ fwdHand[s] = 0 /\ fwdHand'[s] = Head(output[s])
      /\ output[s] # <<>> /\ output'[s] = Tail(output[s])
      /\ read' = read /\ readerHand' = readerHand /\ events' = events
      /\ screenHand' = screenHand /\ applied' = applied /\ mainHand' = mainHand
  BY DEF ForwarderRecv, TypeOK, ptyVars, storeVars, mainVars
<1>2. /\ output[s] \in Seq(Nat) /\ Len(output[s]) \in Nat \ {0}
      /\ Len(output'[s]) = Len(output[s]) - 1
      /\ \A i \in 1..Len(output'[s]) : output'[s][i] = output[s][i + 1]
      /\ Head(output[s]) = output[s][1]
  BY <1>1 DEF TypeOK
<1>3. PastReader(s)' = PastReader(s) /\ Received(s)' = Received(s)
  BY <1>1 DEF PastReader, Received
<1>4. PastOutput(s)' = PastOutput(s) + 1
  BY <1>2, <1>3, StageBounds DEF PastOutput
<1>5. fwdHand'[s] = PastOutput(s) + 1 /\ PastOutput(s) \in Nat
  <2>1. output[s][1] = PastOutput(s) + 1
    BY <1>2 DEF InOrder, OutputInOrder
  <2> QED
    BY <1>1, <1>2, <2>1, StageBounds
<1>6. PastForwarder(s)' = PastForwarder(s)
  BY <1>1, <1>4, <1>5 DEF PastForwarder
<1>7. OutputInOrder(s)'
  <2> SUFFICES ASSUME NEW i \in 1..Len(output'[s])
               PROVE  output'[s][i] = PastOutput(s)' + i
    BY DEF OutputInOrder
  <2>1. i + 1 \in 1..Len(output[s])
    BY <1>2
  <2>2. output[s][i + 1] = PastOutput(s) + (i + 1)
    BY <2>1 DEF InOrder, OutputInOrder
  <2> QED
    BY <1>2, <1>4, <1>5, <2>2
<1>8. ForwarderInOrder(s)'
  BY <1>4, <1>5 DEF ForwarderInOrder
<1>9. EventsInOrder(s)'
  BY <1>1, <1>3, <1>6 DEF InOrder, EventsInOrder, IsBytes
<1> QED
  BY <1>1, <1>7, <1>8, <1>9
     DEF InOrder, ReaderInOrder, ScreenInOrder, MainSendsNoOutput, IsBytes

LEMMA ForwarderSendKeepsOrder ==
  ASSUME TypeOK, NEW s \in Sessions, InOrder(s), ForwarderSend(s)
  PROVE  InOrder(s)'
<1> DEFINE e == Bytes(s, fwdHand[s])
<1>1. /\ fwdHand[s] # 0 /\ fwdHand'[s] = 0 /\ events' = Append(events, e)
      /\ read' = read /\ readerHand' = readerHand /\ output' = output
      /\ screenHand' = screenHand /\ applied' = applied /\ mainHand' = mainHand
  BY DEF ForwarderSend, TypeOK, ptyVars, storeVars, mainVars
<1>2. e \in Event /\ IsBytes(e, s) /\ e.chunk = fwdHand[s]
  <2>1. fwdHand[s] \in Nat
    BY DEF TypeOK
  <2> QED
    BY <2>1, EventTyping DEF Bytes, IsBytes
<1> HIDE DEF e
<1>3. /\ events \in Seq(Event) /\ Len(events) \in Nat
      /\ Len(events') = Len(events) + 1
      /\ \A i \in 1..Len(events) : events'[i] = events[i]
      /\ events'[Len(events) + 1] = e
  BY <1>1, <1>2 DEF TypeOK
<1>4. /\ PastReader(s)' = PastReader(s) /\ PastOutput(s)' = PastOutput(s)
      /\ Received(s)' = Received(s)
  BY <1>1 DEF PastReader, PastOutput, Received
<1>5. /\ fwdHand[s] = PastOutput(s)
      /\ PastForwarder(s) = PastOutput(s) - 1
      /\ PastForwarder(s)' = PastOutput(s)
  BY <1>1, <1>4 DEF InOrder, ForwarderInOrder, PastForwarder
<1>6. e.chunk = PastForwarder(s)' /\ PastForwarder(s)' = PastForwarder(s) + 1
  BY <1>2, <1>5, StageBounds
<1>7. EventsInOrder(s)
  BY DEF InOrder
<1>8. \A i \in 1..Len(events') : IsBytes(events'[i], s) =>
        \/ i = Len(events) + 1 /\ events'[i].chunk = PastForwarder(s) + 1
        \/ /\ i \in 1..Len(events) /\ events'[i] = events[i]
           /\ events'[i].chunk \in (Received(s) + 1)..PastForwarder(s)
  BY <1>3, <1>6, <1>7 DEF EventsInOrder
<1>9. EventsInOrder(s)'
  <2>1. Received(s) <= PastForwarder(s) + 1
    BY StageBounds
  <2>2. \A i \in 1..Len(events') : IsBytes(events'[i], s) =>
          events'[i].chunk \in (Received(s) + 1)..(PastForwarder(s) + 1)
    BY <1>8, StageBounds
  <2>3. \A i, j \in 1..Len(events') :
          i < j /\ IsBytes(events'[i], s) /\ IsBytes(events'[j], s)
            => events'[i].chunk < events'[j].chunk
    <3> SUFFICES ASSUME NEW i \in 1..Len(events'), NEW j \in 1..Len(events'),
                        i < j, IsBytes(events'[i], s), IsBytes(events'[j], s)
                 PROVE  events'[i].chunk < events'[j].chunk
      OBVIOUS
    <3>1. i \in 1..Len(events) /\ events'[i] = events[i]
      BY <1>3
    <3>2. CASE j \in 1..Len(events) /\ events'[j] = events[j]
      BY <1>7, <3>1, <3>2 DEF EventsInOrder
    <3>3. CASE j = Len(events) + 1 /\ events'[j].chunk = PastForwarder(s) + 1
      BY <1>7, <3>1, <3>3, StageBounds DEF EventsInOrder
    <3> QED
      BY <1>8, <3>2, <3>3
  <2>4. \A c \in (Received(s) + 1)..(PastForwarder(s) + 1) :
          \E i \in 1..Len(events') : IsBytes(events'[i], s) /\ events'[i].chunk = c
    <3> SUFFICES ASSUME NEW c \in (Received(s) + 1)..(PastForwarder(s) + 1)
                 PROVE  \E i \in 1..Len(events') :
                          IsBytes(events'[i], s) /\ events'[i].chunk = c
      OBVIOUS
    <3>1. CASE c = PastForwarder(s) + 1
      BY <1>2, <1>3, <1>6, <3>1
    <3>2. CASE c # PastForwarder(s) + 1
      <4>1. c \in (Received(s) + 1)..PastForwarder(s)
        BY <3>2, StageBounds
      <4>2. PICK i \in 1..Len(events) : IsBytes(events[i], s) /\ events[i].chunk = c
        BY <1>7, <4>1 DEF EventsInOrder
      <4> QED
        BY <1>3, <4>2
    <3> QED
      BY <3>1, <3>2
  <2> QED
    BY <1>4, <1>6, <2>1, <2>2, <2>3, <2>4 DEF EventsInOrder, IsBytes
<1> QED
  BY <1>1, <1>4, <1>9
     DEF InOrder, ReaderInOrder, OutputInOrder, ForwarderInOrder,
         ScreenInOrder, MainSendsNoOutput, IsBytes

LEMMA ScreenRecvKeepsOrder ==
  ASSUME TypeOK, NEW s \in Sessions, InOrder(s), ScreenRecv
  PROVE  InOrder(s)'
<1> DEFINE e == Head(events)
<1>1. /\ screenHand = <<>> /\ events # <<>>
      /\ screenHand' = <<e>> /\ events' = Tail(events)
      /\ read' = read /\ readerHand' = readerHand /\ output' = output
      /\ fwdHand' = fwdHand /\ applied' = applied /\ mainHand' = mainHand
  BY DEF ScreenRecv, ptyVars, threadVars, storeVars, mainVars
<1>2. /\ Len(events) \in Nat \ {0} /\ e = events[1]
      /\ Len(events') = Len(events) - 1
      /\ \A i \in 1..Len(events') : events'[i] = events[i + 1]
      /\ Head(screenHand') = e /\ screenHand' # <<>>
      /\ Len(screenHand') = 1 /\ screenHand'[1] = e
      /\ Len(applied[s]) \in Nat
  BY <1>1 DEF TypeOK
<1> HIDE DEF e
<1>3. /\ PastReader(s)' = PastReader(s) /\ PastOutput(s)' = PastOutput(s)
      /\ PastForwarder(s)' = PastForwarder(s)
  BY <1>1 DEF PastReader, PastOutput, PastForwarder
<1>4. /\ Received(s) = Len(applied[s])
      /\ Received(s)' = IF IsBytes(e, s) THEN Len(applied[s]) + 1 ELSE Len(applied[s])
  BY <1>1, <1>2 DEF Received, IsBytes
<1>5. EventsInOrder(s)
  BY DEF InOrder
<1>6. \A i \in 1..Len(events') : i + 1 \in 1..Len(events) /\ events'[i] = events[i + 1]
  BY <1>2
<1>7. IsBytes(e, s) => /\ e.chunk = Len(applied[s]) + 1
                       /\ Len(applied[s]) + 1 <= PastForwarder(s)
  <2> SUFFICES ASSUME IsBytes(e, s)
               PROVE  /\ e.chunk = Len(applied[s]) + 1
                      /\ Len(applied[s]) + 1 <= PastForwarder(s)
    OBVIOUS
  <2>1. e.chunk \in (Received(s) + 1)..PastForwarder(s)
    BY <1>2, <1>5 DEF EventsInOrder
  <2>2. Received(s) + 1 \in (Received(s) + 1)..PastForwarder(s)
    BY <2>1, StageBounds
  <2>3. PICK i \in 1..Len(events) :
          IsBytes(events[i], s) /\ events[i].chunk = Received(s) + 1
    BY <1>5, <2>2 DEF EventsInOrder
  <2>4. i = 1
    <3>1. CASE 1 < i
      <4>1. e.chunk < events[i].chunk
        BY <1>2, <1>5, <2>3, <3>1 DEF EventsInOrder
      <4> QED
        BY <2>1, <2>3, <4>1, StageBounds
    <3> QED
      BY <3>1
  <2> QED
    BY <1>2, <1>4, <2>1, <2>3, <2>4, StageBounds
<1>8. EventsInOrder(s)'
  <2>1. Received(s)' \in Nat /\ Received(s)' <= PastForwarder(s)
    BY <1>2, <1>4, <1>7, StageBounds
  <2>2. \A i \in 1..Len(events') : IsBytes(events'[i], s) =>
          events'[i].chunk \in (Received(s)' + 1)..PastForwarder(s)
    <3> SUFFICES ASSUME NEW i \in 1..Len(events'), IsBytes(events'[i], s)
                 PROVE  events'[i].chunk \in (Received(s)' + 1)..PastForwarder(s)
      OBVIOUS
    <3>1. events'[i].chunk \in (Received(s) + 1)..PastForwarder(s)
      BY <1>5, <1>6 DEF EventsInOrder
    <3>2. CASE IsBytes(e, s)
      <4>1. e.chunk < events'[i].chunk
        <5>1. 1 \in 1..Len(events) /\ i + 1 \in 1..Len(events) /\ 1 < i + 1
          BY <1>2
        <5>2. IsBytes(events[1], s) /\ IsBytes(events[i + 1], s)
          BY <1>2, <1>6, <3>2
        <5>3. events[1].chunk < events[i + 1].chunk
          BY <1>5, <5>1, <5>2 DEF EventsInOrder
        <5> QED
          BY <1>2, <1>6, <5>3
      <4>2. /\ Received(s)' = Len(applied[s]) + 1
            /\ e.chunk = Len(applied[s]) + 1
        BY <1>4, <1>7, <3>2
      <4> QED
        BY <1>2, <3>1, <4>1, <4>2, StageBounds
    <3>3. CASE ~IsBytes(e, s)
      BY <1>4, <3>1, <3>3
    <3> QED
      BY <3>2, <3>3
  <2>3. \A i, j \in 1..Len(events') :
          i < j /\ IsBytes(events'[i], s) /\ IsBytes(events'[j], s)
            => events'[i].chunk < events'[j].chunk
    BY <1>5, <1>6 DEF EventsInOrder
  <2>4. \A c \in (Received(s)' + 1)..PastForwarder(s) :
          \E i \in 1..Len(events') : IsBytes(events'[i], s) /\ events'[i].chunk = c
    <3> SUFFICES ASSUME NEW c \in (Received(s)' + 1)..PastForwarder(s)
                 PROVE  \E i \in 1..Len(events') :
                          IsBytes(events'[i], s) /\ events'[i].chunk = c
      OBVIOUS
    <3>1. c \in (Received(s) + 1)..PastForwarder(s)
      BY <1>2, <1>4, StageBounds
    <3>2. PICK j \in 1..Len(events) : IsBytes(events[j], s) /\ events[j].chunk = c
      BY <1>5, <3>1 DEF EventsInOrder
    <3>3. j # 1
      <4>1. IsBytes(e, s) => e.chunk # c
        BY <1>2, <1>4, <1>7
      <4> QED
        BY <1>2, <3>2, <4>1
    <3>4. j - 1 \in 1..Len(events') /\ events'[j - 1] = events[j]
      BY <1>2, <3>3
    <3> QED
      BY <3>2, <3>4
  <2> QED
    BY <1>3, <2>1, <2>2, <2>3, <2>4 DEF EventsInOrder, IsBytes
<1>9. ScreenInOrder(s)'
  BY <1>1, <1>2, <1>7 DEF InOrder, ScreenInOrder, IsBytes
<1> QED
  BY <1>1, <1>3, <1>8, <1>9
     DEF InOrder, ReaderInOrder, OutputInOrder, ForwarderInOrder,
         MainSendsNoOutput, IsBytes

LEMMA OneEventInHand ==
  ASSUME NEW hand \in Seq(Event), Len(hand) <= 1, hand # <<>>
  PROVE  Len(hand) = 1 /\ Head(hand) = hand[1] /\ Head(hand) \in Event
<1>1. Len(hand) \in Nat /\ Len(hand) # 0
  BY EmptySeq
<1>2. Len(hand) = 1
  <2>1. \A n \in Nat : n <= 1 /\ n # 0 => n = 1
    OBVIOUS
  <2> QED
    BY <1>1, <2>1, Zenon
<1>3. Head(hand) = hand[1]
  OBVIOUS
<1>4. hand[1] \in Event
  BY <1>2
<1> QED
  BY <1>2, <1>3, <1>4

(* What processing one event does to the history of s.                     *)
LEMMA ScreenApplyEffect ==
  ASSUME TypeOK, NEW s \in Sessions, ScreenApply, NEW e, e = Head(screenHand)
  PROVE  /\ screenHand # <<>> /\ screenHand' = <<>>
         /\ e = screenHand[1] /\ e \in Event /\ Len(screenHand) = 1
         /\ e.type # "bytes" => applied' = applied
         /\ e.type = "bytes" =>
              applied' = [applied EXCEPT ![e.session] = Append(@, e.chunk)]
         /\ IsBytes(e, s) => applied'[s] = Append(applied[s], e.chunk)
         /\ ~IsBytes(e, s) => applied'[s] = applied[s]
<1>1. screenHand # <<>> /\ screenHand' = <<>>
  BY DEF ScreenApply
<1>2. e = screenHand[1] /\ e \in Event /\ Len(screenHand) = 1
  <2>1. screenHand \in Seq(Event) /\ Len(screenHand) <= 1
    BY DEF TypeOK
  <2> QED
    BY <1>1, <2>1, OneEventInHand
<1>3. ApplyBytes(e) \/ ApplyStarted(e) \/ ApplyResize(e) \/ ApplyExited(e)
  BY DEF ScreenApply
<1>4. /\ e.type # "bytes" => applied' = applied
      /\ e.type = "bytes" =>
           applied' = [applied EXCEPT ![e.session] = Append(@, e.chunk)]
  BY <1>3 DEF ApplyBytes, ApplyStarted, ApplyResize, ApplyExited
<1>5. applied \in [Sessions -> Seq(Nat)] /\ e.session \in Sessions
  BY <1>2 DEF TypeOK, Event
<1>6. /\ IsBytes(e, s) => applied'[s] = Append(applied[s], e.chunk)
      /\ ~IsBytes(e, s) => applied'[s] = applied[s]
  BY <1>4, <1>5 DEF IsBytes
<1> QED
  BY <1>1, <1>2, <1>4, <1>6

LEMMA ScreenApplyKeepsOrder ==
  ASSUME TypeOK, NEW s \in Sessions, InOrder(s), ScreenApply
  PROVE  InOrder(s)'
<1> DEFINE e == Head(screenHand)
<1>1. /\ read' = read /\ readerHand' = readerHand /\ output' = output
      /\ fwdHand' = fwdHand /\ events' = events /\ mainHand' = mainHand
  BY DEF ScreenApply, ptyVars, threadVars, mainVars
<1>2. /\ screenHand # <<>> /\ screenHand' = <<>>
      /\ e = screenHand[1] /\ e \in Event /\ Len(screenHand) = 1
      /\ IsBytes(e, s) => applied'[s] = Append(applied[s], e.chunk)
      /\ ~IsBytes(e, s) => applied'[s] = applied[s]
  BY ScreenApplyEffect
<1>3. applied[s] \in Seq(Nat) /\ Len(applied[s]) \in Nat /\ e.chunk \in Nat
  <2>1. applied[s] \in Seq(Nat)
    BY DEF TypeOK
  <2>2. e.chunk \in Nat
    BY <1>2 DEF Event
  <2> QED
    BY <2>1, <2>2
<1>4. Received(s) = IF IsBytes(e, s) THEN Len(applied[s]) + 1 ELSE Len(applied[s])
  BY <1>2 DEF Received
<1> HIDE DEF e
<1>5. Received(s)' = Received(s)
  <2>1. Received(s)' = Len(applied'[s])
    BY <1>2 DEF Received
  <2> QED
    BY <1>2, <1>3, <1>4, <2>1
<1>6. /\ PastReader(s)' = PastReader(s) /\ PastOutput(s)' = PastOutput(s)
      /\ PastForwarder(s)' = PastForwarder(s)
  BY <1>1 DEF PastReader, PastOutput, PastForwarder
<1>7. ScreenInOrder(s)'
  <2>1. \A i \in 1..Len(applied[s]) : applied[s][i] = i
    BY DEF InOrder, ScreenInOrder
  <2>2. CASE IsBytes(e, s)
    <3>1. e.chunk = Len(applied[s]) + 1
      BY <1>2, <2>2 DEF InOrder, ScreenInOrder
    <3>2. applied'[s] = Append(applied[s], Len(applied[s]) + 1)
      BY <1>2, <2>2, <3>1
    <3>3. \A i \in 1..Len(applied'[s]) : applied'[s][i] = i
      BY <1>3, <2>1, <3>2
    <3> QED
      BY <1>2, <3>3 DEF ScreenInOrder
  <2>3. CASE ~IsBytes(e, s)
    BY <1>2, <2>1, <2>3 DEF ScreenInOrder
  <2> QED
    BY <2>2, <2>3
<1>8. EventsInOrder(s)'
  BY <1>1, <1>5, <1>6 DEF InOrder, EventsInOrder, IsBytes
<1> QED
  BY <1>1, <1>6, <1>7, <1>8
     DEF InOrder, ReaderInOrder, OutputInOrder, ForwarderInOrder,
         MainSendsNoOutput, IsBytes

LEMMA InitOrder == Init => NothingLostOrReordered
<1> SUFFICES ASSUME Init, NEW s \in Sessions PROVE InOrder(s)
  BY DEF NothingLostOrReordered
<1>1. /\ readerHand[s] = 0 /\ fwdHand[s] = 0 /\ read[s] = 0
      /\ output[s] = <<>> /\ events = <<>> /\ screenHand = <<>>
      /\ applied[s] = <<>> /\ mainHand = <<>>
  BY DEF Init
<1>2. PastReader(s) = 0 /\ PastOutput(s) = 0 /\ PastForwarder(s) = 0 /\ Received(s) = 0
  <2>1. PastReader(s) = 0
    BY <1>1 DEF PastReader
  <2>2. PastOutput(s) = 0
    <3>1. Len(output[s]) = 0
      BY <1>1
    <3> QED
      BY <2>1, <3>1 DEF PastOutput
  <2>3. PastForwarder(s) = 0
    BY <1>1, <2>2 DEF PastForwarder
  <2> QED
    BY <1>1, <2>1, <2>2, <2>3 DEF Received
<1>3. ReaderInOrder(s) /\ OutputInOrder(s) /\ ForwarderInOrder(s)
  BY <1>1, <1>2 DEF ReaderInOrder, OutputInOrder, ForwarderInOrder
<1>4. EventsInOrder(s)
  BY <1>1, <1>2 DEF EventsInOrder
<1>5. ScreenInOrder(s) /\ MainSendsNoOutput(s)
  BY <1>1 DEF ScreenInOrder, MainSendsNoOutput
<1> QED
  BY <1>3, <1>4, <1>5 DEF InOrder

(* The main thread composes no output events.                              *)
LEMMA MainHandPreserved ==
  ASSUME NEW s \in Sessions, MainSendsNoOutput(s),
         \/ mainHand' = mainHand \/ mainHand' = <<>>
         \/ \E t \in Sessions : mainHand' = <<Started(t)>> \/ mainHand' = <<Exited(t)>>
         \/ \E t \in Sessions, sz \in Sizes : mainHand' = <<Resize(t, sz)>>
  PROVE  MainSendsNoOutput(s)'
BY DEF MainSendsNoOutput, IsBytes, Started, Exited, Resize

LEMMA OrderPreserved ==
  TypeOK /\ NothingLostOrReordered /\ [Next]_vars => NothingLostOrReordered'
<1> SUFFICES ASSUME TypeOK, NothingLostOrReordered, [Next]_vars,
                    NEW t \in Sessions
             PROVE  InOrder(t)'
  BY DEF NothingLostOrReordered
<1> DEFINE Untouched == /\ readerHand'[t] = readerHand[t] /\ read'[t] = read[t]
                        /\ output'[t] = output[t] /\ fwdHand'[t] = fwdHand[t]
                        /\ screenHand' = screenHand /\ applied'[t] = applied[t]
<1>0. InOrder(t) /\ MainSendsNoOutput(t)
  BY DEF NothingLostOrReordered, InOrder
<1> HIDE DEF Untouched
<1>1. ASSUME NEW s \in Sessions,
             ChildExit(s) \/ ReaderEof(s) \/ ForwarderEnd(s)
      PROVE  InOrder(t)'
  <2>1. Untouched /\ events' = events /\ mainHand' = mainHand
    BY <1>1 DEF ChildExit, ReaderEof, ForwarderEnd, Untouched, ptyVars, threadVars,
                storeVars, mainVars
  <2> QED
    BY <1>0, <2>1, MainHandPreserved, OrderFrame DEF Untouched
<1>2. ASSUME NEW s \in Sessions, ReaderRead(s) \/ ReaderSend(s) PROVE InOrder(t)'
  <2>1. CASE s = t
    BY <1>0, <1>2, <2>1, ReaderKeepsOrder
  <2>2. CASE s # t
    <3>1. Untouched /\ events' = events /\ mainHand' = mainHand
      BY <1>2, <2>2 DEF TypeOK, ReaderRead, ReaderSend, Untouched, ptyVars,
                        storeVars, mainVars
    <3> QED
      BY <1>0, <3>1, MainHandPreserved, OrderFrame DEF Untouched
  <2> QED
    BY <2>1, <2>2
<1>3. ASSUME NEW s \in Sessions, ForwarderRecv(s) PROVE InOrder(t)'
  <2>1. CASE s = t
    BY <1>0, <1>3, <2>1, ForwarderRecvKeepsOrder
  <2>2. CASE s # t
    <3>1. Untouched /\ events' = events /\ mainHand' = mainHand
      BY <1>3, <2>2 DEF TypeOK, ForwarderRecv, Untouched, ptyVars, storeVars, mainVars
    <3> QED
      BY <1>0, <3>1, MainHandPreserved, OrderFrame DEF Untouched
  <2> QED
    BY <2>1, <2>2
<1>4. ASSUME NEW s \in Sessions, ForwarderSend(s) PROVE InOrder(t)'
  <2>1. CASE s = t
    BY <1>0, <1>4, <2>1, ForwarderSendKeepsOrder
  <2>2. CASE s # t
    <3>1. /\ Untouched /\ mainHand' = mainHand
          /\ events' = Append(events, Bytes(s, fwdHand[s]))
      BY <1>4, <2>2 DEF TypeOK, ForwarderSend, Untouched, ptyVars, storeVars, mainVars
    <3>2. ~IsBytes(Bytes(s, fwdHand[s]), t)
      BY <2>2 DEF Bytes, IsBytes
    <3>3. Bytes(s, fwdHand[s]) \in Event
      <4>1. fwdHand[s] \in Nat
        BY DEF TypeOK
      <4> QED
        BY <4>1, EventTyping
    <3>4. MainSendsNoOutput(t)'
      BY <1>0, <3>1, MainHandPreserved
    <3> QED
      BY <1>0, <3>1, <3>2, <3>3, <3>4, OtherEventKeepsOrder DEF Untouched
  <2> QED
    BY <2>1, <2>2
<1>5. CASE ScreenRecv
  BY <1>0, <1>5, ScreenRecvKeepsOrder
<1>6. CASE ScreenApply
  BY <1>0, <1>6, ScreenApplyKeepsOrder
<1>7. CASE \/ ScreenRequestRender \/ MainDrain \/ MainDrained \/ MainRender
           \/ MainPollTimeout \/ MainKey \/ MainQuit \/ ShutdownDone
           \/ UNCHANGED vars
  <2>1. Untouched /\ events' = events /\ mainHand' = mainHand
    BY <1>7 DEF ScreenRequestRender, MainDrain, MainDrained, MainRender,
                MainPollTimeout, MainKey, MainQuit, ShutdownDone, Untouched, vars,
                ptyVars, threadVars, storeVars, mainVars
  <2> QED
    BY <1>0, <2>1, MainHandPreserved, OrderFrame DEF Untouched
<1>8. ASSUME NEW s \in Sessions, NEW sz \in Sizes, MainRenderResizing(s, sz)
      PROVE  InOrder(t)'
  <2>1. Untouched /\ events' = events /\ mainHand' = <<Resize(s, sz)>>
    BY <1>8 DEF MainRenderResizing, Untouched, threadVars, storeVars
  <2> QED
    BY <1>0, <2>1, MainHandPreserved, OrderFrame DEF Untouched
<1>9. ASSUME NEW s \in Sessions, MainLaunch(s) PROVE InOrder(t)'
  <2>1. Untouched /\ events' = events /\ mainHand' = <<Started(s)>>
    BY <1>9 DEF MainLaunch, Untouched, storeVars
  <2> QED
    BY <1>0, <2>1, MainHandPreserved, OrderFrame DEF Untouched
<1>10. ASSUME NEW s \in Sessions, NEW ok \in BOOLEAN,
              MainClose(s, ok) \/ ShutdownTerminate(s, ok)
       PROVE  InOrder(t)'
  <2>1. Terminate(s, ok)
    BY <1>10 DEF MainClose, ShutdownTerminate
  <2>2. /\ Untouched /\ events' = events
        /\ mainHand' = <<Exited(s)>> \/ mainHand' = <<>>
    BY <2>1 DEF Terminate, Untouched, threadVars, storeVars
  <2> QED
    BY <1>0, <2>2, MainHandPreserved, OrderFrame DEF Untouched
<1>11. CASE MainSend
  <2> DEFINE e == Head(mainHand)
  <2>1. /\ Untouched /\ mainHand # <<>> /\ mainHand' = <<>>
        /\ events' = Append(events, e)
    BY <1>11 DEF MainSend, Untouched, ptyVars, storeVars
  <2>2. Len(mainHand) = 1 /\ e = mainHand[1] /\ e \in Event
    <3>1. mainHand \in Seq(Event) /\ Len(mainHand) <= 1
      BY DEF TypeOK
    <3> QED
      BY <2>1, <3>1, OneEventInHand
  <2>3. ~IsBytes(e, t)
    BY <1>0, <2>2 DEF MainSendsNoOutput
  <2>4. MainSendsNoOutput(t)'
    BY <1>0, <2>1, MainHandPreserved
  <2> HIDE DEF e
  <2> QED
    BY <1>0, <2>1, <2>2, <2>3, <2>4, OtherEventKeepsOrder DEF Untouched
<1>12. ASSUME NEW s \in Sessions, MainLaunchFails(s) PROVE InOrder(t)'
  <2>1. Untouched /\ events' = events /\ mainHand' = mainHand
    BY <1>12 DEF MainLaunchFails, Untouched, threadVars, storeVars
  <2> QED
    BY <1>0, <2>1, MainHandPreserved, OrderFrame DEF Untouched
<1> QED
  BY <1>1, <1>2, <1>3, <1>4, <1>5, <1>6, <1>7, <1>8, <1>9, <1>10, <1>11, <1>12
     DEF Next, ChildNext, ForwarderNext, ScreenNext, MainLoop, User, Finished

(* Every chunk of output is in exactly one place on its way to the screen, *)
(* and in order, for any number of sessions and any channel capacities.    *)
THEOREM OutputOrder == Spec => []NothingLostOrReordered
<1>1. Init => TypeOK /\ NothingLostOrReordered
  BY InitTyping, InitOrder
<1>2. TypeOK /\ NothingLostOrReordered /\ [Next]_vars
        => (TypeOK /\ NothingLostOrReordered)'
  BY TypingPreserved, OrderPreserved
<1> QED
  BY <1>1, <1>2, PTL DEF Spec

-----------------------------------------------------------------------------
(* The pipeline implements the feed: reading from the PTY emits a chunk,   *)
(* and processing an output event shows the next one.                      *)

LEMMA FeedStep ==
  TypeOK /\ NothingLostOrReordered /\ [Next]_vars => [Feed!Next]_(Feed!vars)
<1> SUFFICES ASSUME TypeOK, NothingLostOrReordered, [Next]_vars
             PROVE  [Feed!Next]_(Feed!vars)
  OBVIOUS
<1>1. ASSUME NEW s \in Sessions, ReaderRead(s) PROVE Feed!Next
  <2>1. Feed!Emit(s)
    BY <1>1 DEF ReaderRead, storeVars, mainVars, Alive, Feed!Emit
  <2> QED
    BY <2>1 DEF Feed!Next
<1>2. CASE ScreenApply
  <2> DEFINE e == Head(screenHand)
  <2>1. PICK s \in Sessions : s = e.session
    <3>1. e \in Event
      BY <1>2 DEF ScreenApply, TypeOK
    <3> QED
      BY <3>1 DEF Event
  <2>2. /\ screenHand # <<>> /\ e = screenHand[1] /\ Len(screenHand) = 1
        /\ e.type # "bytes" => applied' = applied
        /\ e.type = "bytes" => applied' = [applied EXCEPT ![s] = Append(@, e.chunk)]
    BY <1>2, <2>1, ScreenApplyEffect
  <2>3. InOrder(s)
    BY DEF NothingLostOrReordered
  <2>4. read' = read
    BY <1>2 DEF ScreenApply, ptyVars
  <2>7. Alive /\ UNCHANGED Alive
    BY <1>2 DEF ScreenApply, mainVars, Alive
  <2>5. CASE e.type = "bytes"
    <3>1. IsBytes(e, s)
      BY <2>1, <2>5 DEF IsBytes
    <3>2. e.chunk = Len(applied[s]) + 1
      BY <2>2, <2>3, <3>1 DEF InOrder, ScreenInOrder
    <3>3. Received(s) = Len(applied[s]) + 1
      BY <2>2, <3>1 DEF Received
    <3>4. Len(applied[s]) < read[s]
      <4>1. Len(applied[s]) \in Nat /\ read[s] \in Nat
        BY DEF TypeOK
      <4> QED
        BY <2>3, <3>3, <4>1, StageBounds
    <3>5. Feed!Show(s)
      BY <2>2, <2>4, <2>5, <2>7, <3>2, <3>4 DEF Feed!Show
    <3> QED
      BY <3>5 DEF Feed!Next
  <2>6. CASE e.type # "bytes"
    BY <2>2, <2>4, <2>6, <2>7 DEF Feed!vars
  <2> QED
    BY <2>5, <2>6
<1>3. ASSUME NEW s \in Sessions,
             ChildExit(s) \/ ReaderSend(s) \/ ReaderEof(s) \/ ForwarderNext(s)
      PROVE  UNCHANGED Feed!vars
  BY <1>3 DEF ChildExit, ReaderSend, ReaderEof, ForwarderNext, ForwarderRecv,
              ForwarderSend, ForwarderEnd, ptyVars, storeVars, mainVars, Alive, Feed!vars
<1>4. ASSUME ScreenRecv \/ ScreenRequestRender \/ MainLoop \/ User \/ UNCHANGED vars
      PROVE  read' = read /\ applied' = applied
  <2>1. read' = read
    BY <1>4 DEF ScreenRecv, ScreenRequestRender, MainLoop, MainDrain, MainDrained,
        MainRender, MainPollTimeout, MainSend, ShutdownTerminate, Terminate,
        ShutdownDone, User, MainKey, MainQuit, MainLaunch, MainLaunchFails,
        MainClose,
        MainRenderResizing, vars, ptyVars
  <2>2. applied' = applied
    BY <1>4 DEF ScreenRecv, ScreenRequestRender, MainLoop, MainDrain, MainDrained,
        MainRender, MainPollTimeout, MainSend, ShutdownTerminate, Terminate,
        ShutdownDone, User, MainKey, MainQuit, MainLaunch, MainLaunchFails,
        MainClose,
        MainRenderResizing, vars, storeVars
  <2> QED
    BY <2>1, <2>2
<1>5. ASSUME ScreenRecv \/ ScreenRequestRender \/ MainLoop \/ User \/ UNCHANGED vars
      PROVE  Alive' => Alive
  BY <1>5 DEF Alive, ScreenRecv, ScreenRequestRender, MainLoop, MainDrain, MainDrained,
      MainRender, MainPollTimeout, MainSend, ShutdownTerminate, ShutdownDone, User,
      MainKey, MainQuit, MainLaunch, MainLaunchFails, MainClose, MainRenderResizing,
      vars, mainVars
<1>6. CASE ScreenRecv \/ ScreenRequestRender \/ MainLoop \/ User \/ UNCHANGED vars
  <2>1. CASE Alive /\ ~Alive'
    BY <1>4, <1>6, <2>1 DEF Feed!Next, Feed!End
  <2>2. ASSUME ~(Alive /\ ~Alive') PROVE UNCHANGED Feed!vars
    <3>1. Alive' = Alive
      BY <1>5, <1>6, <2>2 DEF Alive
    <3> QED
      BY <1>4, <1>6, <3>1 DEF Feed!vars
  <2> QED
    BY <2>1, <2>2
<1> QED
  BY <1>1, <1>2, <1>3, <1>6 DEF Next, ChildNext, ScreenNext, Finished

(* The safety part of the refinement: the screens show a prefix of what    *)
(* the children wrote, chunk by chunk, for every value of the constants.   *)
THEOREM Refinement == Spec => FeedSafe
<1>1. Init => Feed!Init
  BY DEF Init, Feed!Init, Alive
<1>2. Init => TypeOK /\ NothingLostOrReordered
  BY InitTyping, InitOrder
<1>3. TypeOK /\ NothingLostOrReordered /\ [Next]_vars
        => (TypeOK /\ NothingLostOrReordered)'
  BY TypingPreserved, OrderPreserved
<1> QED
  BY <1>1, <1>2, <1>3, FeedStep, PTL DEF Spec, FeedSafe, Feed!SafeSpec

-----------------------------------------------------------------------------
(* No orphans *)

(* What a step must leave alone so that the children stay managed.         *)
LEMMA ManagedFrame ==
  ASSUME OnlyFailedLaunchesOutlive, sessions' = sessions,
         \A s \in Sessions : proc'[s] = "running" => proc[s] = "running",
         \A s \in Sessions : LaunchFailed(s) => LaunchFailed(s)',
         mainHand' = mainHand \/ ~ \E s \in Sessions : mainHand = <<Started(s)>>,
         mainPc # "done" \/ mainHand' = mainHand,
         mainPc' = "done" => mainPc = "done"
  PROVE  OnlyFailedLaunchesOutlive'
BY DEF OnlyFailedLaunchesOutlive, Started

(* A reader is started together with its child or never.                   *)
ReaderNeedsChild(s) == proc[s] = "none" => reader[s] = "none"

LEMMA ReadersStart ==
  ASSUME TypeOK, [Next]_vars, NEW s \in Sessions, ReaderNeedsChild(s)
  PROVE  ReaderNeedsChild(s)' /\ (LaunchFailed(s) => LaunchFailed(s)')
<1> DEFINE Goal == ReaderNeedsChild(s)' /\ (LaunchFailed(s) => LaunchFailed(s)')
<1>1. ASSUME UNCHANGED <<proc, reader>> PROVE Goal
  BY <1>1 DEF LaunchFailed, ReaderNeedsChild
<1>2. ASSUME NEW t \in Sessions, ChildNext(t) \/ ReaderSend(t) \/ ForwarderNext(t)
      PROVE  Goal
  <2>1. proc' = proc \/ proc' = [proc EXCEPT ![t] = "exited"]
    BY <1>2 DEF ChildNext, ForwarderNext, ChildExit, ReaderRead, ReaderEof, ReaderSend,
                ForwarderRecv, ForwarderSend, ForwarderEnd, ptyVars
  <2>2. \/ reader' = reader
        \/ reader[t] = "running" /\ reader' = [reader EXCEPT ![t] = "done"]
    BY <1>2 DEF ChildNext, ForwarderNext, ChildExit, ReaderRead, ReaderEof, ReaderSend,
                ForwarderRecv, ForwarderSend, ForwarderEnd, threadVars
  <2>3. proc'[s] = "none" <=> proc[s] = "none"
    BY <1>2, <2>1 DEF TypeOK, ChildNext, ForwarderNext, ChildExit, ReaderRead, ReaderEof,
                ReaderSend, ForwarderRecv, ForwarderSend, ForwarderEnd, ptyVars
  <2> QED
    BY <2>2, <2>3 DEF TypeOK, LaunchFailed, ReaderNeedsChild
<1>3. ASSUME NEW t \in Sessions, MainLaunch(t) \/ MainLaunchFails(t)
      PROVE  Goal
  <2>1. /\ proc[t] = "none" /\ proc' = [proc EXCEPT ![t] = "running"]
        /\ reader' = reader \/ reader' = [reader EXCEPT ![t] = "running"]
    BY <1>3 DEF MainLaunch, MainLaunchFails, threadVars
  <2> QED
    BY <2>1 DEF TypeOK, LaunchFailed, ReaderNeedsChild
<1>4. ASSUME NEW t \in Sessions, NEW ok \in BOOLEAN,
             MainClose(t, ok) \/ ShutdownTerminate(t, ok)
      PROVE  Goal
  <2>1. reader' = reader /\ proc' = [proc EXCEPT ![t] = "exited"]
    BY <1>4 DEF MainClose, ShutdownTerminate, Terminate, threadVars
  <2> QED
    BY <2>1 DEF TypeOK, LaunchFailed, ReaderNeedsChild
<1>5. ASSUME \/ ScreenNext \/ MainDrain \/ MainDrained \/ MainRender \/ MainPollTimeout
             \/ MainKey \/ MainQuit \/ MainSend \/ ShutdownDone \/ UNCHANGED vars
             \/ \E t \in Sessions, sz \in Sizes : MainRenderResizing(t, sz)
      PROVE  UNCHANGED <<proc, reader>>
  BY <1>5 DEF ScreenNext, ScreenRecv, ScreenApply, ScreenRequestRender, MainDrain, MainDrained,
      MainRender, MainPollTimeout, MainKey, MainQuit, MainSend, ShutdownDone,
      MainRenderResizing, vars, ptyVars, threadVars
<1> HIDE DEF Goal
<1>6. Goal
  BY <1>1, <1>2, <1>3, <1>4, <1>5 DEF Next, MainLoop, User, Finished
<1> QED
  BY <1>6 DEF Goal

ReadersNeedChildren == \A s \in Sessions : ReaderNeedsChild(s)

LEMMA ManagedPreserved ==
  TypeOK /\ ReadersNeedChildren /\ OnlyFailedLaunchesOutlive /\ [Next]_vars
    => OnlyFailedLaunchesOutlive'
<1> SUFFICES ASSUME TypeOK, ReadersNeedChildren, OnlyFailedLaunchesOutlive, [Next]_vars
             PROVE  OnlyFailedLaunchesOutlive'
  OBVIOUS
<1>0. \A s \in Sessions : LaunchFailed(s) => LaunchFailed(s)'
  BY ReadersStart DEF ReadersNeedChildren
<1>1. ASSUME NEW s \in Sessions, ChildNext(s) \/ ReaderSend(s) \/ ForwarderNext(s)
      PROVE  OnlyFailedLaunchesOutlive'
  <2>1. /\ sessions' = sessions /\ mainHand' = mainHand /\ mainPc' = mainPc
    BY <1>1 DEF ChildNext, ForwarderNext, ChildExit, ReaderRead, ReaderEof,
                ReaderSend, ForwarderRecv, ForwarderSend, ForwarderEnd, mainVars
  <2>2. \A t \in Sessions : proc'[t] = "running" => proc[t] = "running"
    BY <1>1 DEF ChildNext, ForwarderNext, ChildExit, ReaderRead, ReaderEof,
                ReaderSend, ForwarderRecv, ForwarderSend, ForwarderEnd, ptyVars, TypeOK
  <2> QED
    BY <2>1, <2>2, <1>0, ManagedFrame
<1>2. CASE ScreenNext \/ UNCHANGED vars
  <2>1. /\ sessions' = sessions /\ mainHand' = mainHand /\ mainPc' = mainPc
        /\ proc' = proc
    BY <1>2 DEF ScreenNext, ScreenRecv, ScreenApply, ScreenRequestRender, vars,
                ptyVars, mainVars
  <2> QED
    BY <2>1, <1>0, ManagedFrame
<1>3. CASE \/ MainDrain \/ MainDrained \/ MainRender \/ MainPollTimeout
           \/ MainKey \/ MainQuit
  <2>1. /\ sessions' = sessions /\ mainHand' = mainHand /\ proc' = proc
        /\ mainPc' # "done" \/ mainPc' = mainPc
    BY <1>3 DEF MainDrain, MainDrained, MainRender, MainPollTimeout, MainKey,
                MainQuit, ptyVars
  <2> QED
    BY <2>1, <1>0, ManagedFrame
<1>4. ASSUME NEW s \in Sessions, NEW sz \in Sizes, MainRenderResizing(s, sz)
      PROVE  OnlyFailedLaunchesOutlive'
  <2>1. /\ sessions' = sessions /\ mainPc' = mainPc /\ proc' = proc
        /\ mainPc = "render" /\ mainHand = <<>>
    BY <1>4 DEF MainRenderResizing
  <2> QED
    BY <2>1, <1>0, ManagedFrame
<1>5. ASSUME NEW s \in Sessions, MainLaunch(s) PROVE OnlyFailedLaunchesOutlive'
  <2>1. /\ sessions' = sessions /\ mainPc' = mainPc /\ mainPc = "poll"
        /\ mainHand = <<>> /\ mainHand' = <<Started(s)>>
        /\ proc' = [proc EXCEPT ![s] = "running"]
    BY <1>5 DEF MainLaunch
  <2>2. \A t \in Sessions : t # s => proc'[t] = proc[t]
    BY <2>1 DEF TypeOK
  <2> QED
    BY <1>0, <2>1, <2>2 DEF OnlyFailedLaunchesOutlive
<1>6. ASSUME NEW s \in Sessions, NEW ok \in BOOLEAN,
             MainClose(s, ok) \/ ShutdownTerminate(s, ok)
      PROVE  OnlyFailedLaunchesOutlive'
  <2>1. /\ mainHand = <<>> /\ mainPc # "done" /\ mainPc' # "done"
        /\ sessions' = sessions \ {s} /\ proc' = [proc EXCEPT ![s] = "exited"]
    BY <1>6 DEF MainClose, ShutdownTerminate, Terminate
  <2>2. /\ proc'[s] = "exited"
        /\ \A t \in Sessions : t # s => proc'[t] = proc[t]
    BY <2>1 DEF TypeOK
  <2> QED
    BY <1>0, <2>1, <2>2 DEF OnlyFailedLaunchesOutlive
<1>7. CASE ShutdownDone
  BY <1>0, <1>7 DEF ShutdownDone, ptyVars, OnlyFailedLaunchesOutlive
<1>8. CASE MainSend
  <2> DEFINE e == Head(mainHand)
  <2>1. /\ mainHand # <<>> /\ mainHand' = <<>> /\ proc' = proc
        /\ mainPc' # "done" \/ mainPc' = mainPc
        /\ sessions' = IF e.type = "started" THEN sessions \cup {e.session}
                                             ELSE sessions
    BY <1>8 DEF MainSend, ptyVars
  <2>2. \A s \in Sessions : mainHand = <<Started(s)>> =>
          e.type = "started" /\ e.session = s
    BY DEF Started
  <2>3. \A s \in Sessions : s \in sessions => s \in sessions'
    BY <2>1
  <2> HIDE DEF e
  <2> QED
    BY <1>0, <2>1, <2>2, <2>3 DEF OnlyFailedLaunchesOutlive
<1>9. ASSUME NEW s \in Sessions, MainLaunchFails(s) PROVE OnlyFailedLaunchesOutlive'
  <2>1. /\ sessions' = sessions /\ mainPc = "poll" /\ mainPc' = "drain"
        /\ mainHand' = mainHand /\ mainHand = <<>> /\ proc[s] = "none" /\ reader' = reader
        /\ proc' = [proc EXCEPT ![s] = "running"]
    BY <1>9 DEF MainLaunchFails, threadVars
  <2>2. \A t \in Sessions : t # s => proc'[t] = proc[t]
    BY <2>1 DEF TypeOK
  <2>3. LaunchFailed(s)'
    BY <2>1 DEF TypeOK, ReadersNeedChildren, ReaderNeedsChild, LaunchFailed
  <2> QED
    BY <1>0, <2>1, <2>2, <2>3 DEF OnlyFailedLaunchesOutlive
<1> QED
  BY <1>1, <1>2, <1>3, <1>4, <1>5, <1>6, <1>7, <1>8, <1>9
     DEF Next, MainLoop, User, Finished

(* When the application has ended, a child that still runs is one whose    *)
(* launch failed after it was started; no other is ever out of the table.  *)
THEOREM QuitEndsTheOthers == Spec => []OnlyFailedLaunchesOutlive
<1>1. Init => OnlyFailedLaunchesOutlive /\ ReadersNeedChildren
  BY DEF Init, OnlyFailedLaunchesOutlive, ReadersNeedChildren, ReaderNeedsChild
<1>2. TypeOK /\ ReadersNeedChildren /\ [Next]_vars => ReadersNeedChildren'
  BY ReadersStart DEF ReadersNeedChildren
<1> QED
  BY <1>1, <1>2, InitTyping, TypingPreserved, ManagedPreserved, PTL DEF Spec

-----------------------------------------------------------------------------
(* The screens of live sessions                                            *)
(*                                                                         *)
(* Whatever joins the way to the screen or leaves it is one event inserted *)
(* into a sequence or removed from it.  The operators below say what the   *)
(* properties need to know of such a sequence w of events, and the lemmas  *)
(* how that changes when w becomes v by an insertion.                      *)

Mentions(w, s) == \E i \in 1..Len(w) : w[i].session = s
Ends(w, s) == \E i \in 1..Len(w) : w[i].type = "exited" /\ w[i].session = s

(* The first event about s opens its screen.                               *)
Opens(w, s) ==
  \E i \in 1..Len(w) : /\ w[i].type = "started" /\ w[i].session = s
                       /\ \A j \in 1..Len(w) : j < i => w[j].session # s

(* The last resize of s in w has the size pty; without one, sz is pty.     *)
IsResize(e, s) == e.type = "resize" /\ e.session = s

Settles(w, s, sz, pty) ==
  /\ (\A i \in 1..Len(w) : ~IsResize(w[i], s)) => sz = pty
  /\ \A i \in 1..Len(w) :
       IsResize(w[i], s) /\ (\A j \in 1..Len(w) : IsResize(w[j], s) => j <= i)
         => w[i].size = pty

(* v is w with e after its first k elements; Up maps the positions of w.   *)
Inserted(w, v, k, e) ==
  /\ Len(w) \in Nat /\ k \in 0..Len(w) /\ Len(v) = Len(w) + 1
  /\ \A i \in 1..k : v[i] = w[i]
  /\ v[k + 1] = e
  /\ \A i \in (k + 1)..Len(w) : v[i + 1] = w[i]

Up(k, i) == IF i <= k THEN i ELSE i + 1

LEMMA InsertedMap ==
  ASSUME NEW w, NEW v, NEW k, NEW e, Inserted(w, v, k, e)
  PROVE  /\ k + 1 \in 1..Len(v) /\ v[k + 1] = e /\ k \in Nat /\ Len(w) \in Nat
         /\ \A i \in 1..Len(w) : /\ Up(k, i) \in 1..Len(v) /\ v[Up(k, i)] = w[i]
                                 /\ Up(k, i) # k + 1
         /\ \A i, j \in 1..Len(w) : i <= j <=> Up(k, i) <= Up(k, j)
         /\ \A j \in 1..Len(v) : j # k + 1 => \E i \in 1..Len(w) : j = Up(k, i)
<1>1. /\ Len(w) \in Nat /\ k \in 0..Len(w) /\ Len(v) = Len(w) + 1
      /\ v[k + 1] = e /\ k \in Nat
  BY DEF Inserted
<1>2. ASSUME NEW i \in 1..Len(w)
      PROVE  /\ Up(k, i) \in 1..Len(v) /\ v[Up(k, i)] = w[i] /\ Up(k, i) # k + 1
  <2>1. CASE i <= k
    BY <1>1, <1>2, <2>1 DEF Up, Inserted
  <2>2. CASE ~(i <= k)
    <3>1. i \in (k + 1)..Len(w)
      BY <1>1, <1>2, <2>2
    <3> QED
      BY <1>1, <2>2, <3>1 DEF Up, Inserted
  <2> QED
    BY <2>1, <2>2
<1>3. \A i, j \in 1..Len(w) : i <= j <=> Up(k, i) <= Up(k, j)
  BY <1>1 DEF Up
<1>4. ASSUME NEW j \in 1..Len(v), j # k + 1
      PROVE  \E i \in 1..Len(w) : j = Up(k, i)
  <2>1. CASE j <= k
    BY <1>1, <1>4, <2>1 DEF Up
  <2>2. CASE ~(j <= k)
    <3>1. j - 1 \in 1..Len(w) /\ j = Up(k, j - 1)
      BY <1>1, <1>4, <2>2 DEF Up
    <3> QED
      BY <3>1
  <2> QED
    BY <2>1, <2>2
<1> QED
  BY <1>1, <1>2, <1>3, <1>4

LEMMA InsertedMentions ==
  ASSUME NEW w, NEW v, NEW k, NEW e, NEW s, Inserted(w, v, k, e)
  PROVE  /\ Mentions(v, s) <=> Mentions(w, s) \/ e.session = s
         /\ Ends(v, s) <=> Ends(w, s) \/ (e.type = "exited" /\ e.session = s)
<1>1. /\ k + 1 \in 1..Len(v) /\ v[k + 1] = e
      /\ \A i \in 1..Len(w) : Up(k, i) \in 1..Len(v) /\ v[Up(k, i)] = w[i]
      /\ \A j \in 1..Len(v) : j = k + 1 \/ \E i \in 1..Len(w) : j = Up(k, i)
  BY InsertedMap
<1>2. Mentions(v, s) <=> Mentions(w, s) \/ e.session = s
  <2>1. ASSUME Mentions(v, s) PROVE Mentions(w, s) \/ e.session = s
    BY <1>1, <2>1 DEF Mentions
  <2>2. ASSUME Mentions(w, s) \/ e.session = s PROVE Mentions(v, s)
    BY <1>1, <2>2 DEF Mentions
  <2> QED
    BY <2>1, <2>2
<1>3. Ends(v, s) <=> Ends(w, s) \/ (e.type = "exited" /\ e.session = s)
  <2>1. ASSUME Ends(v, s) PROVE Ends(w, s) \/ (e.type = "exited" /\ e.session = s)
    BY <1>1, <2>1 DEF Ends
  <2>2. ASSUME Ends(w, s) \/ (e.type = "exited" /\ e.session = s) PROVE Ends(v, s)
    BY <1>1, <2>2 DEF Ends
  <2> QED
    BY <2>1, <2>2
<1> QED
  BY <1>2, <1>3

(* An event about another session neither opens nor delays a screen.       *)
LEMMA InsertedElsewhere ==
  ASSUME NEW w, NEW v, NEW k, NEW e, NEW s, Inserted(w, v, k, e), e.session # s
  PROVE  Opens(v, s) <=> Opens(w, s)
<1>1. ASSUME Opens(w, s) PROVE Opens(v, s)
  <2>1. PICK i \in 1..Len(w) : /\ w[i].type = "started" /\ w[i].session = s
                               /\ \A j \in 1..Len(w) : j < i => w[j].session # s
    BY <1>1 DEF Opens
  <2>2. ASSUME NEW j \in 1..Len(v), j < Up(k, i), v[j].session = s
        PROVE  FALSE
    <3>0. j # k + 1
      BY <2>2, InsertedMap
    <3>1. PICK a \in 1..Len(w) : j = Up(k, a)
      BY <2>2, <3>0, InsertedMap
    <3>2. a < i
      <4>1. ~(i <= a)
        <5>1. Up(k, i) \in 1..Len(v)
          BY InsertedMap
        <5>2. ~(Up(k, i) <= Up(k, a))
          BY <2>2, <3>1, <5>1, InsertedMap
        <5> QED
          BY <5>2, InsertedMap
      <4> QED
        BY <4>1, InsertedMap
    <3> QED
      BY <2>1, <2>2, <3>1, <3>2, InsertedMap
  <2>3. /\ Up(k, i) \in 1..Len(v)
        /\ v[Up(k, i)].type = "started" /\ v[Up(k, i)].session = s
    BY <2>1, InsertedMap
  <2> QED
    BY <2>2, <2>3 DEF Opens
<1>2. ASSUME Opens(v, s) PROVE Opens(w, s)
  <2>1. PICK i \in 1..Len(v) : /\ v[i].type = "started" /\ v[i].session = s
                               /\ \A j \in 1..Len(v) : j < i => v[j].session # s
    BY <1>2 DEF Opens
  <2>2. PICK a \in 1..Len(w) : i = Up(k, a)
    BY <2>1, InsertedMap
  <2>3. ASSUME NEW b \in 1..Len(w), b < a PROVE w[b].session # s
    <3>1. /\ Up(k, a) \in 1..Len(v) /\ Up(k, b) \in 1..Len(v)
          /\ ~(Up(k, a) <= Up(k, b))
      BY <2>3, InsertedMap
    <3>2. Up(k, b) < i
      BY <2>2, <3>1, InsertedMap
    <3> QED
      BY <2>1, <3>1, <3>2, InsertedMap
  <2> QED
    BY <2>1, <2>2, <2>3, InsertedMap DEF Opens
<1> QED
  BY <1>1, <1>2

(* Only a resize of s changes what its screen settles to.                  *)
LEMMA InsertedSettles ==
  ASSUME NEW w, NEW v, NEW k, NEW e, NEW s, NEW sz, NEW pty,
         Inserted(w, v, k, e), ~IsResize(e, s)
  PROVE  Settles(v, s, sz, pty) <=> Settles(w, s, sz, pty)
<1>1. (\A i \in 1..Len(w) : ~IsResize(w[i], s)) <=> (\A i \in 1..Len(v) : ~IsResize(v[i], s))
  BY InsertedMap
<1> DEFINE Last(u, i) == IsResize(u[i], s) /\ \A j \in 1..Len(u) : IsResize(u[j], s) => j <= i
<1>2. ASSUME NEW i \in 1..Len(w) PROVE Last(w, i) <=> Last(v, Up(k, i))
  <2>1. ASSUME Last(w, i) PROVE Last(v, Up(k, i))
    <3>1. IsResize(v[Up(k, i)], s)
      BY <2>1, InsertedMap
    <3>2. ASSUME NEW j \in 1..Len(v), IsResize(v[j], s) PROVE j <= Up(k, i)
      <4>1. j # k + 1
        BY <3>2, InsertedMap
      <4>2. PICK a \in 1..Len(w) : j = Up(k, a)
        BY <4>1, InsertedMap
      <4>3. IsResize(w[a], s)
        BY <3>2, <4>2, InsertedMap
      <4>4. a <= i
        BY <2>1, <4>3
      <4> QED
        BY <4>2, <4>4, InsertedMap
    <3> QED
      BY <3>1, <3>2
  <2>2. ASSUME Last(v, Up(k, i)) PROVE Last(w, i)
    BY <2>2, InsertedMap
  <2> QED
    BY <2>1, <2>2
<1>3. \A j \in 1..Len(v) : Last(v, j) => \E i \in 1..Len(w) : j = Up(k, i)
  BY InsertedMap
<1>4. \A u : Settles(u, s, sz, pty) <=>
        /\ (\A i \in 1..Len(u) : ~IsResize(u[i], s)) => sz = pty
        /\ \A i \in 1..Len(u) : Last(u, i) => u[i].size = pty
  BY DEF Settles
<1> HIDE DEF Last
<1>5. ASSUME \A i \in 1..Len(w) : Last(w, i) => w[i].size = pty
      PROVE  \A i \in 1..Len(v) : Last(v, i) => v[i].size = pty
  BY <1>2, <1>3, <1>5, InsertedMap
<1>6. ASSUME \A i \in 1..Len(v) : Last(v, i) => v[i].size = pty
      PROVE  \A i \in 1..Len(w) : Last(w, i) => w[i].size = pty
  BY <1>2, <1>6, InsertedMap
<1> QED
  BY <1>1, <1>4, <1>5, <1>6

LEMMA AppendInserts ==
  ASSUME NEW w \in Seq(Event), NEW e \in Event
  PROVE  Inserted(w, Append(w, e), Len(w), e)
BY DEF Inserted

(* An event about s that comes last does not overtake its opening; a       *)
(* resize that comes last decides; and the first event of s may open it.   *)
LEMMA AppendedLast ==
  ASSUME NEW w, NEW v, NEW e, NEW s, Inserted(w, v, Len(w), e)
  PROVE  /\ Opens(w, s) => Opens(v, s)
         /\ IsResize(e, s) => \A sz : Settles(v, s, sz, e.size)
         /\ e.type = "started" /\ e.session = s /\ ~Mentions(w, s) => Opens(v, s)
<1>1. /\ Len(w) \in Nat /\ Len(v) = Len(w) + 1 /\ v[Len(w) + 1] = e
      /\ \A i \in 1..Len(w) : v[i] = w[i]
  BY DEF Inserted
<1>2. Opens(w, s) => Opens(v, s)
  <2> SUFFICES ASSUME Opens(w, s) PROVE Opens(v, s)
    OBVIOUS
  <2>1. PICK i \in 1..Len(w) : /\ w[i].type = "started" /\ w[i].session = s
                               /\ \A j \in 1..Len(w) : j < i => w[j].session # s
    BY DEF Opens
  <2>2. \A j \in 1..Len(v) : j < i => j \in 1..Len(w)
    BY <1>1
  <2>3. i \in 1..Len(v)
    BY <1>1
  <2> QED
    BY <1>1, <2>1, <2>2, <2>3 DEF Opens
<1>3. IsResize(e, s) => \A sz : Settles(v, s, sz, e.size)
  <2> SUFFICES ASSUME IsResize(e, s), NEW sz PROVE Settles(v, s, sz, e.size)
    OBVIOUS
  <2>1. Len(v) \in 1..Len(v) /\ v[Len(v)] = e
    BY <1>1
  <2>2. \A i \in 1..Len(v) : Len(v) <= i => i = Len(v)
    BY <1>1
  <2> QED
    BY <2>1, <2>2 DEF Settles
<1>4. ASSUME e.type = "started", e.session = s, ~Mentions(w, s) PROVE Opens(v, s)
  <2>1. Len(v) \in 1..Len(v) /\ v[Len(v)] = e
    BY <1>1
  <2>2. \A j \in 1..Len(v) : j < Len(v) => j \in 1..Len(w)
    BY <1>1
  <2> QED
    BY <1>1, <1>4, <2>1, <2>2 DEF Opens, Mentions
<1> QED
  BY <1>2, <1>3, <1>4

(* What the arrival of the first event e of v tells about s.               *)
LEMMA FirstArrives ==
  ASSUME NEW w, NEW v, NEW e, NEW s, Inserted(w, v, 0, e), e.session = s
  PROVE  /\ Opens(v, s) => e.type = "started"
         /\ IsResize(e, s) =>
              \A sz, pty : Settles(v, s, sz, pty) => Settles(w, s, e.size, pty)
<1>1. /\ Len(w) \in Nat /\ Len(v) = Len(w) + 1 /\ v[1] = e /\ 1 \in 1..Len(v)
      /\ \A i \in 1..Len(w) : v[i + 1] = w[i] /\ i + 1 \in 1..Len(v)
      /\ \A i \in 1..Len(v) : i # 1 => i - 1 \in 1..Len(w) /\ v[i] = w[i - 1]
  <2>1. /\ Len(w) \in Nat /\ Len(v) = Len(w) + 1 /\ v[1] = e
        /\ \A i \in 1..Len(w) : v[i + 1] = w[i]
    BY DEF Inserted
  <2>2. \A i \in 1..Len(v) : i # 1 => i - 1 \in 1..Len(w) /\ (i - 1) + 1 = i
    BY <2>1
  <2> QED
    BY <2>1, <2>2
<1>2. Opens(v, s) => e.type = "started"
  <2> SUFFICES ASSUME NEW i \in 1..Len(v), v[i].type = "started",
                      \A j \in 1..Len(v) : j < i => v[j].session # s
               PROVE  e.type = "started"
    BY DEF Opens
  <2>1. i = 1 \/ 1 < i
    BY <1>1
  <2> QED
    BY <1>1, <2>1
<1>3. ASSUME IsResize(e, s), NEW sz, NEW pty, Settles(v, s, sz, pty)
      PROVE  Settles(w, s, e.size, pty)
  <2>1. ASSUME \A i \in 1..Len(w) : ~IsResize(w[i], s) PROVE e.size = pty
    <3>1. \A j \in 1..Len(v) : IsResize(v[j], s) => j = 1
      BY <1>1, <2>1
    <3> QED
      BY <1>1, <1>3, <3>1 DEF Settles
  <2>2. ASSUME NEW i \in 1..Len(w), IsResize(w[i], s),
               \A j \in 1..Len(w) : IsResize(w[j], s) => j <= i
        PROVE  w[i].size = pty
    <3>1. \A j \in 1..Len(v) : IsResize(v[j], s) => j <= i + 1
      <4> SUFFICES ASSUME NEW j \in 1..Len(v), IsResize(v[j], s) PROVE j <= i + 1
        OBVIOUS
      <4>1. CASE j = 1
        BY <4>1, <1>1
      <4>2. CASE j # 1
        <5>1. j - 1 <= i
          BY <1>1, <2>2, <4>2
        <5> QED
          BY <1>1, <5>1
      <4> QED
        BY <4>1, <4>2
    <3> QED
      BY <1>1, <1>3, <2>2, <3>1 DEF Settles
  <2> QED
    BY <2>1, <2>2 DEF Settles
<1> QED
  BY <1>2, <1>3

(* Everything on its way to the screen, the next to arrive first.          *)
Way == screenHand \o events \o mainHand

(* Launched, and about to enter the table.                                 *)
Entering(s) ==
  \E i \in 1..Len(mainHand) : mainHand[i].type = "started" /\ mainHand[i].session = s

Unborn(s) ==
  /\ ~Mentions(Way, s) /\ s \notin sessions /\ s \notin screens
  /\ applied[s] = <<>> /\ ptySize[s] = InitialSize /\ fwd[s] = "none"

LiveInOrder(s) ==
  /\ ~Ends(Way, s)
  /\ s \in screens \/ Opens(Way, s)
  /\ text[s] = applied[s]
  /\ Settles(Way, s, size[s], ptySize[s])

ScreenFollows(s) ==
  /\ proc[s] = "none" => Unborn(s)
  /\ fwd[s] = "none" => fwdHand[s] = 0
  /\ Entering(s) => fwd[s] = "none"
  /\ s \notin screens => text[s] = <<>> /\ size[s] = InitialSize
  /\ s \in sessions \/ Entering(s) => LiveInOrder(s)

LEMMA ThreeParts ==
  ASSUME NEW a \in Seq(Event), NEW b \in Seq(Event), NEW c \in Seq(Event)
  PROVE  /\ a \o b \o c \in Seq(Event)
         /\ Len(a) \in Nat /\ Len(b) \in Nat /\ Len(c) \in Nat
         /\ Len(a \o b \o c) = Len(a) + Len(b) + Len(c)
         /\ \A i \in 1..Len(a) : (a \o b \o c)[i] = a[i]
         /\ \A i \in 1..Len(b) : (a \o b \o c)[Len(a) + i] = b[i]
         /\ \A i \in 1..Len(c) : (a \o b \o c)[Len(a) + Len(b) + i] = c[i]
<1>1. Len(a) \in Nat /\ Len(b) \in Nat /\ Len(c) \in Nat
  BY LenProperties
<1>2. /\ a \o b \in Seq(Event) /\ Len(a \o b) = Len(a) + Len(b)
      /\ \A i \in 1..Len(a) + Len(b) :
           (a \o b)[i] = IF i <= Len(a) THEN a[i] ELSE b[i - Len(a)]
  BY ConcatProperties
<1>3. /\ (a \o b) \o c \in Seq(Event)
      /\ Len((a \o b) \o c) = Len(a \o b) + Len(c)
      /\ \A i \in 1..Len(a \o b) + Len(c) :
           ((a \o b) \o c)[i] = IF i <= Len(a \o b) THEN (a \o b)[i] ELSE c[i - Len(a \o b)]
  BY <1>2, ConcatProperties
<1>4. \A i \in 1..Len(a) : (a \o b \o c)[i] = a[i]
  BY <1>1, <1>2, <1>3
<1>5. \A i \in 1..Len(b) : (a \o b \o c)[Len(a) + i] = b[i]
  <2> SUFFICES ASSUME NEW i \in 1..Len(b) PROVE (a \o b \o c)[Len(a) + i] = b[i]
    OBVIOUS
  <2>1. /\ Len(a) + i \in 1..Len(a) + Len(b) /\ ~(Len(a) + i <= Len(a))
        /\ (Len(a) + i) - Len(a) = i /\ Len(a) + i \in 1..(Len(a) + Len(b)) + Len(c)
        /\ Len(a) + i <= Len(a) + Len(b)
    BY <1>1
  <2> QED
    BY <1>2, <1>3, <2>1
<1>6. \A i \in 1..Len(c) : (a \o b \o c)[Len(a) + Len(b) + i] = c[i]
  <2> SUFFICES ASSUME NEW i \in 1..Len(c)
               PROVE  (a \o b \o c)[Len(a) + Len(b) + i] = c[i]
    OBVIOUS
  <2>1. /\ Len(a) + Len(b) + i \in 1..(Len(a) + Len(b)) + Len(c)
        /\ ~(Len(a) + Len(b) + i <= Len(a) + Len(b))
        /\ (Len(a) + Len(b) + i) - (Len(a) + Len(b)) = i
    BY <1>1
  <2> QED
    BY <1>2, <1>3, <2>1
<1> QED
  BY <1>1, <1>2, <1>3, <1>4, <1>5, <1>6

(* An event that joins the end of the middle part.                         *)
LEMMA MiddleGrows ==
  ASSUME NEW a \in Seq(Event), NEW b \in Seq(Event), NEW c \in Seq(Event), NEW e \in Event
  PROVE  Inserted(a \o b \o c, a \o Append(b, e) \o c, Len(a) + Len(b), e)
<1> DEFINE d == Append(b, e)
           w == a \o b \o c
           v == a \o d \o c
<1>1. /\ d \in Seq(Event) /\ Len(d) = Len(b) + 1 /\ d[Len(b) + 1] = e
      /\ \A i \in 1..Len(b) : d[i] = b[i]
  OBVIOUS
<1> HIDE DEF d
<1>2. /\ Len(a) \in Nat /\ Len(b) \in Nat /\ Len(c) \in Nat
      /\ Len(w) = Len(a) + Len(b) + Len(c) /\ Len(v) = Len(a) + Len(d) + Len(c)
      /\ \A i \in 1..Len(a) : w[i] = a[i] /\ v[i] = a[i]
      /\ \A i \in 1..Len(b) : w[Len(a) + i] = b[i]
      /\ \A i \in 1..Len(d) : v[Len(a) + i] = d[i]
      /\ \A i \in 1..Len(c) : w[Len(a) + Len(b) + i] = c[i]
      /\ \A i \in 1..Len(c) : v[Len(a) + Len(d) + i] = c[i]
  <2>1. /\ Len(a) \in Nat /\ Len(b) \in Nat /\ Len(c) \in Nat
        /\ Len(w) = Len(a) + Len(b) + Len(c)
        /\ \A i \in 1..Len(a) : w[i] = a[i]
        /\ \A i \in 1..Len(b) : w[Len(a) + i] = b[i]
        /\ \A i \in 1..Len(c) : w[Len(a) + Len(b) + i] = c[i]
    BY ThreeParts
  <2>2. /\ Len(v) = Len(a) + Len(d) + Len(c)
        /\ \A i \in 1..Len(a) : v[i] = a[i]
        /\ \A i \in 1..Len(d) : v[Len(a) + i] = d[i]
        /\ \A i \in 1..Len(c) : v[Len(a) + Len(d) + i] = c[i]
    <3>1. d \in Seq(Event)
      BY <1>1
    <3> QED
      BY <3>1, ThreeParts
  <2> QED
    BY <2>1, <2>2
<1> HIDE DEF w, v
<1>3. /\ Len(a) \in Nat /\ Len(b) \in Nat /\ Len(c) \in Nat /\ Len(d) = Len(b) + 1
      /\ Len(w) = Len(a) + Len(b) + Len(c) /\ Len(v) = Len(a) + Len(d) + Len(c)
  BY <1>1, <1>2
<1>4. ASSUME NEW i \in 1..(Len(a) + Len(b)) PROVE v[i] = w[i]
  <2>1. CASE i <= Len(a)
    BY <1>2, <2>1
  <2>2. CASE ~(i <= Len(a))
    <3>0. i - Len(a) \in Int
      BY <1>3, <1>4
    <3>1. PICK j \in Int : j = i - Len(a)
      BY <3>0, Zenon
    <3>2. j \in 1..Len(b) /\ j \in 1..Len(d) /\ Len(a) + j = i
      BY <1>3, <1>4, <2>2, <3>1
    <3>3. v[Len(a) + j] = d[j] /\ w[Len(a) + j] = b[j] /\ d[j] = b[j]
      BY <1>1, <1>2, <3>2
    <3> QED
      BY <3>2, <3>3
  <2> QED
    BY <2>1, <2>2
<1>5. v[Len(a) + Len(b) + 1] = e
  <2>1. Len(b) + 1 \in 1..Len(d) /\ Len(a) + (Len(b) + 1) = Len(a) + Len(b) + 1
    BY <1>3
  <2>2. v[Len(a) + (Len(b) + 1)] = d[Len(b) + 1]
    BY <1>2, <2>1
  <2> QED
    BY <1>1, <2>1, <2>2
<1>6. ASSUME NEW i \in (Len(a) + Len(b) + 1)..Len(w) PROVE v[i + 1] = w[i]
  <2>0. i - (Len(a) + Len(b)) \in Int
    BY <1>3, <1>6
  <2>1. PICK j \in Int : j = i - (Len(a) + Len(b))
    BY <2>0, Zenon
  <2>2. j \in 1..Len(c) /\ Len(a) + Len(b) + j = i /\ Len(a) + Len(d) + j = i + 1
    BY <1>3, <1>6, <2>1
  <2>3. v[Len(a) + Len(d) + j] = c[j] /\ w[Len(a) + Len(b) + j] = c[j]
    BY <1>2, <2>2
  <2> QED
    BY <2>2, <2>3
<1>7. /\ Len(w) \in Nat /\ Len(a) + Len(b) \in 0..Len(w) /\ Len(v) = Len(w) + 1
  BY <1>3
<1>8. Inserted(w, v, Len(a) + Len(b), e)
  BY <1>4, <1>5, <1>6, <1>7 DEF Inserted
<1> QED
  BY <1>8 DEF d, w, v

LEMMA OneEvent ==
  ASSUME NEW e \in Event
  PROVE  <<e>> \in Seq(Event) /\ Len(<<e>>) = 1 /\ <<e>>[1] = e
OBVIOUS

(* The first event leaves.                                                 *)
LEMMA FirstLeaves ==
  ASSUME NEW b \in Seq(Event), NEW c \in Seq(Event), NEW e \in Event
  PROVE  Inserted(<<>> \o b \o c, <<e>> \o b \o c, 0, e)
<1>1. <<>> \in Seq(Event) /\ Len(<<>>) = 0
  OBVIOUS
<1> DEFINE n == <<>>
           h == <<e>>
           w == n \o b \o c
           v == h \o b \o c
<1>2. /\ h \in Seq(Event) /\ Len(h) = 1 /\ h[1] = e /\ n \in Seq(Event) /\ Len(n) = 0
  BY <1>1, OneEvent
<1> HIDE DEF h, n
<1>3. /\ Len(b) \in Nat /\ Len(c) \in Nat
      /\ Len(w) = Len(n) + Len(b) + Len(c) /\ Len(v) = Len(h) + Len(b) + Len(c)
      /\ \A i \in 1..Len(h) : v[i] = h[i]
      /\ \A i \in 1..Len(b) : w[Len(n) + i] = b[i] /\ v[Len(h) + i] = b[i]
      /\ \A i \in 1..Len(c) : w[Len(n) + Len(b) + i] = c[i] /\ v[Len(h) + Len(b) + i] = c[i]
  <2>1. /\ Len(b) \in Nat /\ Len(c) \in Nat
        /\ Len(w) = Len(n) + Len(b) + Len(c)
        /\ \A i \in 1..Len(b) : w[Len(n) + i] = b[i]
        /\ \A i \in 1..Len(c) : w[Len(n) + Len(b) + i] = c[i]
    BY <1>2, ThreeParts
  <2>2. /\ Len(v) = Len(h) + Len(b) + Len(c)
        /\ \A i \in 1..Len(h) : v[i] = h[i]
        /\ \A i \in 1..Len(b) : v[Len(h) + i] = b[i]
        /\ \A i \in 1..Len(c) : v[Len(h) + Len(b) + i] = c[i]
    <3>1. h \in Seq(Event)
      BY <1>2
    <3> QED
      BY <3>1, ThreeParts
  <2> QED
    BY <2>1, <2>2
<1> HIDE DEF w, v
<1>4. /\ Len(n) = 0 /\ Len(h) = 1 /\ Len(b) \in Nat /\ Len(c) \in Nat
      /\ Len(w) = Len(n) + Len(b) + Len(c) /\ Len(v) = Len(h) + Len(b) + Len(c)
  BY <1>2, <1>3
<1>5. ASSUME NEW i \in 1..Len(w) PROVE v[i + 1] = w[i]
  <2>1. CASE i <= Len(b)
    <3>1. i \in 1..Len(b) /\ Len(n) + i = i /\ Len(h) + i = i + 1
      BY <1>4, <1>5, <2>1
    <3> QED
      BY <1>3, <3>1
  <2>2. CASE ~(i <= Len(b))
    <3>0. i - Len(b) \in Int
      BY <1>4, <1>5
    <3>1. PICK j \in Int : j = i - Len(b)
      BY <3>0, Zenon
    <3>2. j \in 1..Len(c) /\ Len(n) + Len(b) + j = i /\ Len(h) + Len(b) + j = i + 1
      BY <1>4, <1>5, <2>2, <3>1
    <3>3. w[Len(n) + Len(b) + j] = c[j] /\ v[Len(h) + Len(b) + j] = c[j]
      BY <1>3, <3>2
    <3> QED
      BY <3>2, <3>3
  <2> QED
    BY <2>1, <2>2
<1>6. Len(w) \in Nat /\ 0 \in 0..Len(w) /\ Len(v) = Len(w) + 1 /\ v[0 + 1] = e
  <2>1. Len(w) \in Nat /\ 0 \in 0..Len(w) /\ Len(v) = Len(w) + 1 /\ 1 \in 1..Len(h)
    BY <1>4
  <2>2. v[1] = e
    BY <1>2, <1>3, <2>1
  <2> QED
    BY <2>1, <2>2
<1>7. Inserted(w, v, 0, e)
  BY <1>5, <1>6 DEF Inserted
<1> QED
  BY <1>7 DEF w, v, h, n

(* An event that the main thread takes in hand comes last.                 *)
LEMMA HandIsLast ==
  ASSUME NEW a \in Seq(Event), NEW b \in Seq(Event), NEW e \in Event
  PROVE  LET w == a \o b \o <<>> IN Inserted(w, a \o b \o <<e>>, Len(w), e)
<1>1. a \o b \in Seq(Event) /\ Len(a \o b) \in Nat
  BY ConcatProperties, LenProperties
<1>2. (a \o b) \o <<>> = a \o b
  BY <1>1, ConcatEmptySeq
<1>3. Append(a \o b, e) = (a \o b) \o <<e>>
  BY <1>1, AppendIsConcat
<1>4. Inserted(a \o b, Append(a \o b, e), Len(a \o b), e)
  BY <1>1, AppendInserts
<1> QED
  BY <1>2, <1>3, <1>4

(* What a step leaves as it was for t: its own state, and what the way to  *)
(* the screen says of it.                                                  *)
Still(t) ==
  /\ proc'[t] = "none" => proc[t] = "none"
  /\ t \in screens' <=> t \in screens
  /\ text'[t] = text[t] /\ size'[t] = size[t] /\ applied'[t] = applied[t]
  /\ ptySize'[t] = ptySize[t]
  /\ fwd'[t] = "none" <=> fwd[t] = "none"
  /\ fwd[t] = "none" => fwdHand'[t] = fwdHand[t]
  /\ t \in sessions' => t \in sessions
  /\ Entering(t)' => Entering(t)

SameWay(t) ==
  /\ Mentions(Way', t) <=> Mentions(Way, t)
  /\ Ends(Way', t) <=> Ends(Way, t)
  /\ Opens(Way', t) <=> Opens(Way, t)
  /\ \A sz, pty : Settles(Way', t, sz, pty) <=> Settles(Way, t, sz, pty)

LEMMA FollowsFrame ==
  ASSUME NEW t \in Sessions, ScreenFollows(t), Still(t), SameWay(t)
  PROVE  ScreenFollows(t)'
<1>1. /\ (proc[t] = "none" => Unborn(t)) /\ (fwd[t] = "none" => fwdHand[t] = 0)
      /\ (Entering(t) => fwd[t] = "none")
      /\ (t \notin screens => text[t] = <<>> /\ size[t] = InitialSize)
      /\ (t \in sessions \/ Entering(t) => LiveInOrder(t))
  BY DEF ScreenFollows
<1>2. Unborn(t) => Unborn(t)'
  BY DEF Unborn, Still, SameWay
<1>3. LiveInOrder(t) => LiveInOrder(t)'
  BY DEF LiveInOrder, Still, SameWay
<1> QED
  BY <1>1, <1>2, <1>3 DEF ScreenFollows, Still

LEMMA SameWayKept ==
  ASSUME NEW t, Way' = Way
  PROVE  SameWay(t)
BY DEF SameWay

LEMMA SameWayElsewhere ==
  ASSUME NEW t, NEW k, NEW e, e.session # t,
         Inserted(Way, Way', k, e) \/ Inserted(Way', Way, k, e)
  PROVE  SameWay(t)
<1>1. ~IsResize(e, t)
  BY DEF IsResize
<1>2. CASE Inserted(Way, Way', k, e)
  BY <1>1, <1>2, InsertedMentions, InsertedElsewhere, InsertedSettles DEF SameWay
<1>3. CASE Inserted(Way', Way, k, e)
  BY <1>1, <1>3, InsertedMentions, InsertedElsewhere, InsertedSettles DEF SameWay
<1> QED
  BY <1>2, <1>3

LEMMA WayParts ==
  ASSUME TypeOK
  PROVE  /\ screenHand \in Seq(Event) /\ events \in Seq(Event) /\ mainHand \in Seq(Event)
         /\ Way \in Seq(Event) /\ Len(Way) \in Nat
         /\ \A i \in 1..Len(screenHand) : i \in 1..Len(Way) /\ Way[i] = screenHand[i]
         /\ \A i \in 1..Len(mainHand) :
              /\ Len(screenHand) + Len(events) + i \in 1..Len(Way)
              /\ Way[Len(screenHand) + Len(events) + i] = mainHand[i]
<1>1. screenHand \in Seq(Event) /\ events \in Seq(Event) /\ mainHand \in Seq(Event)
  BY DEF TypeOK
<1>2. /\ Way \in Seq(Event) /\ Len(Way) = Len(screenHand) + Len(events) + Len(mainHand)
      /\ Len(screenHand) \in Nat /\ Len(events) \in Nat /\ Len(mainHand) \in Nat
      /\ \A i \in 1..Len(screenHand) : Way[i] = screenHand[i]
      /\ \A i \in 1..Len(mainHand) : Way[Len(screenHand) + Len(events) + i] = mainHand[i]
  BY <1>1, ThreeParts DEF Way
<1> QED
  BY <1>1, <1>2

(* Only a session that was launched is entering or has an event in hand.   *)
LEMMA HandMentions ==
  ASSUME TypeOK, NEW t \in Sessions
  PROVE  /\ Entering(t) => Mentions(Way, t)
         /\ \A i \in 1..Len(screenHand) : screenHand[i].session = t => Mentions(Way, t)
<1>1. /\ \A i \in 1..Len(screenHand) : i \in 1..Len(Way) /\ Way[i] = screenHand[i]
      /\ \A i \in 1..Len(mainHand) :
           /\ Len(screenHand) + Len(events) + i \in 1..Len(Way)
           /\ Way[Len(screenHand) + Len(events) + i] = mainHand[i]
  BY WayParts
<1>2. Entering(t) => Mentions(Way, t)
  BY <1>1 DEF Entering, Mentions
<1>3. \A i \in 1..Len(screenHand) : screenHand[i].session = t => Mentions(Way, t)
  BY <1>1 DEF Mentions
<1> QED
  BY <1>2, <1>3

LEMMA HeadBack ==
  ASSUME NEW b \in Seq(Event), b # <<>>
  PROVE  <<Head(b)>> \o Tail(b) = b
<1>1. /\ Head(b) \in Event /\ Tail(b) \in Seq(Event) /\ Len(b) \in Nat /\ Len(b) >= 1
      /\ Len(Tail(b)) = Len(b) - 1 /\ Head(b) = b[1]
      /\ \A i \in 1..Len(Tail(b)) : Tail(b)[i] = b[i + 1]
  BY HeadTailProperties, EmptySeq
<1> DEFINE h == <<Head(b)>>
           r == Tail(b)
<1>2. h \in Seq(Event) /\ Len(h) = 1 /\ h[1] = b[1]
  BY <1>1, OneEvent
<1>3. r \in Seq(Event) /\ Len(r) = Len(b) - 1 /\ \A i \in 1..Len(r) : r[i] = b[i + 1]
  BY <1>1
<1> HIDE DEF h, r
<1>4. /\ h \o r \in Seq(Event) /\ Len(h \o r) = Len(h) + Len(r)
      /\ \A i \in 1..Len(h) + Len(r) :
           (h \o r)[i] = IF i <= Len(h) THEN h[i] ELSE r[i - Len(h)]
  <2>1. h \in Seq(Event) /\ r \in Seq(Event)
    BY <1>2, <1>3
  <2> QED
    BY <2>1, ConcatProperties
<1>5. ASSUME NEW i \in 1..Len(h \o r) PROVE (h \o r)[i] = b[i]
  <2>1. CASE i = 1
    BY <1>1, <1>2, <1>4, <2>1
  <2>2. CASE i # 1
    <3>1. i - 1 \in 1..Len(r) /\ (i - 1) + 1 = i /\ ~(i <= Len(h)) /\ i \in 1..Len(h) + Len(r)
      BY <1>1, <1>2, <1>3, <1>4, <1>5, <2>2
    <3>2. (h \o r)[i] = r[i - 1]
      BY <1>2, <1>4, <3>1
    <3> QED
      BY <1>3, <3>1, <3>2
  <2> QED
    BY <2>1, <2>2
<1>6. Len(h \o r) = Len(b)
  BY <1>1, <1>2, <1>3, <1>4
<1>7. h \o r = b
  BY <1>4, <1>5, <1>6, SeqEqual
<1> QED
  BY <1>7 DEF h, r

(* Receiving and sending move an event along the way.                      *)
LEMMA MovesKeepWay ==
  ASSUME TypeOK, ScreenRecv \/ MainSend
  PROVE  Way' = Way
<1>1. screenHand \in Seq(Event) /\ events \in Seq(Event) /\ mainHand \in Seq(Event)
  BY WayParts
<1>2. CASE ScreenRecv
  <2>1. /\ screenHand = <<>> /\ events # <<>>
        /\ screenHand' = <<Head(events)>> /\ events' = Tail(events) /\ mainHand' = mainHand
    BY <1>2 DEF ScreenRecv, mainVars
  <2>2. screenHand' \o events' = events
    BY <1>1, <2>1, HeadBack
  <2>3. screenHand \o events = events
    BY <1>1, <2>1, ConcatEmptySeq
  <2> QED
    BY <2>1, <2>2, <2>3 DEF Way
<1>3. CASE MainSend
  <2> DEFINE e == Head(mainHand)
  <2>1. /\ mainHand # <<>> /\ mainHand' = <<>> /\ events' = Append(events, e)
        /\ screenHand' = screenHand
    BY <1>3 DEF MainSend
  <2>2. /\ Len(mainHand) = 1 /\ e = mainHand[1] /\ e \in Event
    <3>1. Len(mainHand) <= 1
      BY DEF TypeOK
    <3> QED
      BY <1>1, <2>1, <3>1, OneEventInHand
  <2>3. mainHand = <<e>>
    <3>1. <<e>> \in Seq(Event) /\ Len(<<e>>) = 1 /\ <<e>>[1] = e
      BY <2>2, OneEvent
    <3>2. \A i \in 1..Len(mainHand) : mainHand[i] = <<e>>[i]
      BY <2>2, <3>1
    <3>3. Len(mainHand) = Len(<<e>>)
      BY <2>2, <3>1
    <3> HIDE DEF e
    <3> QED
      BY <1>1, <3>1, <3>2, <3>3, SeqEqual
  <2> HIDE DEF e
  <2>4. /\ screenHand \o events \in Seq(Event) /\ <<e>> \in Seq(Event)
        /\ Append(events, e) \in Seq(Event)
    BY <1>1, <2>2, ConcatProperties, OneEvent
  <2>5. screenHand \o Append(events, e) = Way
    <3>1. Append(events, e) = events \o <<e>>
      BY <1>1, <2>2, AppendIsConcat
    <3>2. screenHand \o (events \o <<e>>) = (screenHand \o events) \o <<e>>
      BY <1>1, <2>4, ConcatAssociative
    <3> QED
      BY <2>3, <3>1, <3>2 DEF Way
  <2>6. screenHand \o Append(events, e) \in Seq(Event)
    BY <1>1, <2>4, ConcatProperties
  <2>7. (screenHand \o Append(events, e)) \o <<>> = screenHand \o Append(events, e)
    BY <2>6, ConcatEmptySeq
  <2> QED
    BY <2>1, <2>5, <2>7 DEF Way
<1> QED
  BY <1>2, <1>3

LEMMA ForwarderSendFollows ==
  ASSUME TypeOK, NEW t \in Sessions, ScreenFollows(t), NEW s \in Sessions, ForwarderSend(s)
  PROVE  ScreenFollows(t)'
<1> DEFINE e == Bytes(s, fwdHand[s])
           k == Len(screenHand) + Len(events)
<1>1. /\ fwdHand[s] # 0 /\ fwdHand' = [fwdHand EXCEPT ![s] = 0]
      /\ events' = Append(events, e) /\ screenHand' = screenHand
      /\ UNCHANGED <<proc, ptySize, fwd, screens, text, size, applied, mainHand, sessions>>
  BY DEF ForwarderSend, ptyVars, storeVars, mainVars
<1>2. /\ fwdHand'[s] = 0 /\ \A x \in Sessions : x # s => fwdHand'[x] = fwdHand[x]
  BY <1>1 DEF TypeOK
<1>3. /\ e \in Event /\ e.type = "bytes" /\ e.session = s
  <2>1. fwdHand[s] \in Nat
    BY DEF TypeOK
  <2> QED
    BY <2>1, EventTyping DEF Bytes
<1> HIDE DEF e
<1>4. Inserted(Way, Way', k, e)
  BY <1>1, <1>3, WayParts, MiddleGrows DEF Way
<1>5. Still(t)
  <2>1. fwd[t] = "none" => fwdHand'[t] = fwdHand[t]
    BY <1>1, <1>2 DEF ScreenFollows
  <2> QED
    BY <1>1, <2>1 DEF Still, Entering
<1>6. CASE t # s
  BY <1>3, <1>4, <1>5, <1>6, SameWayElsewhere, FollowsFrame
<1>7. CASE t = s
  <2>1. fwd[t] # "none" /\ ~Entering(t) /\ proc[t] # "none"
    BY <1>1, <1>7 DEF ScreenFollows, Unborn
  <2>2. /\ Mentions(Way', t)
        /\ Ends(Way', t) <=> Ends(Way, t)
        /\ \A sz, pty : Settles(Way', t, sz, pty) <=> Settles(Way, t, sz, pty)
    BY <1>3, <1>4, <1>7, InsertedMentions, InsertedSettles DEF IsResize
  <2>3. Opens(Way, t) => Opens(Way', t)
    <3> SUFFICES ASSUME Opens(Way, t) PROVE Opens(Way', t)
      OBVIOUS
    <3>1. PICK i \in 1..Len(Way) : /\ Way[i].type = "started" /\ Way[i].session = t
                                   /\ \A j \in 1..Len(Way) : j < i => Way[j].session # t
      BY DEF Opens
    <3>2. i <= k
      <4>1. SUFFICES ASSUME ~(i <= k) PROVE FALSE
        BY LenProperties
      <4>2. /\ Len(screenHand) \in Nat /\ Len(events) \in Nat /\ Len(mainHand) \in Nat
            /\ Len(Way) = Len(screenHand) + Len(events) + Len(mainHand)
        BY WayParts, ThreeParts DEF Way
      <4>3. i - k \in 1..Len(mainHand) /\ k + (i - k) = i
        BY <4>1, <4>2
      <4>4. mainHand[i - k] = Way[i]
        BY <4>3, WayParts
      <4> QED
        BY <2>1, <3>1, <4>3, <4>4 DEF Entering
    <3>3. /\ i \in 1..Len(Way') /\ Way'[i] = Way[i]
          /\ \A j \in 1..Len(Way') : j < i => j \in 1..Len(Way) /\ Way'[j] = Way[j]
      BY <1>4, <3>2 DEF Inserted
    <3> QED
      BY <3>1, <3>3 DEF Opens
  <2>4. LiveInOrder(t) => LiveInOrder(t)'
    BY <1>1, <2>2, <2>3 DEF LiveInOrder
  <2>5. ~Entering(t)'
    BY <1>1, <2>1 DEF Entering
  <2> QED
    BY <1>1, <1>2, <1>7, <2>1, <2>4, <2>5 DEF ScreenFollows
<1> QED
  BY <1>6, <1>7

LEMMA ScreenApplyFollows ==
  ASSUME TypeOK, NEW t \in Sessions, ScreenFollows(t), ScreenApply
  PROVE  ScreenFollows(t)'
<1> DEFINE e == Head(screenHand)
<1>1. /\ UNCHANGED <<proc, ptySize, fwd, fwdHand, events, mainHand, sessions>>
      /\ screenHand' = <<>>
      /\ ApplyBytes(e) \/ ApplyStarted(e) \/ ApplyResize(e) \/ ApplyExited(e)
  BY DEF ScreenApply, ptyVars, threadVars, mainVars
<1>2. e = screenHand[1] /\ e \in Event /\ Len(screenHand) = 1
  BY ScreenApplyEffect
<1>3. screenHand = <<e>>
  <2>1. <<e>> \in Seq(Event) /\ Len(<<e>>) = 1 /\ <<e>>[1] = e
    BY <1>2, OneEvent
  <2>2. /\ screenHand \in Seq(Event) /\ Len(screenHand) = Len(<<e>>)
        /\ \A i \in 1..Len(screenHand) : screenHand[i] = <<e>>[i]
    BY <1>2, <2>1, WayParts
  <2> HIDE DEF e
  <2> QED
    BY <2>1, <2>2, SeqEqual
<1> HIDE DEF e
<1>4. Inserted(Way', Way, 0, e)
  <2>1. Inserted(<<>> \o events \o mainHand, <<e>> \o events \o mainHand, 0, e)
    BY <1>2, WayParts, FirstLeaves
  <2> QED
    BY <1>1, <1>3, <2>1 DEF Way
<1>5. e.session \in Sessions /\ e.type \in EventType
  BY <1>2 DEF Event
<1>6. CASE t # e.session
  <2>1. /\ t \in screens' <=> t \in screens
        /\ text'[t] = text[t] /\ size'[t] = size[t] /\ applied'[t] = applied[t]
    <3>1. CASE ApplyBytes(e)
      BY <1>5, <1>6, <3>1 DEF ApplyBytes, TypeOK
    <3>2. CASE ApplyStarted(e)
      BY <1>5, <1>6, <3>2 DEF ApplyStarted, TypeOK
    <3>3. CASE ApplyResize(e)
      BY <1>5, <1>6, <3>3 DEF ApplyResize, TypeOK
    <3>4. CASE ApplyExited(e)
      BY <1>5, <1>6, <3>4 DEF ApplyExited, TypeOK
    <3> QED
      BY <1>1, <3>1, <3>2, <3>3, <3>4
  <2>2. Still(t)
    BY <1>1, <2>1 DEF Still, Entering
  <2> QED
    BY <1>4, <1>6, <2>2, SameWayElsewhere, FollowsFrame
<1>7. CASE t = e.session
  <2>1. proc[t] # "none"
    BY <1>2, <1>7, HandMentions DEF ScreenFollows, Unborn
  <2>2. Entering(t)' <=> Entering(t)
    BY <1>1 DEF Entering
  <2>3. /\ Ends(Way', t) => Ends(Way, t)
        /\ e.type = "exited" => Ends(Way, t)
        /\ ~IsResize(e, t) => \A sz, pty : Settles(Way, t, sz, pty) => Settles(Way', t, sz, pty)
    BY <1>4, <1>7, InsertedMentions, InsertedSettles
  <2>4. /\ Opens(Way, t) => e.type = "started"
        /\ IsResize(e, t) =>
             \A sz, pty : Settles(Way, t, sz, pty) => Settles(Way', t, e.size, pty)
    BY <1>4, <1>7, FirstArrives
  <2>5. /\ t \notin screens => text[t] = <<>> /\ size[t] = InitialSize
    BY DEF TypeOK, ScreenFollows
  <2>6. FreshText(t) = text[t] /\ FreshSize(t) = size[t]
    BY <2>5 DEF FreshText, FreshSize
  <2>7. SUFFICES /\ t \notin screens' => text'[t] = <<>> /\ size'[t] = InitialSize
                 /\ LiveInOrder(t) => LiveInOrder(t)'
    BY <1>1, <2>1, <2>2, <2>7 DEF ScreenFollows
  <2>8. CASE ApplyBytes(e)
    <3>1. /\ t \in screens' /\ text'[t] = Append(text[t], e.chunk) /\ size'[t] = size[t]
          /\ applied'[t] = Append(applied[t], e.chunk) /\ e.type = "bytes"
      BY <1>7, <2>6, <2>8 DEF ApplyBytes, TypeOK
    <3> QED
      BY <1>1, <2>3, <3>1 DEF LiveInOrder, IsResize
  <2>9. CASE ApplyStarted(e)
    <3>1. /\ t \in screens' /\ text'[t] = text[t] /\ size'[t] = size[t]
          /\ applied' = applied /\ e.type = "started"
      BY <1>7, <2>6, <2>9 DEF ApplyStarted, TypeOK
    <3> QED
      BY <1>1, <2>3, <3>1 DEF LiveInOrder, IsResize
  <2>10. CASE ApplyResize(e)
    <3>1. /\ screens' = screens /\ text' = text /\ applied' = applied /\ e.type = "resize"
          /\ t \in screens => size'[t] = e.size
          /\ t \notin screens => size'[t] = size[t]
      BY <1>7, <2>10 DEF ApplyResize, TypeOK
    <3>2. IsResize(e, t)
      BY <1>7, <3>1 DEF IsResize
    <3>3. LiveInOrder(t) => t \in screens
      BY <2>4, <3>1 DEF LiveInOrder
    <3>4. t \in screens /\ LiveInOrder(t) => LiveInOrder(t)'
      BY <1>1, <2>3, <2>4, <3>1, <3>2 DEF LiveInOrder
    <3> QED
      BY <2>5, <3>1, <3>3, <3>4
  <2>11. CASE ApplyExited(e)
    <3>1. /\ text'[t] = <<>> /\ size'[t] = InitialSize /\ e.type = "exited"
      BY <1>7, <2>11 DEF ApplyExited, TypeOK
    <3> QED
      BY <2>3, <3>1 DEF LiveInOrder
  <2> QED
    BY <1>1, <2>8, <2>9, <2>10, <2>11
<1> QED
  BY <1>6, <1>7

(* An event that the main thread takes in hand for s.                      *)
LEMMA HandTaken ==
  ASSUME TypeOK, mainHand = <<>>, NEW e \in Event, mainHand' = <<e>>,
         UNCHANGED <<screenHand, events>>
  PROVE  /\ Inserted(Way, Way', Len(Way), e)
         /\ \A t : ~Entering(t)
         /\ \A t : Entering(t)' <=> e.type = "started" /\ e.session = t
<1>1. Inserted(Way, Way', Len(Way), e)
  BY WayParts, HandIsLast DEF Way
<1>2. \A t : ~Entering(t)
  <2>1. Len(<<>>) = 0
    OBVIOUS
  <2> QED
    BY <2>1 DEF Entering
<1>3. \A t : Entering(t)' <=> e.type = "started" /\ e.session = t
  <2>1. Len(mainHand') = 1 /\ mainHand'[1] = e
    BY OneEvent
  <2> QED
    BY <2>1 DEF Entering
<1> QED
  BY <1>1, <1>2, <1>3

LEMMA ResizingFollows ==
  ASSUME TypeOK, NEW t \in Sessions, ScreenFollows(t), NEW s \in Sessions, NEW sz \in Sizes,
         MainRenderResizing(s, sz)
  PROVE  ScreenFollows(t)'
<1> DEFINE e == Resize(s, sz)
<1>1. /\ mainHand = <<>> /\ mainHand' = <<e>> /\ s \in sessions
      /\ ptySize' = [ptySize EXCEPT ![s] = sz]
      /\ UNCHANGED <<proc, fwd, fwdHand, events, screenHand, screens, text, size,
                     applied, sessions>>
  BY DEF MainRenderResizing, threadVars, storeVars
<1>2. e \in Event /\ e.type = "resize" /\ e.session = s /\ e.size = sz
  BY EventTyping DEF Resize
<1> HIDE DEF e
<1>3. /\ Inserted(Way, Way', Len(Way), e) /\ ~Entering(t) /\ ~Entering(t)'
  BY <1>1, <1>2, HandTaken
<1>4. CASE t # s
  <2>1. Still(t)
    BY <1>1, <1>3, <1>4 DEF Still, TypeOK
  <2> QED
    BY <1>2, <1>3, <1>4, <2>1, SameWayElsewhere, FollowsFrame
<1>5. CASE t = s
  <2>1. proc[t] # "none"
    BY <1>1, <1>5 DEF ScreenFollows, Unborn
  <2>2. ptySize'[t] = sz
    BY <1>1, <1>5 DEF TypeOK
  <2>3. /\ Ends(Way', t) => Ends(Way, t)
        /\ Opens(Way, t) => Opens(Way', t)
        /\ Settles(Way', t, size[t], sz)
    BY <1>2, <1>3, <1>5, InsertedMentions, AppendedLast DEF IsResize
  <2>4. LiveInOrder(t) => LiveInOrder(t)'
    BY <1>1, <2>2, <2>3 DEF LiveInOrder
  <2> QED
    BY <1>1, <1>3, <2>1, <2>4 DEF ScreenFollows
<1> QED
  BY <1>4, <1>5

LEMMA LaunchFollows ==
  ASSUME TypeOK, NEW t \in Sessions, ScreenFollows(t), NEW s \in Sessions, MainLaunch(s)
  PROVE  ScreenFollows(t)'
<1> DEFINE e == Started(s)
<1>1. /\ mainHand = <<>> /\ mainHand' = <<e>> /\ proc[s] = "none"
      /\ proc' = [proc EXCEPT ![s] = "running"]
      /\ UNCHANGED <<ptySize, fwd, fwdHand, events, screenHand, screens, text, size,
                     applied, sessions>>
  BY DEF MainLaunch, storeVars
<1>2. e \in Event /\ e.type = "started" /\ e.session = s
  BY EventTyping DEF Started
<1> HIDE DEF e
<1>3. /\ Inserted(Way, Way', Len(Way), e) /\ ~Entering(t)
      /\ Entering(t)' <=> t = s
  BY <1>1, <1>2, HandTaken
<1>4. CASE t # s
  <2>1. Still(t)
    BY <1>1, <1>3, <1>4 DEF Still, TypeOK
  <2> QED
    BY <1>2, <1>3, <1>4, <2>1, SameWayElsewhere, FollowsFrame
<1>5. CASE t = s
  <2>1. Unborn(t) /\ t \notin screens /\ text[t] = <<>> /\ size[t] = InitialSize
    BY <1>1, <1>5 DEF ScreenFollows, Unborn
  <2>2. proc'[t] = "running" /\ fwd[t] = "none" /\ fwdHand[t] = 0
    BY <1>1, <1>5, <2>1 DEF TypeOK, Unborn, ScreenFollows
  <2>3. ~Mentions(Way, t)
    BY <2>1 DEF Unborn
  <2>4. ~Ends(Way', t)
    <3>1. ~Ends(Way, t)
      BY <2>3 DEF Mentions, Ends
    <3> QED
      BY <1>2, <1>3, <3>1, InsertedMentions
  <2>5. Opens(Way', t)
    BY <1>2, <1>3, <1>5, <2>3, AppendedLast
  <2>6. Settles(Way', t, size[t], ptySize[t])
    <3>1. size[t] = ptySize[t]
      BY <2>1 DEF Unborn
    <3>2. Settles(Way, t, size[t], ptySize[t])
      BY <2>3, <3>1 DEF Settles, Mentions, IsResize
    <3>3. ~IsResize(e, t)
      BY <1>2 DEF IsResize
    <3> QED
      BY <1>3, <3>2, <3>3, InsertedSettles
  <2>7. LiveInOrder(t)'
    <3>1. text[t] = applied[t]
      BY <2>1 DEF Unborn
    <3> QED
      BY <1>1, <2>4, <2>5, <2>6, <3>1 DEF LiveInOrder
  <2> QED
    BY <1>1, <2>1, <2>2, <2>7 DEF ScreenFollows
<1> QED
  BY <1>4, <1>5

(* Nobody waits for the screen of a session whose launch failed.           *)
LEMMA LaunchFailsFollows ==
  ASSUME TypeOK, NEW t \in Sessions, ScreenFollows(t), NEW s \in Sessions,
         MainLaunchFails(s)
  PROVE  ScreenFollows(t)'
<1>1. /\ mainHand = <<>> /\ mainHand' = <<>>
      /\ proc' = [proc EXCEPT ![s] = "running"]
      /\ UNCHANGED <<ptySize, fwd, fwdHand, events, screenHand, screens, text, size,
                     applied, sessions>>
  BY DEF MainLaunchFails, threadVars, storeVars
<1>2. Way' = Way
  BY <1>1 DEF Way
<1>3. proc'[t] = "none" => proc[t] = "none"
  BY <1>1 DEF TypeOK
<1>4. Still(t)
  BY <1>1, <1>3 DEF Still, Entering
<1> QED
  BY <1>2, <1>4, SameWayKept, FollowsFrame

LEMMA TerminateFollows ==
  ASSUME TypeOK, NEW t \in Sessions, ScreenFollows(t), NEW s \in Sessions,
         NEW ok \in BOOLEAN, mainHand = <<>>, Terminate(s, ok)
  PROVE  ScreenFollows(t)'
<1>1. /\ s \in sessions /\ sessions' = sessions \ {s}
      /\ proc' = [proc EXCEPT ![s] = "exited"]
      /\ UNCHANGED <<ptySize, fwd, fwdHand, events, screenHand, screens, text, size, applied>>
      /\ mainHand' = IF ok THEN <<Exited(s)>> ELSE <<>>
  BY DEF Terminate, threadVars, storeVars
<1>2. /\ proc'[s] = "exited"
      /\ \A x \in Sessions : x # s => proc'[x] = proc[x]
  BY <1>1 DEF TypeOK
<1>3. CASE ~ok
  <2>1. mainHand' = mainHand
    BY <1>1, <1>3
  <2>2. Way' = Way
    BY <1>1, <2>1 DEF Way
  <2>3. Still(t)
    BY <1>1, <1>2, <2>1 DEF Still, Entering
  <2> QED
    BY <2>2, <2>3, SameWayKept, FollowsFrame
<1>4. CASE ok
  <2> DEFINE e == Exited(s)
  <2>1. e \in Event /\ e.type = "exited" /\ e.session = s
    BY EventTyping DEF Exited
  <2>2. mainHand' = <<e>>
    BY <1>1, <1>4
  <2> HIDE DEF e
  <2>3. Inserted(Way, Way', Len(Way), e) /\ ~Entering(t) /\ ~Entering(t)'
    BY <1>1, <2>1, <2>2, HandTaken
  <2>4. CASE t # s
    <3>1. Still(t)
      BY <1>1, <1>2, <2>3, <2>4 DEF Still
    <3> QED
      BY <2>1, <2>3, <2>4, <3>1, SameWayElsewhere, FollowsFrame
  <2>5. CASE t = s
    BY <1>1, <1>2, <2>3, <2>5 DEF ScreenFollows
  <2> QED
    BY <2>4, <2>5
<1> QED
  BY <1>3, <1>4

LEMMA MainSendFollows ==
  ASSUME TypeOK, NEW t \in Sessions, ScreenFollows(t), MainSend
  PROVE  ScreenFollows(t)'
<1> DEFINE e == Head(mainHand)
<1>1. /\ mainHand # <<>> /\ mainHand' = <<>>
      /\ UNCHANGED <<proc, ptySize, fwdHand, screenHand, screens, text, size, applied>>
      /\ IF e.type = "started"
           THEN /\ fwd' = [fwd EXCEPT ![e.session] = "running"]
                /\ sessions' = sessions \cup {e.session}
           ELSE fwd' = fwd /\ sessions' = sessions
  BY DEF MainSend, ptyVars, storeVars
<1>2. Len(mainHand) = 1 /\ e = mainHand[1] /\ e \in Event
  <2>1. mainHand \in Seq(Event) /\ Len(mainHand) <= 1
    BY DEF TypeOK
  <2> QED
    BY <1>1, <2>1, OneEventInHand
<1> HIDE DEF e
<1>3. Entering(t) <=> e.type = "started" /\ e.session = t
  BY <1>2 DEF Entering
<1>4. ~Entering(t)'
  <2>1. Len(mainHand') = 0
    BY <1>1
  <2> QED
    BY <2>1 DEF Entering
<1>5. Way' = Way
  BY MovesKeepWay
<1>6. e.session \in Sessions
  BY <1>2 DEF Event
<1>7. CASE Entering(t)
  <2>1. fwd'[t] = "running" /\ proc[t] # "none"
    <3>1. fwd'[t] = "running"
      BY <1>1, <1>3, <1>6, <1>7 DEF TypeOK
    <3>2. proc[t] # "none"
      BY <1>7, HandMentions DEF ScreenFollows, Unborn
    <3> QED
      BY <3>1, <3>2
  <2>2. LiveInOrder(t)
    BY <1>7 DEF ScreenFollows
  <2>3. LiveInOrder(t)'
    BY <1>1, <1>5, <2>2 DEF LiveInOrder
  <2> QED
    BY <1>1, <1>4, <2>1, <2>3 DEF ScreenFollows
<1>8. CASE ~Entering(t)
  <2>1. fwd'[t] = fwd[t] /\ (t \in sessions' => t \in sessions)
    BY <1>1, <1>3, <1>6, <1>8 DEF TypeOK
  <2>2. Still(t)
    BY <1>1, <1>4, <2>1 DEF Still
  <2> QED
    BY <1>5, <2>2, SameWayKept, FollowsFrame
<1> QED
  BY <1>7, <1>8

LEMMA ScreensFollowStep ==
  ASSUME TypeOK, NEW t \in Sessions, ScreenFollows(t), [Next]_vars
  PROVE  ScreenFollows(t)'
<1> DEFINE Same == UNCHANGED <<screenHand, events, mainHand>>
<1>1. ASSUME Same, Still(t) PROVE ScreenFollows(t)'
  <2>1. Way' = Way
    BY <1>1 DEF Way
  <2> QED
    BY <1>1, <2>1, SameWayKept, FollowsFrame
<1>2. ASSUME NEW s \in Sessions, ChildNext(s) \/ ReaderSend(s)
      PROVE  ScreenFollows(t)'
  <2>1. /\ Same
        /\ UNCHANGED <<ptySize, fwd, fwdHand, screens, text, size, applied, sessions>>
    BY <1>2 DEF ChildNext, ChildExit, ReaderRead, ReaderEof, ReaderSend, TypeOK,
                ptyVars, threadVars, storeVars, mainVars
  <2>2. proc'[t] = "none" => proc[t] = "none"
    BY <1>2 DEF ChildNext, ChildExit, ReaderRead, ReaderEof, ReaderSend, TypeOK, ptyVars
  <2>3. Still(t)
    BY <2>1, <2>2 DEF Still, Entering
  <2> QED
    BY <1>1, <2>1, <2>3
<1>3. ASSUME NEW s \in Sessions, ForwarderRecv(s) PROVE ScreenFollows(t)'
  <2>1. /\ Same /\ fwd[s] = "running"
        /\ UNCHANGED <<proc, ptySize, fwd, screens, text, size, applied, sessions>>
        /\ fwdHand' = [fwdHand EXCEPT ![s] = Head(output[s])]
    BY <1>3 DEF ForwarderRecv, ptyVars, storeVars, mainVars
  <2>2. fwd[t] = "none" => fwdHand'[t] = fwdHand[t]
    BY <2>1 DEF TypeOK
  <2>3. Still(t)
    BY <2>1, <2>2 DEF Still, Entering
  <2> QED
    BY <1>1, <2>1, <2>3
<1>4. ASSUME NEW s \in Sessions, ForwarderEnd(s) PROVE ScreenFollows(t)'
  <2>1. /\ Same /\ fwd[s] = "running" /\ fwd' = [fwd EXCEPT ![s] = "done"]
        /\ UNCHANGED <<proc, ptySize, fwdHand, screens, text, size, applied, sessions>>
    BY <1>4 DEF ForwarderEnd, ptyVars, storeVars, mainVars
  <2>2. fwd'[t] = "none" <=> fwd[t] = "none"
    BY <2>1 DEF TypeOK
  <2>3. Still(t)
    BY <2>1, <2>2 DEF Still, Entering
  <2> QED
    BY <1>1, <2>1, <2>3
<1>5. CASE ScreenRecv
  <2>1. UNCHANGED <<proc, ptySize, fwd, fwdHand, screens, text, size, applied, sessions,
                    mainHand>>
    BY <1>5 DEF ScreenRecv, ptyVars, threadVars, storeVars, mainVars
  <2>2. Still(t)
    BY <2>1 DEF Still, Entering
  <2> QED
    BY <1>5, <2>2, MovesKeepWay, SameWayKept, FollowsFrame
<1>6. CASE \/ ScreenRequestRender \/ MainDrain \/ MainDrained \/ MainRender
           \/ MainPollTimeout \/ MainKey \/ MainQuit \/ ShutdownDone
           \/ UNCHANGED vars
  <2>1. /\ Same
        /\ UNCHANGED <<proc, ptySize, fwd, fwdHand, screens, text, size, applied, sessions>>
    BY <1>6 DEF ScreenRequestRender, MainDrain, MainDrained, MainRender,
                MainPollTimeout, MainKey, MainQuit, ShutdownDone, vars,
                ptyVars, threadVars, storeVars, mainVars
  <2>2. Still(t)
    BY <2>1 DEF Still, Entering
  <2> QED
    BY <1>1, <2>1, <2>2
<1>7. ASSUME NEW s \in Sessions, NEW ok \in BOOLEAN,
             MainClose(s, ok) \/ ShutdownTerminate(s, ok)
      PROVE  ScreenFollows(t)'
  BY <1>7, TerminateFollows DEF MainClose, ShutdownTerminate
<1> HIDE DEF Same
<1> QED
  BY <1>2, <1>3, <1>4, <1>5, <1>6, <1>7, ForwarderSendFollows, ScreenApplyFollows,
     ResizingFollows, LaunchFollows, LaunchFailsFollows, MainSendFollows
     DEF Next, ChildNext, ForwarderNext, ScreenNext, MainLoop, User, Finished

ScreensFollow == \A s \in Sessions : ScreenFollows(s)

LEMMA InitFollows == Init => ScreensFollow
<1> SUFFICES ASSUME Init, NEW s \in Sessions PROVE ScreenFollows(s)
  BY DEF ScreensFollow
<1>1. Len(<<>>) = 0 /\ <<>> \o <<>> \o <<>> = <<>>
  OBVIOUS
<1>2. Len(Way) = 0 /\ Len(mainHand) = 0
  BY <1>1 DEF Way, Init
<1>3. ~Mentions(Way, s) /\ ~Entering(s)
  BY <1>2 DEF Mentions, Entering
<1> QED
  BY <1>3 DEF Init, ScreenFollows, Unborn

LEMMA FollowIsInvariant == Spec => [](TypeOK /\ ScreensFollow)
<1>1. Init => TypeOK /\ ScreensFollow
  BY InitTyping, InitFollows
<1>2. TypeOK /\ ScreensFollow /\ [Next]_vars => (TypeOK /\ ScreensFollow)'
  BY TypingPreserved, ScreensFollowStep DEF ScreensFollow
<1> QED
  BY <1>1, <1>2, PTL DEF Spec

(* No resize, no render and no event of another session resets the parser  *)
(* of a live session: its screen shows everything processed for it.        *)
THEOREM LiveScreensComplete == Spec => []LiveScreenComplete
<1>1. TypeOK /\ ScreensFollow => LiveScreenComplete
  BY DEF TypeOK, ScreensFollow, ScreenFollows, LiveInOrder, LiveScreenComplete
<1> QED
  BY <1>1, FollowIsInvariant, PTL

(* SessionStarted overtakes the output and the resizes of its session, so  *)
(* the ScreenThread's fallback never creates a parser for a live session.  *)
THEOREM ScreensOpenFirst == Spec => []ScreenBeforeBytes
<1>1. TypeOK /\ ScreensFollow => ScreenBeforeBytes
  <2> SUFFICES ASSUME TypeOK, ScreensFollow, NEW s \in sessions, screenHand # <<>>,
                      Head(screenHand).type \in {"bytes", "resize"},
                      Head(screenHand).session = s, s \notin screens
               PROVE  FALSE
    BY DEF ScreenBeforeBytes
  <2>1. s \in Sessions /\ Opens(Way, s)
    BY DEF TypeOK, ScreensFollow, ScreenFollows, LiveInOrder
  <2>2. Len(screenHand) = 1 /\ Head(screenHand) = screenHand[1]
    <3>1. screenHand \in Seq(Event) /\ Len(screenHand) <= 1
      BY DEF TypeOK
    <3> QED
      BY <3>1, OneEventInHand
  <2>3. 1 \in 1..Len(Way) /\ Way[1] = screenHand[1]
    BY <2>2, WayParts
  <2>4. PICK i \in 1..Len(Way) : /\ Way[i].type = "started" /\ Way[i].session = s
                                 /\ \A j \in 1..Len(Way) : j < i => Way[j].session # s
    BY <2>1 DEF Opens
  <2>5. i = 1 \/ 1 < i
    BY WayParts
  <2> QED
    BY <2>2, <2>3, <2>4, <2>5
<1> QED
  BY <1>1, FollowIsInvariant, PTL

(* The PTY and the parser of a live session agree on the window size, once *)
(* the resize events on their way are applied.                             *)
THEOREM SizesSettle == Spec => []SizesAgree
<1>1. TypeOK /\ ScreensFollow => SizesAgree
  <2> SUFFICES ASSUME TypeOK, ScreensFollow PROVE SizesAgree
    OBVIOUS
  <2> DEFINE ResizeAt(s) == {i \in DOMAIN Way : Way[i].type = "resize" /\ Way[i].session = s}
  <2>1. DOMAIN Way = 1..Len(Way)
    BY WayParts, LenProperties
  <2>2. ASSUME NEW s \in sessions
        PROVE  IF ResizeAt(s) = {} THEN size[s] = ptySize[s]
               ELSE \A i \in ResizeAt(s) : (\A j \in ResizeAt(s) : j <= i)
                                              => Way[i].size = ptySize[s]
    <3>1. Settles(Way, s, size[s], ptySize[s])
      BY DEF TypeOK, ScreensFollow, ScreenFollows, LiveInOrder
    <3>2. \A i : i \in ResizeAt(s) <=> i \in 1..Len(Way) /\ IsResize(Way[i], s)
      BY <2>1 DEF IsResize
    <3> HIDE DEF ResizeAt
    <3>3. CASE ResizeAt(s) = {}
      BY <3>1, <3>2, <3>3 DEF Settles
    <3>4. CASE ResizeAt(s) # {}
      BY <3>1, <3>2, <3>4 DEF Settles
    <3> QED
      BY <3>3, <3>4
  <2> QED
    BY <2>2 DEF SizesAgree, Way
<1> QED
  BY <1>1, FollowIsInvariant, PTL
=============================================================================
