------------------------------ MODULE EventFlow ------------------------------
(***************************************************************************)
(* Session events of orchestrator-core: the lifecycle that numbers them,   *)
(* the ingestor that takes them in whatever order and how often they       *)
(* arrive, what replay and projection make of the accepted ones, and the   *)
(* bounded fan-out of session output.                                      *)
(*                                                                         *)
(* The crate leaves open what carries the events; here anything may: an    *)
(* event can be lost, duplicated, delayed and overtaken.                   *)
(***************************************************************************)
EXTENDS Naturals, Sequences, FiniteSets, SequencesExt

CONSTANTS
  Sessions,
  Streams,      \* the sessions that write output
  Goals,        \* the states that transitions ask for
  Window,       \* max_events_per_session
  MaxEvents,    \* bound on the transitions
  MaxOutputs    \* bound on the outputs between two drains

ASSUME EventFlowAssumption == Streams \subseteq Sessions /\ Window \in Nat \ {0}

VARIABLES
  current_state,   \* SessionLifecycle
  current_seq,
  events,
  seen,            \* EventIngestor
  last_seq,
  accepted,
  reconciliation,
  queues,          \* LocalEventFanout
  published        \* history: the outputs published since the last drain

lifecycle == <<current_state, current_seq, events>>
ingestor == <<seen, last_seq, accepted, reconciliation>>
fanout == <<queues, published>>
vars == <<lifecycle, ingestor, fanout>>

(* The elements of q that are in T, in their order.                        *)
Chosen(q, T) ==
  LET chosen[n \in 0..Len(q)] ==
        IF n = 0 THEN <<>>
        ELSE IF q[n] \in T THEN Append(chosen[n - 1], q[n]) ELSE chosen[n - 1]
  IN chosen[Len(q)]

-----------------------------------------------------------------------------
(* SessionLifecycle *)

Ends == {"completed", "failed", "terminated"}

Allowed ==
  [created       |-> {"starting", "terminated"},
   starting      |-> {"running", "failed", "terminated"},
   running       |-> {"awaiting_input", "busy", "suspended"} \cup Ends,
   awaiting_input |-> {"busy", "suspended"} \cup Ends,
   busy          |-> {"awaiting_input", "suspended"} \cup Ends,
   suspended     |-> {"running", "failed", "terminated"},
   failed        |-> {"starting", "terminated"},
   completed     |-> {},
   terminated    |-> {}]

Unborn == [s \in Sessions |-> "created"]
Zero == [s \in Sessions |-> 0]

(* A transition that is not allowed changes nothing.                       *)
Transition(s, to) ==
  /\ Len(events) < MaxEvents
  /\ to \in Allowed[current_state[s]]
  /\ current_state' = [current_state EXCEPT ![s] = to]
  /\ current_seq' = [current_seq EXCEPT ![s] = @ + 1]
  /\ events' = Append(events, [session |-> s, seq |-> current_seq[s] + 1,
                               from |-> current_state[s], to |-> to])
  /\ UNCHANGED <<ingestor, fanout>>

(* One event replayed; a log that breaks the rules yields no lifecycle.    *)
Replayed(l, e) ==
  IF l.ok /\ e.to \in Allowed[l.state[e.session]]
    THEN [ok |-> TRUE, state |-> [l.state EXCEPT ![e.session] = e.to],
          seq |-> [l.seq EXCEPT ![e.session] = e.seq]]
    ELSE [l EXCEPT !.ok = FALSE]

(* The folds over sequences are written as recursive functions, which can  *)
(* be proved about; this is the lifecycle that a log yields.               *)
Replay(log) ==
  LET after[n \in 0..Len(log)] ==
        IF n = 0 THEN [ok |-> TRUE, state |-> Unborn, seq |-> Zero]
        ELSE Replayed(after[n - 1], log[n])
  IN after[Len(log)]

(* ProjectionEngine::rebuild: of each key the last value.  The statuses    *)
(* and primary links of issues are projected like the states of sessions.  *)
Rebuild(log) ==
  LET snapshot[n \in 0..Len(log)] ==
        IF n = 0 THEN Unborn
        ELSE [snapshot[n - 1] EXCEPT ![log[n].session] = log[n].to]
  IN snapshot[Len(log)]

-----------------------------------------------------------------------------
(* EventIngestor *)

(* A gap is skipped instead of reported.                                   *)
FaultyIngest(e) ==
  /\ <<e.session, e.seq>> \notin seen
  /\ seen' = seen \cup {<<e.session, e.seq>>}
  /\ IF e.seq > last_seq[e.session]
       THEN /\ last_seq' = [last_seq EXCEPT ![e.session] = e.seq]
            /\ accepted' = Append(accepted, e)
            /\ UNCHANGED reconciliation
       ELSE /\ reconciliation' = Append(reconciliation, e)
            /\ UNCHANGED <<last_seq, accepted>>
  /\ UNCHANGED <<lifecycle, fanout>>

(* The id is remembered before the number is looked at: an event that came *)
(* early is a duplicate when it comes again.                               *)
Ingest(e) ==
  /\ <<e.session, e.seq>> \notin seen
  /\ seen' = seen \cup {<<e.session, e.seq>>}
  /\ IF e.seq = last_seq[e.session] + 1
       THEN /\ last_seq' = [last_seq EXCEPT ![e.session] = e.seq]
            /\ accepted' = Append(accepted, e)
            /\ UNCHANGED reconciliation
       ELSE /\ reconciliation' = Append(reconciliation, e)
            /\ UNCHANGED <<last_seq, accepted>>
  /\ UNCHANGED <<lifecycle, fanout>>

-----------------------------------------------------------------------------
(* LocalEventFanout *)

Output(n) == [kind |-> "output", n |-> n]
Dropped(n) == [kind |-> "dropped", n |-> n]
Outputs(q) == Chosen(q, [kind : {"output"}, n : Nat])
Markers(q) == Chosen(q, [kind : {"dropped"}, n : Nat])

(* What is dropped while an earlier marker waits is not announced.         *)
FaultyPublish(s) ==
  LET q == queues[s]
      n == IF Len(q) >= Window THEN Len(q) - Window + 1 ELSE 0
      marker == IF n > 0 /\ Markers(q) = <<>> THEN <<Dropped(n)>> ELSE <<>>
  IN /\ published[s] < MaxOutputs
     /\ published' = [published EXCEPT ![s] = @ + 1]
     /\ queues' = [queues EXCEPT ![s] =
          SubSeq(q, n + 1, Len(q)) \o marker \o <<Output(published[s] + 1)>>]
     /\ UNCHANGED <<lifecycle, ingestor>>

(* publish_output.  The marker goes right before the new output and comes  *)
(* on top of the window; it counts the markers dropped, not what they      *)
(* counted.  The count of dropped_counts is zero again when it returns.    *)
Publish(s) ==
  LET q == queues[s]
      n == IF Len(q) >= Window THEN Len(q) - Window + 1 ELSE 0
      marker == IF n > 0 THEN <<Dropped(n)>> ELSE <<>>
  IN /\ published[s] < MaxOutputs
     /\ published' = [published EXCEPT ![s] = @ + 1]
     /\ queues' = [queues EXCEPT ![s] =
          SubSeq(q, n + 1, Len(q)) \o marker \o <<Output(published[s] + 1)>>]
     /\ UNCHANGED <<lifecycle, ingestor>>

Drain(s) ==
  /\ queues' = [queues EXCEPT ![s] = <<>>]
  /\ published' = [published EXCEPT ![s] = 0]
  /\ UNCHANGED <<lifecycle, ingestor>>

-----------------------------------------------------------------------------
Init ==
  /\ current_state = Unborn /\ current_seq = Zero /\ events = <<>>
  /\ seen = {} /\ last_seq = Zero /\ accepted = <<>> /\ reconciliation = <<>>
  /\ queues = [s \in Streams |-> <<>>] /\ published = [s \in Streams |-> 0]

Next ==
  \/ \E s \in Sessions, to \in Goals : Transition(s, to)
  \/ \E i \in DOMAIN events : Ingest(events[i])
  \/ \E s \in Streams : Publish(s) \/ Drain(s)

Spec == Init /\ [][Next]_vars

-----------------------------------------------------------------------------
(* Properties *)

States == DOMAIN Allowed

Of(log, s) == Chosen(log, [session : {s}, seq : Nat, from : States, to : States])

(* Every event that arrived is in one of the two lists, once.              *)
NothingForgotten ==
  /\ Len(accepted) + Len(reconciliation) = Cardinality(seen)
  /\ seen = {<<e.session, e.seq>> : e \in Range(accepted) \cup Range(reconciliation)}

(* However the events of a session arrive, the accepted ones are the first *)
(* of its history, and replay and projection of all accepted events, with  *)
(* the sessions mixed as they came, agree on the state each session had    *)
(* then.  One that arrived early is never overtaken: nothing after it is   *)
(* accepted, so the session stays where the gap was.                       *)
AcceptedIsHistory ==
  /\ NothingForgotten
  /\ Replay(events) = [ok |-> TRUE, state |-> current_state, seq |-> current_seq]
  /\ Replay(accepted) = [ok |-> TRUE, state |-> Rebuild(accepted), seq |-> last_seq]
  /\ \A s \in Sessions : IsPrefix(Of(accepted, s), Of(events, s))
  /\ \A e \in Range(reconciliation) : last_seq[e.session] < e.seq

Total(q) ==
  LET sum[n \in 0..Len(q)] == IF n = 0 THEN 0 ELSE sum[n - 1] + q[n].n
  IN sum[Len(q)]

(* What a reader drains is the newest of the output since the last time,   *)
(* in order, with the newest always among it; it holds a marker if and     *)
(* only if output is missing, never announces more than is missing, and    *)
(* is longer than the window by at most the marker.                        *)
LossIsAnnounced ==
  \A s \in Streams :
    LET kept == Outputs(queues[s])  marks == Markers(queues[s])  lost == published[s] - Len(kept) IN
    /\ kept = [i \in DOMAIN kept |-> Output(lost + i)]
    /\ published[s] > 0 => kept # <<>>
    /\ (lost > 0) = (marks # <<>>)
    /\ Total(marks) <= lost
    /\ Len(queues[s]) <= Window + 1
=============================================================================
