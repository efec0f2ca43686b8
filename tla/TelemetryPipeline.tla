--------------------------- MODULE TelemetryPipeline --------------------------
(***************************************************************************)
(* auth_defense/layer5_telemetry: how an event gets from a request to the  *)
(* audit log and from there to the external endpoints.  record_event       *)
(* appends it to the log and hands it to the streamer; the streamer's      *)
(* buffer is flushed by whoever fills it and by a periodic loop, under an  *)
(* asyncio lock that is held while the endpoints are written to.           *)
(*                                                                         *)
(* An event is its position in the audit log.  A send that fails is logged *)
(* and not repeated, so SendBatch stands for both outcomes.                *)
(***************************************************************************)
EXTENDS Integers, FiniteSets, Sequences, SequencesExt

CONSTANTS
  Requests,    \* requests that may record an event at the same time
  Endpoints,   \* _endpoints, in the order they were added
  BatchSize,   \* _batch_size
  Starts,      \* calls of initialize: by the startup, by the first request
  MaxEvents    \* bound on the events recorded

ASSUME PipelineAssumption ==
  /\ Endpoints # <<>> /\ IsInjective(Endpoints)
  /\ BatchSize \in Nat \ {0} /\ MaxEvents \in Nat
  /\ Starts \in {1, 2}

VARIABLES
  log,       \* number of events in the audit log
  event,     \* per request: the event it waits to put into the buffer, or 0
  buffer,    \* _buffer
  line,      \* _lock: its owner, then those waiting for it (first come, first served)
  flush,     \* the batch its owner writes out, and the endpoints still left
  loop,      \* the flush loops
  task,      \* the loop _flush_task refers to
  stop,      \* the shutdown's call of stop
  sent       \* per endpoint: the events it was offered

vars == <<log, event, buffer, line, flush, loop, task, stop, sent>>

Loops == 1 .. Starts
NoFlush == [batch |-> <<>>, left |-> <<>>]
Flushing == flush.batch # <<>>
Turn(p) == line # <<>> /\ Head(line) = p /\ ~Flushing

Init ==
  /\ log = 0 /\ buffer = <<>> /\ line = <<>>
  /\ event = [r \in Requests |-> 0]
  /\ flush = NoFlush
  /\ loop = [k \in Loops |-> IF k = 1 THEN "asleep" ELSE "unborn"]
  /\ task = 1
  /\ stop = "no"
  /\ sent = [e \in ToSet(Endpoints) |-> <<>>]

\* The owner p lets the lock go; a loop goes back to sleep unless it was stopped.
Leave(p) ==
  /\ line' = Tail(line)
  /\ IF p \in Loops
     THEN /\ loop' = [loop EXCEPT ![p] = IF stop = "no" THEN "asleep" ELSE "over"]
          /\ UNCHANGED event
     ELSE /\ event' = [event EXCEPT ![p] = 0]
          /\ UNCHANGED loop

\* _flush_buffer: the buffer is copied and cleared before the first send.
StartFlush(events) ==
  /\ flush' = [batch |-> events, left |-> Endpoints]
  /\ buffer' = <<>>
  /\ UNCHANGED <<line, event, loop>>

-------------------------------------------------------------------------------
\* initialize is called again by the middleware's first request: start replaces
\* _flush_task and leaves the first loop running.
StartAgain ==
  /\ task < Starts
  /\ stop = "no"
  /\ task' = task + 1
  /\ loop' = [loop EXCEPT ![task + 1] = "asleep"]
  /\ UNCHANGED <<log, event, buffer, line, flush, stop, sent>>

\* Slip: a request does not line up behind those already waiting.
RecordFirst(r) ==
  /\ event[r] = 0 /\ task = Starts /\ stop = "no" /\ log < MaxEvents
  /\ log' = log + 1
  /\ event' = [event EXCEPT ![r] = log + 1]
  /\ line' = IF line = <<>> THEN <<r>> ELSE <<Head(line), r>> \o Tail(line)
  /\ UNCHANGED <<buffer, flush, loop, task, stop, sent>>

\* record_event: the event enters the audit log and waits for the streamer's lock.
Record(r) ==
  /\ event[r] = 0
  /\ task = Starts
  /\ stop = "no"
  /\ log < MaxEvents
  /\ log' = log + 1
  /\ event' = [event EXCEPT ![r] = log + 1]
  /\ line' = Append(line, r)
  /\ UNCHANGED <<buffer, flush, loop, task, stop, sent>>

\* Slip: the batch is flushed one event too late.
BufferLate(r) ==
  /\ Turn(r)
  /\ IF Len(buffer) >= BatchSize
     THEN StartFlush(Append(buffer, event[r]))
     ELSE buffer' = Append(buffer, event[r]) /\ Leave(r) /\ UNCHANGED flush
  /\ UNCHANGED <<log, task, stop, sent>>

\* stream: the event is buffered; a full buffer is flushed at once.
Buffer(r) ==
  /\ Turn(r)
  /\ IF Len(buffer) + 1 >= BatchSize
     THEN StartFlush(Append(buffer, event[r]))
     ELSE buffer' = Append(buffer, event[r]) /\ Leave(r) /\ UNCHANGED flush
  /\ UNCHANGED <<log, task, stop, sent>>

\* The 5 s of a flush loop are over.
Wake(k) ==
  /\ loop[k] = "asleep"
  /\ loop' = [loop EXCEPT ![k] = "awake"]
  /\ line' = Append(line, k)
  /\ UNCHANGED <<log, event, buffer, flush, task, stop, sent>>

\* Slip: the loop writes a full batch only.
LoopWaitsForBatch(k) ==
  /\ Turn(k)
  /\ Leave(k)
  /\ UNCHANGED <<log, buffer, flush, task, stop, sent>>

\* _flush_loop has the lock.
LoopFlush(k) ==
  /\ Turn(k)
  /\ IF buffer # <<>>
     THEN StartFlush(buffer)
     ELSE Leave(k) /\ UNCHANGED <<buffer, flush>>
  /\ UNCHANGED <<log, task, stop, sent>>

\* The next endpoint has answered, failed, or timed out after 10 s; the lock is let
\* go after the last one.
SendBatch ==
  LET e == Head(flush.left)
      rest == Tail(flush.left)
  IN /\ Flushing
     /\ sent' = [sent EXCEPT ![e] = @ \o flush.batch]
     /\ IF rest # <<>>
        THEN flush' = [flush EXCEPT !.left = rest] /\ UNCHANGED <<line, event, loop>>
        ELSE flush' = NoFlush /\ Leave(Head(line))
     /\ UNCHANGED <<log, buffer, task, stop>>

\* The lifespan's shutdown, after the last request: stop tells the loops to end.
Stop ==
  /\ stop = "no"
  /\ \A r \in Requests : event[r] = 0
  /\ stop' = "waiting"
  /\ UNCHANGED <<log, event, buffer, line, flush, loop, task, sent>>

\* stop returns when the loop it knows of has ended.
StopReturns ==
  /\ stop = "waiting"
  /\ loop[task] = "over"
  /\ stop' = "done"
  /\ UNCHANGED <<log, event, buffer, line, flush, loop, task, sent>>

Next ==
  \/ \E r \in Requests : Record(r) \/ Buffer(r)
  \/ \E k \in Loops : Wake(k) \/ LoopFlush(k)
  \/ StartAgain \/ SendBatch \/ Stop \/ StopReturns

Safety == Init /\ [][Next]_vars

\* The lock's owner goes on, sends end (at the latest by their timeout), sleeps end,
\* and stop returns when it can.  Nobody has to record events or to stop.
Fairness ==
  /\ \A r \in Requests : WF_vars(Buffer(r))
  /\ \A k \in Loops : WF_vars(Wake(k)) /\ WF_vars(LoopFlush(k))
  /\ WF_vars(SendBatch) /\ WF_vars(StopReturns)

Spec == Safety /\ Fairness

-------------------------------------------------------------------------------
(* Properties *)

\* Types; nobody is in the line twice, and a flush belongs to the owner of the lock.
TypeOK ==
  /\ log \in 0 .. MaxEvents
  /\ event \in [Requests -> 0 .. log]
  /\ buffer \in Seq(1 .. log) /\ Len(buffer) < BatchSize
  /\ line \in Seq(Requests \cup Loops) /\ IsInjective(line)
  /\ Flushing => line # <<>> /\ flush.left # <<>>
  /\ loop \in [Loops -> {"unborn", "asleep", "awake", "over"}]
  /\ task \in Loops
  /\ stop \in {"no", "waiting", "done"}
  /\ sent \in [ToSet(Endpoints) -> Seq(1 .. log)]

\* Every endpoint is offered the audit log's events in the log's order, without a
\* gap and none twice, however requests, flushes and loops overlap.
AuditOrder == \A e \in ToSet(Endpoints) : \A i \in DOMAIN sent[e] : sent[e][i] = i

\* An audited event is with its request, in the buffer, in the batch being written,
\* or was offered.
Accounted ==
  \A e \in ToSet(Endpoints) :
    log = Cardinality({r \in Requests : event[r] \notin {0} \cup ToSet(flush.batch)})
            + Len(buffer)
            + (IF e \in ToSet(flush.left) THEN Len(flush.batch) ELSE 0)
            + Len(sent[e])

\* When stop has returned, nothing is left in the buffer (init_security.py:157,
\* "Graceful shutdown of all security components").
StopFlushes == stop = "done" => buffer = <<>>

\* No event is lost or told out of order between the callers and the endpoints, and
\* none is left behind by the shutdown.
AuditKept == AuditOrder /\ Accounted /\ StopFlushes

\* Buffers, batches and loops deliver the audit log to every endpoint: in its order, each
\* event once, and every event in the end.
Delivery == INSTANCE EventDelivery
              WITH Receivers <- ToSet(Endpoints), recorded <- log, told <- sent
ImplementsDelivery == Delivery!DeliverySpec

\* "Graceful shutdown of all security components" (init_security.py:157): when stop
\* has returned, no flush loop is left.
NoLoopLeft == stop = "done" => \A k \in Loops : loop[k] \in {"unborn", "over"}
===============================================================================
