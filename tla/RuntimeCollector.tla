---------------------------- MODULE RuntimeCollector ---------------------------
(***************************************************************************)
(* layer2_runtime/telemetry.py: the collector that initialize_security_-   *)
(* architecture starts and shutdown_security_architecture stops.  A loop   *)
(* samples the process and sleeps; every metric has a baseline, which the  *)
(* first samples only teach.  Values are abstracted to whether they lie    *)
(* outside of their baseline's threshold.                                  *)
(*                                                                         *)
(* Nobody holds the collector's lock across an await, so taking it never   *)
(* suspends: one round of samples is one step, and a cancellation reaches  *)
(* a loop in its sleep or before its first step.                           *)
(***************************************************************************)
EXTENDS Integers, FiniteSets

CONSTANTS
  Callers,     \* tasks that stop the collector
  MaxStarts,   \* bound on the loops started
  MaxEvents,   \* max_events
  Warm         \* samples that only teach a baseline (10 in the code)

VARIABLES
  running,   \* _running
  task,      \* _collector_task, by the number of its loop; 0 if there was none
  loop,      \* where each loop is
  awaited,   \* the loop each caller of stop waits for, or 0
  kept,      \* length of _events
  samples,   \* sample_count of each metric's baseline, up to Warm
  anomalies   \* metrics an anomaly was reported of

collectorVars == <<running, task, loop, awaited, kept, samples, anomalies>>

Loops == 1 .. MaxStarts
ProcessMetrics == {"memory_rss", "cpu_percent"}
Metrics == ProcessMetrics \cup {"thread_count", "api_latency"}

CollectorInit ==
  /\ running = FALSE /\ task = 0
  /\ loop = [l \in Loops |-> "unborn"]
  /\ awaited = [c \in Callers |-> 0]
  /\ kept = 0
  /\ samples = [m \in Metrics |-> 0]
  /\ anomalies = {}

\* _events is a deque that forgets its oldest.
Remembered(n) == kept' = IF kept + n < MaxEvents THEN kept + n ELSE MaxEvents

\* _check_metric_anomaly of the metrics in measured, those in odd being outside.
Checked(measured, odd) ==
  /\ anomalies' = anomalies \cup {m \in measured \cap odd : samples[m] = Warm}
  /\ samples' = [m \in Metrics |->
                   IF m \in measured /\ samples[m] < Warm THEN samples[m] + 1 ELSE samples[m]]

-------------------------------------------------------------------------------
(* The loop *)

NextLoop == CHOOSE l \in Loops : loop[l] = "unborn"
MayStart == \E l \in Loops : loop[l] = "unborn"

BeginLoop ==
  /\ running' = TRUE
  /\ task' = NextLoop
  /\ loop' = [loop EXCEPT ![NextLoop] = "live"]

\* Slip: start without its early return.
StartAgain ==
  /\ MayStart /\ BeginLoop
  /\ UNCHANGED <<awaited, kept, samples, anomalies>>

StartCollector ==
  /\ MayStart
  /\ IF running THEN UNCHANGED <<running, task, loop>> ELSE BeginLoop
  /\ UNCHANGED <<awaited, kept, samples, anomalies>>

\* One round of _collection_loop.  What fails of it, by an exception of psutil, is
\* swallowed where it is: all of the process's samples, all of the threads', or all
\* of the connections'.
Round(l) ==
  /\ loop[l] = "live"
  /\ IF running
     THEN /\ \E process, threads \in BOOLEAN, connections \in 0 .. 1, odd \in SUBSET Metrics :
               LET measured == (IF process THEN ProcessMetrics ELSE {})
                                 \cup (IF threads THEN {"thread_count"} ELSE {})
               IN odd \subseteq measured
                    /\ Checked(measured, odd)
                    /\ Remembered(Cardinality(measured) + connections)
          /\ UNCHANGED loop
     ELSE loop' = [loop EXCEPT ![l] = "over"] /\ UNCHANGED <<kept, samples, anomalies>>
  /\ UNCHANGED <<running, task, awaited>>

\* The cancellation reaches the loop.
Cancelled(l) ==
  /\ loop[l] = "cancelled"
  /\ loop' = [loop EXCEPT ![l] = "over"]
  /\ UNCHANGED <<running, task, awaited, kept, samples, anomalies>>

-------------------------------------------------------------------------------
(* stop *)

Stop(c) ==
  /\ awaited[c] = 0
  /\ running' = FALSE
  /\ IF task = 0 \/ loop[task] = "over" THEN UNCHANGED <<loop, awaited>>
     ELSE /\ loop' = [loop EXCEPT ![task] = "cancelled"]
          /\ awaited' = [awaited EXCEPT ![c] = task]
  /\ UNCHANGED <<task, kept, samples, anomalies>>

StopReturns(c) ==
  /\ awaited[c] # 0 /\ loop[awaited[c]] = "over"
  /\ awaited' = [awaited EXCEPT ![c] = 0]
  /\ UNCHANGED <<running, task, loop, kept, samples, anomalies>>

-------------------------------------------------------------------------------
(* What others record *)

\* record_api_call
RecordApiCall(odd) ==
  /\ Remembered(1)
  /\ Checked({"api_latency"}, odd)
  /\ UNCHANGED <<running, task, loop, awaited>>

\* record_model_inference
RecordModelInference ==
  /\ Remembered(1)
  /\ UNCHANGED <<running, task, loop, awaited, samples, anomalies>>

CollectorNext ==
  \/ StartCollector
  \/ \E l \in Loops : Round(l) \/ Cancelled(l)
  \/ \E c \in Callers : Stop(c) \/ StopReturns(c)
  \/ \E odd \in {{}, {"api_latency"}} : RecordApiCall(odd)
  \/ RecordModelInference

CollectorSpec == CollectorInit /\ [][CollectorNext]_collectorVars

-------------------------------------------------------------------------------
(* Properties *)

\* Types of the collector.
CollectorTypeOK ==
  /\ running \in BOOLEAN /\ task \in 0 .. MaxStarts
  /\ loop \in [Loops -> {"unborn", "live", "cancelled", "over"}]
  /\ awaited \in [Callers -> 0 .. MaxStarts]
  /\ kept \in 0 .. MaxEvents
  /\ samples \in [Metrics -> 0 .. Warm]
  /\ anomalies \subseteq {m \in Metrics : samples[m] = Warm}

\* However starts and stops overlap, one loop at most goes on sampling, it is the one
\* that the next stop ends, and none does after a stop: the flag alone would not do, a
\* start during a stopped loop's sleep would wake it up beside the new one.
OneSampler == {l \in Loops : loop[l] = "live"} = IF running THEN {task} ELSE {}
===============================================================================
