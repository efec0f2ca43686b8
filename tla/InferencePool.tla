----------------------------- MODULE InferencePool ----------------------------
(***************************************************************************)
(* main._run_inference: requests on the asyncio loop hand CPU-bound model  *)
(* calls to a thread pool.  A semaphore (the slots) admits them, a wall    *)
(* clock abandons the slow ones, and a thread cannot be cancelled, so an   *)
(* abandoned call runs on.  The lifespan's shutdown drains the pool.       *)
(*                                                                         *)
(* A request identity is reused for the next request once its answer is    *)
(* out and its thread is done, so a behaviour holds any number of calls.   *)
(***************************************************************************)
EXTENDS Integers, FiniteSets

CONSTANTS Requests,    \* identities of concurrent requests
          PoolSize     \* INFERENCE_POOL_SIZE: threads, and semaphore permits

ASSUME PoolAssumption ==
  /\ IsFiniteSet(Requests)
  /\ PoolSize \in Nat \ {0}

VARIABLES
  slots,    \* value of the semaphore _INFERENCE_SLOTS
  req,      \* where each request's coroutine is
  task,     \* where the call it handed to the pool is
  phase     \* the server: serving, stopping (no new requests), in the
            \* lifespan's drain of the pool, or down

vars == <<slots, req, task, phase>>

Answers   == {"ok", "error", "saturated", "timeout", "cancelled"}
ReqState  == {"idle", "acquiring", "awaiting"} \cup Answers
TaskState == {"none", "queued", "executing", "returned", "raised"}
Phase     == {"serving", "stopping", "draining", "down"}

Executing   == {r \in Requests : task[r] = "executing"}
Outstanding == {r \in Requests : task[r] \in {"queued", "executing"}}

\* A slot is held by a coroutine awaiting its result and, after a timeout, by
\* the done-callback on the abandoned future.
Holders == {r \in Requests : \/ req[r] = "awaiting"
                             \/ req[r] = "timeout" /\ task[r] # "none"}

\* INFERENCE_POOL.shutdown(wait=True) is called on the loop's own thread: while
\* it waits, no coroutine, timer or callback runs.
LoopRuns == phase # "draining"

Init ==
  /\ slots = PoolSize
  /\ req = [r \in Requests |-> "idle"]
  /\ task = [r \in Requests |-> "none"]
  /\ phase = "serving"

-------------------------------------------------------------------------------
(* Coroutine steps, on the event loop *)

\* A new request reaches _run_inference and waits at most 50 ms for a slot.
Arrive(r) ==
  /\ phase = "serving"
  /\ req[r] = "idle" \/ (req[r] \in Answers /\ task[r] = "none")
  /\ req' = [req EXCEPT ![r] = "acquiring"]
  /\ UNCHANGED <<slots, task, phase>>

\* acquire() returned: the call goes to the pool's queue in the same step.
Admit(r) ==
  /\ LoopRuns
  /\ req[r] = "acquiring"
  /\ slots > 0
  /\ slots' = slots - 1
  /\ req' = [req EXCEPT ![r] = "awaiting"]
  /\ task' = [task EXCEPT ![r] = "queued"]
  /\ UNCHANGED phase

\* Slip: acquire() awaited without the 50 ms limit.
RejectNever(r) == FALSE

\* The 50 ms are over: 503 "Inference capacity exhausted".
RejectSaturated(r) ==
  /\ LoopRuns
  /\ req[r] = "acquiring"
  /\ req' = [req EXCEPT ![r] = "saturated"]
  /\ UNCHANGED <<slots, task, phase>>

\* Slip: the slot comes back only with a result, not with an exception.
DeliverLeaksOnError(r) ==
  /\ LoopRuns
  /\ req[r] = "awaiting"
  /\ task[r] \in {"returned", "raised"}
  /\ slots' = IF task[r] = "returned" THEN slots + 1 ELSE slots
  /\ req' = [req EXCEPT ![r] = IF task[r] = "returned" THEN "ok" ELSE "error"]
  /\ task' = [task EXCEPT ![r] = "none"]
  /\ UNCHANGED phase

\* The future is done while the coroutine awaits it: the result, or what the
\* callable raised, is the answer, and the slot is given back.
Deliver(r) ==
  /\ LoopRuns
  /\ req[r] = "awaiting"
  /\ task[r] \in {"returned", "raised"}
  /\ slots' = slots + 1
  /\ req' = [req EXCEPT ![r] = IF task[r] = "returned" THEN "ok" ELSE "error"]
  /\ task' = [task EXCEPT ![r] = "none"]
  /\ UNCHANGED phase

\* Slip: the timeout gives the slot back while the thread is still busy.
TimeOutReleases(r) ==
  /\ LoopRuns
  /\ req[r] = "awaiting"
  /\ req' = [req EXCEPT ![r] = "timeout"]
  /\ slots' = slots + 1
  /\ UNCHANGED <<task, phase>>

\* The wall clock fires first: 503, and the slot stays with the future.  The
\* thread may have finished already, its completion not yet seen by the loop.
TimeOut(r) ==
  /\ LoopRuns
  /\ req[r] = "awaiting"
  /\ req' = [req EXCEPT ![r] = "timeout"]
  /\ UNCHANGED <<slots, task, phase>>

\* Slip: no done-callback on the abandoned future.
AbandonedForgotten(r) ==
  /\ LoopRuns
  /\ req[r] = "timeout"
  /\ task[r] \in {"returned", "raised"}
  /\ task' = [task EXCEPT ![r] = "none"]
  /\ UNCHANGED <<slots, req, phase>>

\* The done-callback of an abandoned future: only now is the slot free.
AbandonedDone(r) ==
  /\ LoopRuns
  /\ req[r] = "timeout"
  /\ task[r] \in {"returned", "raised"}
  /\ slots' = slots + 1
  /\ task' = [task EXCEPT ![r] = "none"]
  /\ UNCHANGED <<req, phase>>

\* The future of a cancelled request completes: nobody looks at it.
OrphanDone(r) ==
  /\ LoopRuns
  /\ req[r] = "cancelled"
  /\ task[r] \in {"returned", "raised"}
  /\ task' = [task EXCEPT ![r] = "none"]
  /\ UNCHANGED <<slots, req, phase>>

-------------------------------------------------------------------------------
(* The pool's threads *)

StartTask(r) ==
  /\ phase \in {"serving", "stopping"}
  /\ task[r] = "queued"
  /\ Cardinality(Executing) < PoolSize
  /\ task' = [task EXCEPT ![r] = "executing"]
  /\ UNCHANGED <<slots, req, phase>>

FinishTask(r) ==
  /\ task[r] = "executing"
  /\ \E outcome \in {"returned", "raised"} :
       task' = [task EXCEPT ![r] = outcome]
  /\ UNCHANGED <<slots, req, phase>>

-------------------------------------------------------------------------------
(* The server's shutdown *)

\* The server closes its listening sockets: no request arrives from now on.
Stop ==
  /\ phase = "serving"
  /\ phase' = "stopping"
  /\ UNCHANGED <<slots, req, task>>

\* Its patience is over: it cancels the tasks of all requests at once.  Where
\* one awaits its result, `except BaseException` gives the slot back at once,
\* whatever the thread still does.
CancelRequests ==
  LET awaiting == {r \in Requests : req[r] = "awaiting"}
      inFlight == awaiting \cup {r \in Requests : req[r] = "acquiring"}
  IN /\ phase = "stopping"
     /\ inFlight # {}
     /\ slots' = slots + Cardinality(awaiting)
     /\ req' = [r \in Requests |-> IF r \in inFlight THEN "cancelled" ELSE req[r]]
     /\ UNCHANGED <<task, phase>>

\* No request is left: the lifespan's shutdown starts.  cancel_futures drops
\* the queued calls, which completes their futures.
ShutdownPool ==
  /\ phase = "stopping"
  /\ \A r \in Requests : req[r] \notin {"acquiring", "awaiting"}
  /\ phase' = "draining"
  /\ task' = [r \in Requests |-> IF task[r] = "queued" THEN "raised" ELSE task[r]]
  /\ UNCHANGED <<slots, req>>

\* Slip: shutdown(wait=False).
DrainedAtOnce ==
  /\ phase = "draining"
  /\ phase' = "down"
  /\ UNCHANGED <<slots, req, task>>

\* wait=True: shutdown returns when the last thread has ended.
Drained ==
  /\ phase = "draining"
  /\ Executing = {}
  /\ phase' = "down"
  /\ UNCHANGED <<slots, req, task>>

-------------------------------------------------------------------------------
Coroutine(r) ==
  \/ Admit(r) \/ RejectSaturated(r) \/ Deliver(r) \/ TimeOut(r)
  \/ AbandonedDone(r) \/ OrphanDone(r)

Next ==
  \/ \E r \in Requests :
       \/ Arrive(r) \/ Admit(r) \/ RejectSaturated(r) \/ Deliver(r)
       \/ TimeOut(r) \/ AbandonedDone(r) \/ OrphanDone(r)
       \/ StartTask(r) \/ FinishTask(r)
  \/ Stop \/ CancelRequests \/ ShutdownPool \/ Drained

Safety == Init /\ [][Next]_vars

\* Timers fire and ready coroutines run (weak); the pool's queue is first in,
\* first out, so a queued call is not overtaken for ever (strong); inference
\* on a bounded batch terminates (weak).  Nobody has to send requests or to stop
\* the server.
Fairness ==
  /\ \A r \in Requests : /\ WF_vars(Coroutine(r))
                         /\ SF_vars(StartTask(r))
                         /\ WF_vars(FinishTask(r))
  /\ WF_vars(Drained)

Spec == Safety /\ Fairness

-------------------------------------------------------------------------------
(* Properties *)

\* The variables keep their types; the semaphore never exceeds its permits.
TypeOK ==
  /\ slots \in 0 .. PoolSize
  /\ req \in [Requests -> ReqState]
  /\ task \in [Requests -> TaskState]
  /\ phase \in Phase

\* Every permit is either free or held by exactly one request or abandoned
\* future: none leaks on any of the five ways out of _run_inference, and none
\* is given back twice.
SlotAccounting == slots + Cardinality(Holders) = PoolSize

\* After the lifespan's shutdown returned, no call is queued or running.
DrainedMeansIdle == phase = "down" => Outstanding = {}

\* The comment at _INFERENCE_SLOTS (main.py:89-93): the semaphore bounds how
\* many calls are in the pool, abandoned ones included, so that none of them
\* ever waits behind another.  Slots given back by a cancelled request while
\* its thread runs on must not break it.
NeverQueues == Cardinality(Outstanding) <= PoolSize

\* Every request that reaches the pool's admission gets an answer.
EveryRequestAnswered ==
  \A r \in Requests : req[r] = "acquiring" ~> req[r] \in Answers

\* "the pool self-heals without permanently latching" (main.py:120-121): with
\* every slot taken, abandoned calls included, one comes free again.
SelfHeals == slots = 0 ~> slots > 0

\* The detailed protocol implements bounded admission, its liveness included.
Admission == INSTANCE AdmissionControl
               WITH Capacity <- PoolSize, inside <- Holders
ImplementsAdmission == Admission!Spec
===============================================================================
