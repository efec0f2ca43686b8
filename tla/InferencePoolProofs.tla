-------------------------- MODULE InferencePoolProofs -------------------------
(***************************************************************************)
(* Proofs about InferencePool, for every finite set of requests and every  *)
(* pool size: typing, slot accounting, the bound on the calls in the pool, *)
(* and that the protocol implements bounded admission.                     *)
(***************************************************************************)
EXTENDS InferencePool, FiniteSetTheorems, TLAPS

\* The inductive invariant.  Beside the accounting it says where a call can
\* be for each place of its coroutine, and that a call whose slot was given
\* back early (its request was cancelled) is only met once no request can be
\* admitted any more.
Cancelled == {r \in Requests : req[r] = "cancelled"}

Typed ==
  /\ slots \in Nat
  /\ req \in [Requests -> ReqState]
  /\ task \in [Requests -> TaskState]
  /\ phase \in Phase

Placed ==
  \A r \in Requests :
    /\ req[r] = "awaiting" => task[r] # "none"
    /\ task[r] # "none" => req[r] \in {"awaiting", "timeout", "cancelled"}

CancelledLate ==
  Cancelled # {} => /\ phase # "serving"
                    /\ \A r \in Requests : req[r] \notin {"acquiring", "awaiting"}

DrainedInv ==
  /\ phase \in {"draining", "down"} =>
       /\ \A r \in Requests : req[r] \notin {"acquiring", "awaiting"}
       /\ \A r \in Requests : task[r] # "queued"
  /\ phase = "down" => Executing = {}

IInv ==
  /\ Typed
  /\ SlotAccounting
  /\ Placed
  /\ CancelledLate
  /\ DrainedInv
  /\ NeverQueues

-------------------------------------------------------------------------------
(* Sets of requests are finite, so their cardinalities are comparable. *)

LEMMA CountRequests ==
  ASSUME NEW S \in SUBSET Requests
  PROVE  IsFiniteSet(S) /\ Cardinality(S) \in Nat
BY PoolAssumption, FS_Subset, FS_CardinalityType

\* A smaller set of requests is not larger in number.
LEMMA CountSmaller ==
  ASSUME NEW S \in SUBSET Requests, NEW T \in SUBSET S
  PROVE  Cardinality(T) <= Cardinality(S)
BY CountRequests, FS_Subset

LEMMA CountAdd ==
  ASSUME NEW S \in SUBSET Requests, NEW r \in Requests, r \notin S
  PROVE  Cardinality(S \cup {r}) = Cardinality(S) + 1
BY CountRequests, FS_AddElement

LEMMA CountRemove ==
  ASSUME NEW S \in SUBSET Requests, NEW r \in S
  PROVE  Cardinality(S \ {r}) = Cardinality(S) - 1
BY CountRequests, FS_RemoveElement

\* Removing a subset subtracts its number.
LEMMA CountMinus ==
  ASSUME NEW S \in SUBSET Requests, NEW T \in SUBSET S
  PROVE  Cardinality(S \ T) + Cardinality(T) = Cardinality(S)
<1>1. IsFiniteSet(S) /\ IsFiniteSet(T) /\ IsFiniteSet(S \ T)
  BY CountRequests
<1>2. T \cap S = T
  OBVIOUS
<1>3. Cardinality(S \ T) = Cardinality(S) - Cardinality(T)
  BY <1>1, <1>2, FS_Difference
<1>. QED  BY <1>1, <1>3, FS_CardinalityType

-------------------------------------------------------------------------------
(* What each action does to the holders of the slots. *)

LEMMA HoldersKept ==
  ASSUME Typed, Placed, NEW r \in Requests,
         \/ Arrive(r) \/ RejectSaturated(r) \/ TimeOut(r) \/ OrphanDone(r)
         \/ StartTask(r) \/ FinishTask(r)
  PROVE  Holders' = Holders /\ slots' = slots
<1>. USE DEF Typed, Placed, Holders, Answers
<1>1. CASE Arrive(r)  BY <1>1 DEF Arrive
<1>2. CASE RejectSaturated(r)  BY <1>2 DEF RejectSaturated
<1>3. CASE TimeOut(r)  BY <1>3 DEF TimeOut
<1>4. CASE OrphanDone(r)  BY <1>4 DEF OrphanDone
<1>5. CASE StartTask(r)  BY <1>5 DEF StartTask
<1>6. CASE FinishTask(r)
  <2>1. PICK o \in {"returned", "raised"} : task' = [task EXCEPT ![r] = o]
    BY <1>6 DEF FinishTask
  <2>. QED  BY <1>6, <2>1 DEF FinishTask
<1>. QED  BY <1>1, <1>2, <1>3, <1>4, <1>5, <1>6

LEMMA HolderEnters ==
  ASSUME Typed, NEW r \in Requests, Admit(r)
  PROVE  r \notin Holders /\ Holders' = Holders \cup {r}
BY DEF Typed, Holders, Admit

LEMMA HolderLeaves ==
  ASSUME Typed, NEW r \in Requests, Deliver(r) \/ AbandonedDone(r)
  PROVE  r \in Holders /\ Holders' = Holders \ {r}
<1>1. CASE Deliver(r)  BY <1>1 DEF Typed, Holders, Deliver
<1>2. CASE AbandonedDone(r)  BY <1>2 DEF Typed, Holders, AbandonedDone
<1>. QED  BY <1>1, <1>2

LEMMA HoldersCancelled ==
  ASSUME Typed, CancelRequests
  PROVE  LET A == {r \in Requests : req[r] = "awaiting"}
         IN  A \subseteq Holders /\ Holders' = Holders \ A
BY DEF Typed, Holders, CancelRequests

LEMMA HoldersElsewhere ==
  ASSUME Typed, \/ Stop \/ ShutdownPool \/ Drained
  PROVE  Holders' = Holders /\ slots' = slots
<1>1. CASE Stop  BY <1>1 DEF Stop, Holders
<1>2. CASE ShutdownPool  BY <1>2 DEF Typed, ShutdownPool, Holders
<1>3. CASE Drained  BY <1>3 DEF Drained, Holders
<1>. QED  BY <1>1, <1>2, <1>3

-------------------------------------------------------------------------------
(* The invariant is inductive: one lemma per conjunct. *)

LEMMA InitEstablishes == Init => IInv
<1>. SUFFICES ASSUME Init PROVE IInv
  OBVIOUS
<1>1. Holders = {} /\ Outstanding = {} /\ Cancelled = {}
  BY DEF Init, Holders, Outstanding, Cancelled
<1>2. Typed /\ Placed /\ CancelledLate /\ DrainedInv
  BY <1>1, PoolAssumption
  DEF Init, Typed, Placed, CancelledLate, DrainedInv, ReqState, TaskState, Phase
<1>3. SlotAccounting /\ NeverQueues
  BY <1>1, PoolAssumption, FS_EmptySet DEF Init, SlotAccounting, NeverQueues
<1>. QED  BY <1>2, <1>3 DEF IInv

LEMMA TypedStep ==
  ASSUME Typed, [Next]_vars  PROVE Typed'
<1>. USE DEF Typed, ReqState, TaskState, Phase, Answers
<1>1. ASSUME NEW r \in Requests, Arrive(r)  PROVE Typed'
  BY <1>1 DEF Arrive
<1>2. ASSUME NEW r \in Requests, Admit(r)  PROVE Typed'
  BY <1>2 DEF Admit
<1>3. ASSUME NEW r \in Requests, RejectSaturated(r)  PROVE Typed'
  BY <1>3 DEF RejectSaturated
<1>4. ASSUME NEW r \in Requests, Deliver(r)  PROVE Typed'
  BY <1>4 DEF Deliver
<1>5. ASSUME NEW r \in Requests, TimeOut(r)  PROVE Typed'
  BY <1>5 DEF TimeOut
<1>6. ASSUME NEW r \in Requests, AbandonedDone(r)  PROVE Typed'
  BY <1>6 DEF AbandonedDone
<1>7. ASSUME NEW r \in Requests, OrphanDone(r)  PROVE Typed'
  BY <1>7 DEF OrphanDone
<1>8. ASSUME NEW r \in Requests, StartTask(r)  PROVE Typed'
  BY <1>8 DEF StartTask
<1>9. ASSUME NEW r \in Requests, FinishTask(r)  PROVE Typed'
  BY <1>9 DEF FinishTask
<1>10. CASE Stop  BY <1>10 DEF Stop
<1>11. CASE CancelRequests
  <2>1. Cardinality({r \in Requests : req[r] = "awaiting"}) \in Nat
    BY CountRequests
  <2>. QED  BY <1>11, <2>1 DEF CancelRequests
<1>12. CASE ShutdownPool  BY <1>12 DEF ShutdownPool
<1>13. CASE Drained  BY <1>13 DEF Drained
<1>14. CASE UNCHANGED vars  BY <1>14 DEF vars
<1>. QED
  BY <1>1, <1>2, <1>3, <1>4, <1>5, <1>6, <1>7, <1>8, <1>9, <1>10, <1>11,
     <1>12, <1>13, <1>14 DEF Next

\* The permits add up across every step: the one that takes a slot makes a
\* holder, the ones that give it back remove as many.
LEMMA AccountingStep ==
  ASSUME Typed, Placed, SlotAccounting, [Next]_vars  PROVE SlotAccounting'
<1>. USE DEF SlotAccounting
<1>0. Holders \in SUBSET Requests /\ Cardinality(Holders) \in Nat
  BY CountRequests DEF Holders
<1>1. ASSUME NEW r \in Requests,
             \/ Arrive(r) \/ RejectSaturated(r) \/ TimeOut(r) \/ OrphanDone(r)
             \/ StartTask(r) \/ FinishTask(r)
      PROVE  SlotAccounting'
  BY <1>1, HoldersKept
<1>2. ASSUME NEW r \in Requests, Admit(r)  PROVE SlotAccounting'
  <2>1. Cardinality(Holders') = Cardinality(Holders) + 1
    BY <1>0, <1>2, HolderEnters, CountAdd
  <2>2. slots' = slots - 1
    BY <1>2 DEF Admit
  <2>. QED  BY <1>0, <2>1, <2>2, PoolAssumption DEF Typed
<1>3. ASSUME NEW r \in Requests, Deliver(r) \/ AbandonedDone(r)
      PROVE  SlotAccounting'
  <2>1. Cardinality(Holders') = Cardinality(Holders) - 1
    BY <1>0, <1>3, HolderLeaves, CountRemove
  <2>2. slots' = slots + 1
    BY <1>3 DEF Deliver, AbandonedDone
  <2>. QED  BY <1>0, <2>1, <2>2, PoolAssumption DEF Typed
<1>4. CASE CancelRequests
  <2>. DEFINE A == {r \in Requests : req[r] = "awaiting"}
  <2>1. A \in SUBSET Holders /\ Holders' = Holders \ A
    BY <1>4, HoldersCancelled
  <2>2. Cardinality(Holders \ A) + Cardinality(A) = Cardinality(Holders)
    BY <1>0, <2>1, CountMinus
  <2>3. slots' = slots + Cardinality(A)
    BY <1>4 DEF CancelRequests
  <2>4. Cardinality(A) \in Nat /\ Cardinality(Holders \ A) \in Nat
    BY <1>0, CountRequests
  <2>5. Cardinality(Holders') = Cardinality(Holders \ A)
    BY <2>1
  <2>. HIDE DEF A
  <2>. QED  BY <1>0, <2>2, <2>3, <2>4, <2>5, PoolAssumption DEF Typed
<1>5. CASE Stop \/ ShutdownPool \/ Drained
  BY <1>5, HoldersElsewhere
<1>6. CASE UNCHANGED vars
  BY <1>6 DEF vars, Holders
<1>. QED  BY <1>1, <1>2, <1>3, <1>4, <1>5, <1>6 DEF Next

LEMMA PlacedStep ==
  ASSUME Typed, Placed, [Next]_vars  PROVE Placed'
<1>. USE DEF Typed, Placed, Answers
<1>1. ASSUME NEW r \in Requests, Arrive(r)  PROVE Placed'
  BY <1>1 DEF Arrive
<1>2. ASSUME NEW r \in Requests, Admit(r)  PROVE Placed'
  BY <1>2 DEF Admit
<1>3. ASSUME NEW r \in Requests, RejectSaturated(r)  PROVE Placed'
  BY <1>3 DEF RejectSaturated
<1>4. ASSUME NEW r \in Requests, Deliver(r)  PROVE Placed'
  BY <1>4 DEF Deliver
<1>5. ASSUME NEW r \in Requests, TimeOut(r)  PROVE Placed'
  BY <1>5 DEF TimeOut
<1>6. ASSUME NEW r \in Requests, AbandonedDone(r)  PROVE Placed'
  BY <1>6 DEF AbandonedDone
<1>7. ASSUME NEW r \in Requests, OrphanDone(r)  PROVE Placed'
  BY <1>7 DEF OrphanDone
<1>8. ASSUME NEW r \in Requests, StartTask(r)  PROVE Placed'
  BY <1>8 DEF StartTask
<1>9. ASSUME NEW r \in Requests, FinishTask(r)  PROVE Placed'
  BY <1>9 DEF FinishTask
<1>10. CASE Stop  BY <1>10 DEF Stop
<1>11. CASE CancelRequests  BY <1>11 DEF CancelRequests
<1>12. CASE ShutdownPool  BY <1>12 DEF ShutdownPool
<1>13. CASE Drained  BY <1>13 DEF Drained
<1>14. CASE UNCHANGED vars  BY <1>14 DEF vars
<1>. QED
  BY <1>1, <1>2, <1>3, <1>4, <1>5, <1>6, <1>7, <1>8, <1>9, <1>10, <1>11,
     <1>12, <1>13, <1>14 DEF Next

\* Requests are cancelled all at once and only when the server stops, after
\* which none arrives: this is what keeps early given-back slots from being
\* taken again.
LEMMA CancelledLateStep ==
  ASSUME Typed, Placed, CancelledLate, DrainedInv, [Next]_vars  PROVE CancelledLate'
<1>. USE DEF Typed, Placed, CancelledLate, Cancelled, Answers
<1>1. ASSUME NEW r \in Requests, Arrive(r)  PROVE CancelledLate'
  BY <1>1 DEF Arrive
<1>2. ASSUME NEW r \in Requests, Admit(r)  PROVE CancelledLate'
  BY <1>2 DEF Admit
<1>3. ASSUME NEW r \in Requests, RejectSaturated(r)  PROVE CancelledLate'
  BY <1>3 DEF RejectSaturated
<1>4. ASSUME NEW r \in Requests, Deliver(r)  PROVE CancelledLate'
  BY <1>4 DEF Deliver
<1>5. ASSUME NEW r \in Requests, TimeOut(r)  PROVE CancelledLate'
  BY <1>5 DEF TimeOut
<1>6. ASSUME NEW r \in Requests, AbandonedDone(r)  PROVE CancelledLate'
  BY <1>6 DEF AbandonedDone
<1>7. ASSUME NEW r \in Requests, OrphanDone(r)  PROVE CancelledLate'
  BY <1>7 DEF OrphanDone
<1>8. ASSUME NEW r \in Requests, StartTask(r)  PROVE CancelledLate'
  BY <1>8 DEF StartTask
<1>9. ASSUME NEW r \in Requests, FinishTask(r)  PROVE CancelledLate'
  BY <1>9 DEF FinishTask
<1>10. CASE Stop  BY <1>10 DEF Stop
<1>11. CASE CancelRequests  BY <1>11 DEF CancelRequests
<1>12. CASE ShutdownPool  BY <1>12 DEF ShutdownPool
<1>13. CASE Drained  BY <1>13 DEF Drained
<1>14. CASE UNCHANGED vars  BY <1>14 DEF vars
<1>. QED
  BY <1>1, <1>2, <1>3, <1>4, <1>5, <1>6, <1>7, <1>8, <1>9,
     <1>10, <1>11, <1>12, <1>13, <1>14 DEF Next

\* Once the drain began nobody is admitted and no queued call is started.
LEMMA DrainedStep ==
  ASSUME Typed, Placed, DrainedInv, [Next]_vars  PROVE DrainedInv'
<1>. USE DEF Typed, Placed, DrainedInv, Executing, Phase, LoopRuns
<1>1. ASSUME NEW r \in Requests, Arrive(r)  PROVE DrainedInv'
  BY <1>1 DEF Arrive
<1>2. ASSUME NEW r \in Requests, Admit(r)  PROVE DrainedInv'
  BY <1>2 DEF Admit
<1>3. ASSUME NEW r \in Requests, RejectSaturated(r)  PROVE DrainedInv'
  BY <1>3 DEF RejectSaturated
<1>4. ASSUME NEW r \in Requests, Deliver(r)  PROVE DrainedInv'
  BY <1>4 DEF Deliver
<1>5. ASSUME NEW r \in Requests, TimeOut(r)  PROVE DrainedInv'
  BY <1>5 DEF TimeOut
<1>6. ASSUME NEW r \in Requests, AbandonedDone(r)  PROVE DrainedInv'
  BY <1>6 DEF AbandonedDone
<1>7. ASSUME NEW r \in Requests, OrphanDone(r)  PROVE DrainedInv'
  BY <1>7 DEF OrphanDone
<1>8. ASSUME NEW r \in Requests, StartTask(r)  PROVE DrainedInv'
  BY <1>8 DEF StartTask
<1>9. ASSUME NEW r \in Requests, FinishTask(r)  PROVE DrainedInv'
  BY <1>9 DEF FinishTask
<1>10. CASE Stop  BY <1>10 DEF Stop
<1>11. CASE CancelRequests  BY <1>11 DEF CancelRequests
<1>12. CASE ShutdownPool  BY <1>12 DEF ShutdownPool
<1>13. CASE Drained  BY <1>13 DEF Drained
<1>14. CASE UNCHANGED vars  BY <1>14 DEF vars
<1>. QED
  BY <1>1, <1>2, <1>3, <1>4, <1>5, <1>6, <1>7, <1>8, <1>9,
     <1>10, <1>11, <1>12, <1>13, <1>14 DEF Next

\* Only an admission adds a call to the pool, and it happens while every call
\* in the pool still owns its slot.
LEMMA NeverQueuesStep ==
  ASSUME IInv, [Next]_vars, SlotAccounting', Typed'  PROVE NeverQueues'
<1>. USE DEF IInv
<1>1. ASSUME NEW r \in Requests, Admit(r)  PROVE NeverQueues'
  <2>1. Cancelled = {}
    BY <1>1 DEF Admit, CancelledLate
  <2>2. Outstanding' \subseteq Holders'
    BY <1>1, <2>1 DEF Admit, Typed, Placed, Outstanding, Holders, Cancelled
  <2>3. Holders' \in SUBSET Requests /\ Outstanding' \in SUBSET Requests
    BY DEF Holders, Outstanding
  <2>4. Cardinality(Outstanding') <= Cardinality(Holders')
    BY <2>2, <2>3, CountSmaller
  <2>5. Cardinality(Outstanding') \in Nat /\ Cardinality(Holders') \in Nat
    BY <2>3, CountRequests
  <2>6. slots' + Cardinality(Holders') = PoolSize /\ slots' \in Nat
    BY DEF SlotAccounting, Typed
  <2>. QED  BY <2>4, <2>5, <2>6, PoolAssumption DEF NeverQueues
<1>2. ASSUME \/ \E r \in Requests :
                  \/ Arrive(r) \/ RejectSaturated(r) \/ Deliver(r) \/ TimeOut(r)
                  \/ AbandonedDone(r) \/ OrphanDone(r) \/ StartTask(r)
                  \/ FinishTask(r)
             \/ Stop \/ CancelRequests \/ ShutdownPool \/ Drained
             \/ UNCHANGED vars
      PROVE  NeverQueues'
  <2>1. Outstanding' \subseteq Outstanding
    BY <1>2 DEF Typed, Outstanding, Arrive, RejectSaturated, Deliver, TimeOut,
                AbandonedDone, OrphanDone, StartTask, FinishTask, Stop,
                CancelRequests, ShutdownPool, Drained, vars
  <2>2. Outstanding \in SUBSET Requests /\ Outstanding' \in SUBSET Requests
    BY DEF Outstanding
  <2>3. Cardinality(Outstanding') <= Cardinality(Outstanding)
    BY <2>1, <2>2, CountSmaller
  <2>4. Cardinality(Outstanding') \in Nat /\ Cardinality(Outstanding) \in Nat
    BY <2>2, CountRequests
  <2>. QED  BY <2>3, <2>4, PoolAssumption DEF NeverQueues
<1>. QED  BY <1>1, <1>2 DEF Next

-------------------------------------------------------------------------------
(* The theorems. *)

LEMMA Inductive == IInv /\ [Next]_vars => IInv'
<1>. SUFFICES ASSUME IInv, [Next]_vars PROVE IInv'
  OBVIOUS
<1>1. Typed'  BY TypedStep DEF IInv
<1>2. SlotAccounting'  BY AccountingStep DEF IInv
<1>3. Placed'  BY PlacedStep DEF IInv
<1>4. CancelledLate'  BY CancelledLateStep DEF IInv
<1>5. DrainedInv'  BY DrainedStep DEF IInv
<1>6. NeverQueues'  BY <1>1, <1>2, NeverQueuesStep
<1>. QED  BY <1>1, <1>2, <1>3, <1>4, <1>5, <1>6 DEF IInv

\* The strengthened invariant holds in every behaviour.
THEOREM Invariance == Spec => []IInv
BY InitEstablishes, Inductive, PTL DEF Spec, Safety

\* The variables keep their types and the semaphore never exceeds its permits,
\* whatever the pool's size and however many requests there are.
THEOREM TypeCorrect == Spec => []TypeOK
<1>1. IInv => TypeOK
  <2>. SUFFICES ASSUME IInv PROVE TypeOK
    OBVIOUS
  <2>1. Cardinality(Holders) \in Nat
    BY CountRequests DEF Holders
  <2>. QED  BY <2>1, PoolAssumption DEF IInv, Typed, SlotAccounting, TypeOK
<1>. QED  BY <1>1, Invariance, PTL

\* No way out of _run_inference leaks a permit or gives one back twice.
THEOREM SlotsAddUp == Spec => []SlotAccounting
<1>1. IInv => SlotAccounting  BY DEF IInv
<1>. QED  BY <1>1, Invariance, PTL

\* The pool never holds more calls than it has threads, so no call waits
\* behind an abandoned one.
THEOREM NoQueueing == Spec => []NeverQueues
<1>1. IInv => NeverQueues  BY DEF IInv
<1>. QED  BY <1>1, Invariance, PTL

\* When the lifespan's shutdown has returned, no call is queued or running.
THEOREM DrainIsComplete == Spec => []DrainedMeansIdle
<1>1. IInv => DrainedMeansIdle
  BY DEF IInv, DrainedInv, DrainedMeansIdle, Outstanding, Executing, Typed, TaskState
<1>. QED  BY <1>1, Invariance, PTL

\* The protocol of coroutines, timers, callbacks and threads implements bounded
\* admission (its safety part), with the slots' holders as those inside.
THEOREM AdmissionRefined == Spec => Admission!SafeSpec
<1>1. Init => Admission!Init
  BY DEF Init, Admission!Init, Holders
<1>2. IInv /\ [Next]_vars => [Admission!Next]_Holders
  <2>. SUFFICES ASSUME IInv, [Next]_vars PROVE [Admission!Next]_Holders
    OBVIOUS
  <2>. USE DEF IInv
  <2>1. ASSUME NEW r \in Requests, Admit(r)  PROVE Admission!Enter(r)
    <3>1. r \notin Holders /\ Holders' = Holders \cup {r}
      BY <2>1, HolderEnters
    <3>2. Cardinality(Holders) \in Nat
      BY CountRequests DEF Holders
    <3>3. slots > 0
      BY <2>1 DEF Admit
    <3>4. Cardinality(Holders) < PoolSize
      BY <3>2, <3>3, PoolAssumption DEF SlotAccounting, Typed
    <3>5. Admission!Cardinality(Holders) = Cardinality(Holders)
      BY DEF Admission!Cardinality, Cardinality
    <3>. QED  BY <3>1, <3>4, <3>5 DEF Admission!Enter
  <2>2. ASSUME NEW r \in Requests, Deliver(r) \/ AbandonedDone(r)
        PROVE  Admission!Leave({r})
    BY <2>2, HolderLeaves DEF Admission!Leave
  <2>3. CASE CancelRequests
    <3>. DEFINE A == {r \in Requests : req[r] = "awaiting"}
    <3>1. A \subseteq Holders /\ Holders' = Holders \ A
      BY <2>3, HoldersCancelled
    <3>2. A # {} => Admission!Leave(A)
      BY <3>1 DEF Admission!Leave
    <3>3. A = {} => Holders' = Holders
      BY <3>1
    <3>. QED  BY <3>2, <3>3 DEF Admission!Next
  <2>4. ASSUME NEW r \in Requests,
               \/ Arrive(r) \/ RejectSaturated(r) \/ TimeOut(r)
               \/ OrphanDone(r) \/ StartTask(r) \/ FinishTask(r)
        PROVE  Holders' = Holders
    BY <2>4, HoldersKept
  <2>5. CASE Stop \/ ShutdownPool \/ Drained
    BY <2>5, HoldersElsewhere
  <2>6. CASE UNCHANGED vars
    BY <2>6 DEF vars, Holders
  <2>. QED
    BY <2>1, <2>2, <2>3, <2>4, <2>5, <2>6 DEF Next, Admission!Next
<1>. QED  BY <1>1, <1>2, Invariance, PTL DEF Spec, Safety, Admission!SafeSpec
===============================================================================
