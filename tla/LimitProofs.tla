------------------------------ MODULE LimitProofs ------------------------------
(***************************************************************************)
(* What holds back a client that tries too often, the limiter and the      *)
(* lockout, and what decides a step-up, for every configuration of theirs  *)
(* and every number of requests in flight; and the three side by side.     *)
(***************************************************************************)
EXTENDS MCAccount, FiniteSetTheorems, WellFoundedInduction, TLAPS

\* What is in flight, and what answering one of it does to its number.
LEMMA PendingSize ==
  ASSUME NEW All, IsFiniteSet(All), NEW S \in SUBSET All
  PROVE  /\ Cardinality(S) \in Nat /\ Cardinality(All) \in Nat
         /\ Cardinality(S) <= Cardinality(All)
         /\ \A r \in S : Cardinality(S \ {r}) = Cardinality(S) - 1
<1>1. IsFiniteSet(S) /\ Cardinality(S) <= Cardinality(All)
  BY FS_Subset
<1>2. Cardinality(S) \in Nat /\ Cardinality(All) \in Nat
  BY <1>1, FS_CardinalityType
<1>3. \A r \in S : Cardinality(S \ {r}) = Cardinality(S) - 1
  BY <1>1, FS_RemoveElement
<1> QED
  BY <1>1, <1>2, <1>3

-------------------------------------------------------------------------------
(* Lockout *)

\* The duration a lockout selects is a positive number of ticks.
LEMMA DurationType ==
  ASSUME NEW n \in 0 .. Len(Durations) - 1
  PROVE  Duration(n) \in Nat \ {0}
<1>1. Durations \in Seq(Nat \ {0}) /\ Len(Durations) \in Nat
  BY LockoutAssumption
<1>2. n + 1 \in 1 .. Len(Durations)
  BY <1>1
<1> QED
  BY <1>1, <1>2 DEF Duration

\* The next lockout_count still selects a duration.
LEMMA NextCountType ==
  ASSUME count \in 0 .. Len(Durations) - 1
  PROVE  NextCount \in 0 .. Len(Durations) - 1
<1>1. Len(Durations) \in Nat
  BY LockoutAssumption
<1> QED
  BY <1>1 DEF NextCount

\* TypeOK is inductive: its last two conjuncts are what keeps an active account
\* under the threshold and a soft lock ending.
LEMMA TypeStep ==
  ASSUME TypeOK, [Next]_vars
  PROVE  TypeOK'
<1> USE DEF TypeOK
<1>0. /\ Threshold \in Nat \ {0}
      /\ NextCount \in 0 .. Len(Durations) - 1
      /\ Duration(NextCount) \in Nat \ {0}
  BY LockoutAssumption, NextCountType, DurationType
<1>1. ASSUME NEW r \in Requests, Admit(r)  PROVE TypeOK'
  BY <1>0, <1>1 DEF Admit, Expired, Activate, LockoutState, NoTimer
<1>2. ASSUME NEW r \in Requests, Fail(r)  PROVE TypeOK'
  <2>1. CASE failed + 1 >= Threshold /\ state = "ACTIVE"
    BY <1>0, <1>2, <2>1 DEF Fail, LockoutState, NoTimer
  <2>2. CASE ~(failed + 1 >= Threshold /\ state = "ACTIVE")
    BY <1>0, <1>2, <2>2 DEF Fail
  <2> QED
    BY <2>1, <2>2
<1>3. ASSUME NEW r \in Requests, Succeed(r)  PROVE TypeOK'
  BY <1>0, <1>3 DEF Succeed, Activate, LockoutState, NoTimer
<1>4. CASE Unlock
  BY <1>0, <1>4 DEF Unlock, Activate, LockoutState, NoTimer
<1>5. CASE Quarantine
  BY <1>0, <1>5 DEF Quarantine, LockoutState
<1>6. CASE Tick
  BY <1>0, <1>6 DEF Tick, NoTimer
<1>7. ASSUME NEW r \in Requests, Drop(r)  PROVE TypeOK'
  BY <1>7 DEF Drop
<1>8. CASE UNCHANGED vars
  BY <1>8 DEF vars
<1> QED
  BY <1>1, <1>2, <1>3, <1>4, <1>5, <1>6, <1>7, <1>8 DEF Next, Refuse

\* In every reachable state the parts of an account's lockout fit together: it is
\* active below the threshold without an unlock_at, or soft-locked with one.
THEOREM TypeCorrect == Safety => []TypeOK
<1>1. Init => TypeOK
  <2>1. Threshold \in Nat \ {0} /\ Len(Durations) \in Nat \ {0}
    BY LockoutAssumption
  <2> QED
    BY <2>1 DEF Init, TypeOK, LockoutState, NoTimer
<1>2. TypeOK /\ [Next]_vars => TypeOK'
  BY TypeStep
<1> QED
  BY <1>1, <1>2, PTL DEF Safety

\* A login is admitted to an account below the threshold only, so the bound holds
\* there; a record moves a login from pending to failed, clears failed, or
\* drops the login.
LEMMA FailuresStep ==
  ASSUME TypeOK, FailuresBounded, [Next]_vars
  PROVE  FailuresBounded'
<1> USE DEF FailuresBounded
<1>a. /\ Threshold \in Nat \ {0} /\ failed \in Nat
      /\ state = "ACTIVE" => failed < Threshold
  BY LockoutAssumption DEF TypeOK
<1>b. /\ Cardinality(pending) \in Nat /\ Cardinality(Requests) \in Nat
      /\ Cardinality(pending) <= Cardinality(Requests)
      /\ \A r \in pending : Cardinality(pending \ {r}) = Cardinality(pending) - 1
  BY PendingSize, LockoutAssumption DEF TypeOK
<1>1. ASSUME NEW r \in Requests, Admit(r)  PROVE FailuresBounded'
  <2>1. pending' \in SUBSET Requests
    BY <1>1 DEF Admit, TypeOK
  <2>2. Cardinality(pending') \in Nat /\ Cardinality(pending') <= Cardinality(Requests)
    BY <2>1, PendingSize, LockoutAssumption
  <2>3. failed' \in Nat /\ failed' < Threshold
    BY <1>1, <1>a DEF Admit, Expired, Activate
  <2> QED
    BY <2>2, <2>3, <1>a, <1>b
<1>2. ASSUME NEW r \in Requests, Record(r)  PROVE FailuresBounded'
  <2>1. r \in pending /\ pending' = pending \ {r} /\ failed' \in {0, failed, failed + 1}
    BY <1>2 DEF Record, Fail, Succeed, Drop, Activate
  <2>2. Cardinality(pending') = Cardinality(pending) - 1
    BY <2>1, <1>b
  <2> QED
    BY <2>1, <2>2, <1>a, <1>b
<1>3. CASE Unlock
  BY <1>3, <1>a, <1>b DEF Unlock, Activate
<1>4. CASE Quarantine \/ Tick \/ UNCHANGED vars
  BY <1>4 DEF Quarantine, Tick, vars
<1> QED
  BY <1>1, <1>2, <1>3, <1>4 DEF Next, Refuse, Record

\* The failures counted against an account exceed the threshold by less than the
\* number of logins that may be in flight at once (check_lockout and
\* record_failed_attempt are two calls).
THEOREM Bounded == Safety => []FailuresBounded
<1>1. Init => FailuresBounded
  <2>1. {} \in SUBSET Requests
    OBVIOUS
  <2>2. Cardinality({}) <= Cardinality(Requests) /\ Cardinality({}) \in Nat
        /\ Cardinality(Requests) \in Nat
    BY <2>1, PendingSize, LockoutAssumption
  <2> QED
    BY <2>2, LockoutAssumption DEF Init, FailuresBounded
<1>2. TypeOK /\ FailuresBounded /\ [Next]_vars => FailuresBounded'
  BY FailuresStep
<1> QED
  BY <1>1, <1>2, TypeCorrect, PTL DEF Safety

\* A quarantine is left by unlock_account alone, a soft lock before its time only
\* by that or by the success of a login in flight.
THEOREM Holds == Safety => LockHolds
<1> DEFINE Held ==
      /\ state = "QUARANTINED" => state' = state \/ Unlock
      /\ state = "SOFT_LOCKED" /\ timer > 0 /\ state' = "ACTIVE" =>
           Unlock \/ \E r \in pending : Succeed(r)
<1>1. [Next]_vars => [Held]_vars
  <2> SUFFICES ASSUME Next  PROVE Held
    OBVIOUS
  <2>1. ASSUME NEW r \in Requests, Admit(r)  PROVE Held
    BY <2>1 DEF Admit, Expired, Activate
  <2>2. ASSUME NEW r \in Requests, Fail(r)  PROVE Held
    BY <2>2 DEF Fail
  <2>3. ASSUME NEW r \in Requests, Succeed(r)  PROVE Held
    <3>1. r \in pending
      BY <2>3 DEF Succeed
    <3>2. state = "QUARANTINED" => state' = state
      BY <2>3 DEF Succeed
    <3> QED
      BY <2>3, <3>1, <3>2
  <2>4. CASE Unlock
    BY <2>4
  <2>5. CASE Quarantine \/ Tick \/ \E r \in Requests : Refuse(r) \/ Drop(r)
    BY <2>5 DEF Quarantine, Tick, Refuse, Drop, vars
  <2> QED
    BY <2>1, <2>2, <2>3, <2>4, <2>5 DEF Next
<1> QED
  BY <1>1, PTL DEF Safety, LockHolds

-------------------------------------------------------------------------------
(* The limiter's windows and penalties *)

\* The part of LimiterTypeOK the argument needs.
Counters ==
  /\ requestCount \in Nat
  /\ level \in Nat
  /\ checked \in SUBSET Attempts

\* The window in force at a check holds a natural number of attempts.
LEMMA CountNowIsNat == ASSUME requestCount \in Nat PROVE CountNow \in Nat
  BY DEF CountNow

\* An escalation always ends above level 0.
LEMMA EscalateRaises ==
  ASSUME level \in Nat, Escalate
  PROVE  level' \in Nat /\ level' > 0
  BY LimiterAssumption DEF Escalate

\* The counters keep their types.
LEMMA CountersStep ==
  ASSUME Counters, [LimiterNext]_limiterVars
  PROVE  Counters'
<1>1. ASSUME NEW r \in Attempts, Allow(r)  PROVE Counters'
  BY <1>1, CountNowIsNat, EscalateRaises DEF Allow, WindowReset, Counters
<1>2. ASSUME NEW r \in Attempts, Deny(r)  PROVE Counters'
  BY <1>2, CountNowIsNat DEF Deny, WindowReset, Counters
<1>3. ASSUME NEW r \in Attempts, RecordSuccess(r)  PROVE Counters'
  BY <1>3 DEF RecordSuccess, Counters
<1>4. ASSUME NEW r \in Attempts, RecordFailure(r)  PROVE Counters'
  BY <1>4, EscalateRaises DEF RecordFailure, Counters
<1>5. CASE Reset
  BY <1>5 DEF Reset, Counters
<1>6. CASE LimiterTick
  BY <1>6 DEF LimiterTick, Counters
<1>7. ASSUME NEW r \in Attempts, Unrecorded(r)  PROVE Counters'
  BY <1>7 DEF Unrecorded, Counters
<1>8. CASE UNCHANGED limiterVars
  BY <1>8 DEF limiterVars, Counters
<1> QED
  BY <1>1, <1>2, <1>3, <1>4, <1>5, <1>6, <1>7, <1>8 DEF LimiterNext

\* A check counts its own window only; a record moves a request from pending to
\* the count, or drops it.  So the bound survives each of them.
LEMMA OvershootStep ==
  ASSUME Counters, OvershootBounded, [LimiterNext]_limiterVars
  PROVE  OvershootBounded'
<1> USE DEF OvershootBounded
<1>0. MaxRequests \in Nat \ {0}
  BY LimiterAssumption
<1>a. checked' \in SUBSET Attempts
  BY CountersStep DEF Counters
<1>b. /\ Cardinality(checked) \in Nat
      /\ Cardinality(Attempts) \in Nat
      /\ Cardinality(checked) <= Cardinality(Attempts)
      /\ \A r \in checked : Cardinality(checked \ {r}) = Cardinality(checked) - 1
  BY PendingSize, LimiterAssumption DEF Counters
<1>c. Cardinality(checked') \in Nat /\ Cardinality(checked') <= Cardinality(Attempts)
  BY <1>a, PendingSize, LimiterAssumption
<1>1. ASSUME NEW r \in Attempts, Allow(r)  PROVE OvershootBounded'
  <2>1. requestCount' = CountNow /\ CountNow \in Nat /\ CountNow + 1 <= MaxRequests
    BY <1>1, CountNowIsNat DEF Allow, WindowReset, Counters
  <2> QED
    BY <2>1, <1>0, <1>b, <1>c
<1>2. ASSUME NEW r \in Attempts, Deny(r)  PROVE OvershootBounded'
  <2>1. checked' = checked /\ requestCount' \in {0, requestCount}
    BY <1>2 DEF Deny, WindowReset, CountNow
  <2> QED
    BY <2>1, <1>0, <1>b DEF Counters
<1>3. ASSUME NEW r \in Attempts, Answered(r)  PROVE OvershootBounded'
  <2>1. /\ r \in checked /\ checked' = checked \ {r}
        /\ requestCount' \in {requestCount, requestCount + 1}
    BY <1>3 DEF Answered, RecordSuccess, RecordFailure, Unrecorded
  <2>2. Cardinality(checked') = Cardinality(checked) - 1
    BY <2>1, <1>b
  <2> QED
    BY <2>1, <2>2, <1>0, <1>b DEF Counters
<1>4. CASE Reset
  BY <1>4, <1>0, <1>b DEF Reset
<1>5. CASE LimiterTick \/ UNCHANGED limiterVars
  BY <1>5 DEF LimiterTick, limiterVars
<1> QED
  BY <1>1, <1>2, <1>3, <1>4, <1>5 DEF LimiterNext, Answered

\* Between two resets of the window, checks that overlap let the count exceed the
\* limit by less than the number of requests that may overlap (check_limit and
\* record_attempt are two calls).
THEOREM Overshoot == LimiterSafety => []OvershootBounded
<1>1. ASSUME LimiterInit  PROVE Counters /\ OvershootBounded
  <2>1. Counters
    BY <1>1 DEF LimiterInit, Counters
  <2>2. Cardinality(checked) <= Cardinality(Attempts) /\ Cardinality(checked) \in Nat
        /\ Cardinality(Attempts) \in Nat
    BY <1>1, <2>1, PendingSize, LimiterAssumption DEF Counters
  <2> QED
    BY <1>1, <2>1, <2>2, LimiterAssumption DEF LimiterInit, OvershootBounded
<1>2. ASSUME Counters /\ OvershootBounded, [LimiterNext]_limiterVars
      PROVE  (Counters /\ OvershootBounded)'
  BY <1>2, CountersStep, OvershootStep
<1> QED
  BY <1>1, <1>2, PTL DEF LimiterSafety

\* The penalty timer runs only above level 0.
LEMMA PenaltyStep ==
  ASSUME Counters, PenaltyMatchesLevel, [LimiterNext]_limiterVars
  PROVE  PenaltyMatchesLevel'
<1> USE DEF PenaltyMatchesLevel
<1>1. ASSUME NEW r \in Attempts, Allow(r)  PROVE PenaltyMatchesLevel'
  BY <1>1, EscalateRaises DEF Allow, Counters
<1>2. ASSUME NEW r \in Attempts, Deny(r)  PROVE PenaltyMatchesLevel'
  BY <1>2 DEF Deny
<1>3. ASSUME NEW r \in Attempts, RecordSuccess(r)  PROVE PenaltyMatchesLevel'
  BY <1>3 DEF RecordSuccess, Counters
<1>4. ASSUME NEW r \in Attempts, RecordFailure(r)  PROVE PenaltyMatchesLevel'
  BY <1>4, EscalateRaises DEF RecordFailure, Counters
<1>5. CASE Reset
  BY <1>5 DEF Reset
<1>6. CASE LimiterTick
  BY <1>6 DEF LimiterTick
<1>7. ASSUME NEW r \in Attempts, Unrecorded(r)  PROVE PenaltyMatchesLevel'
  BY <1>7 DEF Unrecorded
<1>8. CASE UNCHANGED limiterVars
  BY <1>8 DEF limiterVars
<1> QED
  BY <1>1, <1>2, <1>3, <1>4, <1>5, <1>6, <1>7, <1>8 DEF LimiterNext

\* A success that brings the level of an identifier to 0 ends its penalty, however
\* checks and records interleave (record_attempt clears penalty_until).
THEOREM PenaltyConsistent == LimiterSafety => []PenaltyMatchesLevel
<1>1. ASSUME LimiterInit  PROVE Counters /\ PenaltyMatchesLevel
  BY <1>1 DEF LimiterInit, Counters, PenaltyMatchesLevel
<1>2. ASSUME Counters /\ PenaltyMatchesLevel, [LimiterNext]_limiterVars
      PROVE  (Counters /\ PenaltyMatchesLevel)'
  BY <1>2, CountersStep, PenaltyStep
<1> QED
  BY <1>1, <1>2, PTL DEF LimiterSafety

\* The invariant of a span: what has passed is in the window there is, or the window was
\* reset since the span began; a second reset in it is not possible, as the window is as old
\* as the span at most.
SpanInv ==
  /\ Counters /\ OvershootBounded /\ age \in Nat
  /\ elapsed \in {NotMeasuring} \cup 0 .. WindowTicks /\ passed \in Nat
  /\ ~Measuring => passed = 0
  /\ Measuring =>
       \/ passed <= requestCount
       \/ /\ age <= elapsed
          /\ passed <= MaxRequests - 1 + Cardinality(Attempts) + requestCount

\* What the span watches is the limiter.
LEMMA SpanIsLimiter == SpanNext => [LimiterNext]_limiterVars
  BY Zenon DEF SpanNext, LimiterNext, Begin

LEMMA SpanWatches == SpanSpec => LimiterSafety
<1>1. SpanInit => LimiterInit
  BY DEF SpanInit
<1>2. [SpanNext]_<<limiterVars, spanVars>> => [LimiterNext]_limiterVars
  BY SpanIsLimiter, Zenon
<1> QED
  BY <1>1, <1>2, PTL DEF SpanSpec, LimiterSafety

\* A check may reset the window only when it is older than the span can be.
LEMMA SpanStep ==
  ASSUME SpanInv, [SpanNext]_<<limiterVars, spanVars>>
  PROVE  SpanInv'
<1> USE DEF Measuring, NotMeasuring
<1>0. /\ MaxRequests \in Nat \ {0} /\ WindowTicks \in Nat /\ Cardinality(Attempts) \in Nat
      /\ Cardinality(checked) \in Nat
  BY PendingSize, LimiterAssumption DEF SpanInv, Counters
<1>1. Counters' /\ OvershootBounded'
  <2>1. [LimiterNext]_limiterVars
    BY SpanIsLimiter, Zenon
  <2> QED
    BY <2>1, CountersStep, OvershootStep DEF SpanInv
<1>2. requestCount \in Nat /\ requestCount <= MaxRequests - 1 + Cardinality(Attempts)
  BY <1>0 DEF SpanInv, Counters, OvershootBounded
<1>3. ASSUME NEW r \in Attempts, Allow(r) \/ Deny(r), UNCHANGED spanVars
      PROVE  SpanInv'
  <2>1. WindowReset /\ elapsed' = elapsed /\ passed' = passed
    BY <1>3 DEF Allow, Deny, spanVars
  <2>2. CASE WindowOver
    <3>1. age' = 0 /\ requestCount' = 0 /\ (Measuring => passed <= requestCount)
      BY <1>0, <2>1, <2>2 DEF WindowOver, WindowReset, CountNow, SpanInv
    <3> QED
      BY <1>0, <1>1, <1>2, <2>1, <3>1 DEF SpanInv
  <2>3. CASE ~WindowOver
    <3>1. age' = age /\ requestCount' = requestCount
      BY <2>1, <2>3 DEF WindowReset, CountNow
    <3> QED
      BY <1>1, <2>1, <3>1 DEF SpanInv
  <2> QED
    BY <2>2, <2>3
<1>4. ASSUME NEW r \in Attempts, Unrecorded(r), UNCHANGED spanVars  PROVE SpanInv'
  BY <1>1, <1>4 DEF Unrecorded, spanVars, SpanInv
<1>5. ASSUME NEW r \in Attempts, RecordSuccess(r) \/ RecordFailure(r), CountAttempt
      PROVE  SpanInv'
  <2>1. requestCount' = requestCount + 1 /\ age' = age
    BY <1>5 DEF RecordSuccess, RecordFailure
  <2> QED
    BY <1>0, <1>1, <1>2, <1>5, <2>1 DEF CountAttempt, SpanInv
<1>6. CASE Reset /\ End
  BY <1>0, <1>1, <1>6 DEF Reset, End, SpanInv
<1>7. CASE LimiterTick /\ Elapse
  <2>1. requestCount' = requestCount /\ age' \in Nat /\ age' <= age + 1
    BY <1>0, <1>7 DEF LimiterTick, Smaller, SpanInv
  <2>2. CASE Measuring /\ elapsed < WindowTicks
    <3>1. elapsed' = elapsed + 1 /\ passed' = passed /\ elapsed \in 0 .. WindowTicks
      BY <1>0, <1>7, <2>2 DEF Elapse, SpanInv
    <3> QED
      BY <1>0, <1>1, <2>1, <2>2, <3>1 DEF SpanInv
  <2>3. CASE ~(Measuring /\ elapsed < WindowTicks)
    <3>1. elapsed' = NotMeasuring /\ passed' = 0
      BY <1>7, <2>3 DEF Elapse, End
    <3> QED
      BY <1>0, <1>1, <2>1, <3>1 DEF SpanInv
  <2> QED
    BY <2>2, <2>3
<1>8. CASE Begin
  <2>1. elapsed' = 0 /\ passed' = 0 /\ requestCount' = requestCount /\ age' = age
    BY <1>8 DEF Begin, limiterVars
  <2> QED
    BY <1>0, <1>1, <1>2, <2>1 DEF SpanInv
<1>9. CASE UNCHANGED <<limiterVars, spanVars>>
  BY <1>1, <1>9 DEF limiterVars, spanVars, SpanInv
<1> QED
  BY <1>3, <1>4, <1>5, <1>6, <1>7, <1>8, <1>9, Zenon DEF SpanNext

\* Two windows' worth of attempts pass in one length of the window and no more, wherever in
\* the fixed window the span begins (check_limit's reset).
THEOREM SpanBounded == SpanSpec => []BurstBounded
<1>1. ASSUME SpanInit  PROVE SpanInv
  <2>1. Counters
    BY <1>1 DEF SpanInit, LimiterInit, Counters
  <2>2. Cardinality(checked) <= Cardinality(Attempts) /\ Cardinality(checked) \in Nat
        /\ Cardinality(Attempts) \in Nat
    BY <2>1, PendingSize, LimiterAssumption DEF Counters
  <2> QED
    BY <1>1, <2>1, <2>2, LimiterAssumption
       DEF SpanInit, LimiterInit, OvershootBounded, SpanInv, Measuring, NotMeasuring
<1>2. SpanInv /\ [SpanNext]_<<limiterVars, spanVars>> => SpanInv'
  BY SpanStep
<1>3. ASSUME SpanInv  PROVE BurstBounded
  <2>1. /\ MaxRequests \in Nat \ {0} /\ Cardinality(Attempts) \in Nat
        /\ Cardinality(checked) \in Nat
    BY <1>3, PendingSize, LimiterAssumption DEF SpanInv, Counters
  <2> QED
    BY <1>3, <2>1 DEF SpanInv, Counters, OvershootBounded, BurstBounded
<1> QED
  BY <1>1, <1>2, <1>3, PTL DEF SpanSpec

\* The limiter keeps its promises, over every interleaving of check_rate_limit and
\* record_attempt.
THEOREM LimiterHeld == SpanSpec => []LimiterHolds
<1>1. SpanSpec => LimiterSafety
  BY SpanWatches
<1>2. OvershootBounded /\ BurstBounded /\ PenaltyMatchesLevel => LimiterHolds
  BY DEF LimiterHolds
<1> QED
  BY <1>1, <1>2, Overshoot, PenaltyConsistent, SpanBounded, PTL

\* "Reduce penalty level after this time" (rate_limiter.py:48): while time passes and
\* requests are only checked, a penalty level above 0 is never left, so the identifier of a
\* client that gives up, or is blocked, keeps its level for ever.
THEOREM PenaltyStays ==
  LimiterSafety =>
    [](/\ level > 0
       /\ [][LimiterTick \/ \E r \in Attempts : Check(r)]_limiterVars
       => [](level > 0))
<1> DEFINE Penalized == level > 0
<1>1. LimiterInit => Counters
  BY DEF LimiterInit, Counters
<1>2. Counters /\ [LimiterNext]_limiterVars => Counters'
  BY CountersStep
<1>3. Counters /\ Penalized /\ [LimiterTick \/ \E r \in Attempts : Check(r)]_limiterVars
        => Penalized'
  BY EscalateRaises DEF Counters, LimiterTick, Check, Allow, Deny, limiterVars
<1>4. Penalized <=> level > 0
  OBVIOUS
<1> HIDE DEF Penalized
<1> QED
  BY <1>1, <1>2, <1>3, <1>4, PTL DEF LimiterSafety

\* The types of the limiter: its level stays within block_after, a penalty never outlasts the
\* configured maximum, and no more attempts failed than were counted.  That the powers of
\* two are natural numbers is the one hypothesis: the provers know nothing of `^`.
THEOREM LimiterTyped ==
  ASSUME \A n \in Nat : 2 ^ n \in Nat
  PROVE  LimiterSafety => []LimiterTypeOK
<1> DEFINE Counted == requestCount \in Nat /\ failedCount \in 0 .. requestCount
           Penalized == level \in 0 .. BlockAfter /\ left \in 0 .. MaxPenalty
           Around == /\ age \in 0 .. WindowTicks + 1 /\ checked \subseteq Attempts
                     /\ admitted \in BOOLEAN
<1>0. /\ WindowTicks \in Nat /\ BlockAfter \in Nat \ {0} /\ MaxPenalty \in Nat
      /\ DecayTicks \in Nat
  BY LimiterAssumption
<1>1. LimiterInit => Counted /\ Penalized /\ Around
  <2> SUFFICES ASSUME LimiterInit  PROVE Counted /\ Penalized /\ Around
    OBVIOUS
  <2>1. Counted /\ Penalized
    BY <1>0 DEF LimiterInit
  <2>2. age \in 0 .. WindowTicks + 1 /\ checked \subseteq Attempts /\ admitted = FALSE
    BY <1>0 DEF LimiterInit
  <2>3. Around
    BY <2>2
  <2> HIDE DEF Counted, Penalized, Around
  <2> QED  BY <2>1, <2>3
<1>2. ASSUME NEW n \in Nat  PROVE PenaltyDuration(n) \in 0 .. MaxPenalty
  <2> DEFINE power == 2 ^ n
  <2>1. power \in Nat
    OBVIOUS
  <2> HIDE DEF power
  <2>2. DecayTicks * power \in Nat
    BY <1>0, <2>1
  <2>3. Smaller(DecayTicks * power, MaxPenalty) \in 0 .. MaxPenalty
    BY <1>0, <2>2 DEF Smaller
  <2> QED  BY <2>3 DEF PenaltyDuration, power
<1>3. ASSUME Penalized, Escalate  PROVE Penalized'
  <2>1. level' \in 0 .. BlockAfter /\ left' = PenaltyDuration(level')
    BY <1>0, <1>3 DEF Escalate
  <2>2. level' \in Nat
    BY <1>0, <2>1
  <2> QED  BY <1>2, <2>1, <2>2
<1>4. Counted /\ [LimiterNext]_limiterVars => Counted'
  <2> SUFFICES ASSUME Counted, [LimiterNext]_limiterVars  PROVE Counted'
    OBVIOUS
  <2>1. ASSUME WindowReset  PROVE Counted'
    BY <2>1 DEF WindowReset, CountNow, FailedNow
  <2>2. ASSUME NEW r \in Attempts, RecordSuccess(r) \/ RecordFailure(r)  PROVE Counted'
    BY <2>2 DEF RecordSuccess, RecordFailure
  <2>3. CASE Reset
    BY <2>3 DEF Reset
  <2>4. CASE UNCHANGED <<requestCount, failedCount>>
    BY <2>4
  <2> QED
    BY <2>1, <2>2, <2>3, <2>4
       DEF LimiterNext, limiterVars, Allow, Deny, Unrecorded, LimiterTick
<1>5. Penalized /\ [LimiterNext]_limiterVars => Penalized'
  <2> SUFFICES ASSUME Penalized, [LimiterNext]_limiterVars  PROVE Penalized'
    OBVIOUS
  <2>1. CASE UNCHANGED <<level, left>>
    BY <2>1
  <2>2. ASSUME NEW r \in Attempts, Allow(r) \/ RecordFailure(r)  PROVE Penalized'
    BY <1>3, <2>1, <2>2 DEF Allow, RecordFailure
  <2>3. ASSUME NEW r \in Attempts, RecordSuccess(r)  PROVE Penalized'
    BY <1>0, <2>3 DEF RecordSuccess
  <2>4. CASE Reset \/ LimiterTick
    BY <1>0, <2>4 DEF Reset, LimiterTick
  <2> QED
    BY <2>1, <2>2, <2>3, <2>4 DEF LimiterNext, limiterVars, Deny, Unrecorded
<1>6. Around /\ [LimiterNext]_limiterVars => Around'
  <2> SUFFICES ASSUME Around, [LimiterNext]_limiterVars  PROVE Around'
    OBVIOUS
  <2>1. age' \in 0 .. WindowTicks + 1
    <3>1. \/ age' = age \/ age' = 0 \/ age' = Smaller(age + 1, WindowTicks + 1)
      BY DEF LimiterNext, limiterVars, Allow, Deny, RecordSuccess, RecordFailure, Unrecorded,
             Reset, LimiterTick, WindowReset
    <3> QED  BY <1>0, <3>1 DEF Smaller
  <2>2. checked' \subseteq Attempts
    BY DEF LimiterNext, limiterVars, Allow, Deny, RecordSuccess, RecordFailure, Unrecorded,
           Reset, LimiterTick
  <2>3. admitted' \in BOOLEAN
    BY Zenon DEF LimiterNext, limiterVars, Allow, Deny, RecordSuccess, RecordFailure,
                 Unrecorded, Reset, LimiterTick
  <2> QED  BY <2>1, <2>2, <2>3
<1>7. Counted /\ Penalized /\ Around => LimiterTypeOK
  BY DEF LimiterTypeOK
<1> HIDE DEF Counted, Penalized, Around
<1> QED
  BY <1>1, <1>4, <1>5, <1>6, <1>7, PTL DEF LimiterSafety

-------------------------------------------------------------------------------
(* Step-up *)

\* The natural numbers in their order, as a relation: a nonempty set of them has a
\* least member.
Under == {p \in Nat \X Nat : p[1] < p[2]}

LEMMA LeastPlace ==
  ASSUME NEW S \in SUBSET Nat, S # {}
  PROVE  \E m \in S : \A k \in S : m <= k
<1>1. IsWellFoundedOn(Under, Nat)
  BY Zenon, NatLessThanWellFounded DEF OpToRel, Under
<1>2. PICK m \in S : \A k \in S : ~ (<<k, m>> \in Under)
  BY <1>1, WFMin
<1>3. ASSUME NEW k \in S  PROVE m <= k
  <2>1. k \in Nat /\ m \in Nat
    OBVIOUS
  <2>2. k < m => <<k, m>> \in Under
    BY <2>1 DEF Under
  <2> QED
    BY <1>2, <2>1, <2>2
<1> QED
  BY <1>3

\* What holds of the first number and of each one's successor holds of all up to L.
LEMMA Upwards ==
  ASSUME NEW L \in Nat, NEW S, 0 \in S, \A n \in 0 .. L - 1 : n \in S => n + 1 \in S
  PROVE  \A n \in 0 .. L : n \in S
<1> DEFINE Bad == {n \in 0 .. L : n \notin S}
<1>1. SUFFICES ASSUME Bad # {} PROVE FALSE
  OBVIOUS
<1>2. PICK m \in Bad : \A k \in Bad : m <= k
  <2>1. Bad \in SUBSET Nat
    OBVIOUS
  <2> QED
    BY <1>1, <2>1, LeastPlace
<1>3. m - 1 \in 0 .. L - 1 /\ m - 1 \notin Bad
  BY <1>2
<1> QED
  BY <1>2, <1>3

\* In a finite set of numbers each rank is taken, and by one member only.
LEMMA Ranks ==
  ASSUME NEW S \in SUBSET Nat, IsFiniteSet(S)
  PROVE  \A n \in 1 .. Cardinality(S) :
           \E i \in S : Cardinality({j \in S : j <= i}) = n
<1> DEFINE Below(i) == {j \in S : j <= i}
           rank == [i \in S |-> Cardinality(Below(i))]
<1>1. Cardinality(S) \in Nat
  BY FS_CardinalityType
<1>2. ASSUME NEW i \in S  PROVE Cardinality(Below(i)) \in 1 .. Cardinality(S)
  <2>1. IsFiniteSet(Below(i)) /\ Cardinality(Below(i)) <= Cardinality(S)
    BY FS_Subset
  <2>2. Cardinality(Below(i)) \in Nat /\ Cardinality(Below(i)) # 0
    BY <2>1, FS_CardinalityType, FS_EmptySet
  <2> QED
    BY <1>1, <2>1, <2>2
<1>3. ASSUME NEW i \in S, NEW k \in S, i < k
      PROVE Cardinality(Below(i)) # Cardinality(Below(k))
  <2>1. IsFiniteSet(Below(k))
    BY FS_Subset
  <2>2. /\ \A j \in S : j <= i => j <= k
        /\ k <= k /\ ~ (k <= i)
    <3>1. \A j \in S : j \in Nat
      OBVIOUS
    <3> QED
      BY <1>3, <3>1
  <2>3. Below(i) \in SUBSET Below(k) /\ k \in Below(k) /\ k \notin Below(i)
    BY <2>2
  <2> QED
    BY <2>1, <2>3, FS_Subset
<1>4. rank \in [S -> 1 .. Cardinality(S)]
  BY <1>2
<1>5. \A i, k \in S : rank[i] = rank[k] => i = k
  BY <1>3
<1> HIDE DEF rank
<1>6. rank \in Injection(S, 1 .. Cardinality(S))
  BY <1>4, <1>5 DEF Injection, IsInjective
<1>7. /\ IsFiniteSet(1 .. Cardinality(S))
      /\ Cardinality(1 .. Cardinality(S)) = Cardinality(S)
  BY <1>1, FS_Interval
<1>8. rank \in Surjection(S, 1 .. Cardinality(S))
  BY <1>6, <1>7, FS_Injection
<1>9. \A n \in 1 .. Cardinality(S) : \E i \in S : rank[i] = n
  BY <1>8 DEF Surjection
<1> QED
  BY <1>9 DEF rank

\* The members of a sequence at some of its places: each is one of those, none is
\* missing, and none comes twice unless the sequence has it twice.
LEMMA AmongPlaces ==
  ASSUME NEW seq, NEW places \in SUBSET Nat, IsFiniteSet(places)
  PROVE  LET some == Among(seq, places)
         IN /\ Cardinality(places) \in Nat
            /\ DOMAIN some = 1 .. Cardinality(places)
            /\ \A n \in DOMAIN some : \E i \in places : some[n] = seq[i]
            /\ (\A i, j \in places : seq[i] = seq[j] => i = j) =>
                 \A n, k \in DOMAIN some : some[n] = some[k] => n = k
            /\ some = <<>> <=> places = {}
<1> DEFINE some == Among(seq, places)
           Rank(i) == Cardinality({j \in places : j <= i})
           at(n) == CHOOSE i \in places : Rank(i) = n
<1>1. Cardinality(places) \in Nat
  BY FS_CardinalityType
<1>2. some = [n \in 1 .. Cardinality(places) |-> seq[at(n)]]
  BY DEF Among
<1>3. ASSUME NEW n \in 1 .. Cardinality(places)  PROVE at(n) \in places /\ Rank(at(n)) = n
  <2>1. \E i \in places : Rank(i) = n
    BY Ranks
  <2> QED
    BY <2>1
<1> HIDE DEF some, at, Rank
<1>4. DOMAIN some = 1 .. Cardinality(places)
  BY <1>2
<1>5. \A n \in DOMAIN some : some[n] = seq[at(n)] /\ at(n) \in places
  BY <1>2, <1>3
<1>6. ASSUME \A i, j \in places : seq[i] = seq[j] => i = j,
             NEW n \in DOMAIN some, NEW k \in DOMAIN some, some[n] = some[k]
      PROVE  n = k
  <2>1. at(n) = at(k)
    BY <1>5, <1>6
  <2> QED
    BY <2>1, <1>3, <1>4
<1>7. some = <<>> <=> places = {}
  <2>1. places = {} <=> Cardinality(places) = 0
    BY FS_EmptySet
  <2>2. Cardinality(places) = 0 => some = <<>>
    BY <1>2
  <2>3. Cardinality(places) # 0 => 1 \in DOMAIN some
    BY <1>1, <1>4
  <2> QED
    BY <2>1, <2>2, <2>3
<1> QED
  BY <1>1, <1>4, <1>5, <1>6, <1>7 DEF some

-------------------------------------------------------------------------------
\* What can be enrolled and hence be required.
Offered == {"TOTP"} \cup Providers

Enrolled == [method : Offered, verified : BOOLEAN]
Codes == {Empty, Wrong} \cup {Sent(t, k) : t \in StepUps, k \in Nat}
           \cup {Authenticator(u) : u \in Users}
Challenges == [method : Offered, sent : BOOLEAN, attempts : Nat, by : Codes]
StepUpRequests == [phase : Phases, user : Users, required : Seq(Offered)]

\* Not the same method twice; not more than one code.
Distinct(required) ==
  \A i, j \in DOMAIN required : required[i] = required[j] => i = j
OneCode(required) ==
  \A i, j \in DOMAIN required :
    required[i] \in CodeMethods /\ required[j] \in CodeMethods => i = j

\* The triggers ask for whatever can be enrolled.
AllAsked == Offered \subseteq Range(Asked)

\* What a step-up requires: methods the user has; none twice where the triggers ask for
\* all there is.
LEMMA Requirements ==
  ASSUME NEW u, enrolled[u] \in Seq(Enrolled)
  PROVE  /\ RequiredMethods(u) \in Seq(Offered)
         /\ \A k \in DOMAIN RequiredMethods(u) : Enrollments(u, RequiredMethods(u)[k]) # {}
         /\ AllAsked => Distinct(RequiredMethods(u))
<1> DEFINE matching == {i \in DOMAIN Asked : Verified(u, Asked[i])}
           have == {i \in DOMAIN enrolled[u] : enrolled[u][i].verified}
           first == {i \in have : Cardinality({j \in have : j <= i}) <= 2}
           methods == [i \in DOMAIN enrolled[u] |-> enrolled[u][i].method]
           asked == Among(Asked, matching)
           others == Among(methods, first)
<1>1. /\ Len(Asked) \in Nat /\ DOMAIN Asked = 1 .. Len(Asked)
      /\ Len(enrolled[u]) \in Nat /\ DOMAIN enrolled[u] = 1 .. Len(enrolled[u])
  BY StepUpAssumption
<1>2. matching \in SUBSET Nat /\ first \in SUBSET Nat
  BY <1>1
<1>3. IsFiniteSet(matching) /\ IsFiniteSet(first)
  <2>1. IsFiniteSet(DOMAIN Asked) /\ IsFiniteSet(DOMAIN enrolled[u])
    BY <1>1, FS_Interval
  <2>2. matching \in SUBSET DOMAIN Asked /\ first \in SUBSET DOMAIN enrolled[u]
    OBVIOUS
  <2> QED
    BY <2>1, <2>2, FS_Subset
<1>4. \A i \in DOMAIN enrolled[u] : enrolled[u][i].method \in Offered
  <2>1. \A i \in DOMAIN enrolled[u] : enrolled[u][i] \in Enrolled
    BY <1>1
  <2> QED
    BY <2>1 DEF Enrolled
<1>5. \A i \in matching : Asked[i] \in Offered /\ Enrollments(u, Asked[i]) # {}
  BY <1>4 DEF Verified, Enrollments
<1>6. \A i \in first : methods[i] \in Offered /\ Enrollments(u, methods[i]) # {}
  BY <1>4 DEF Enrollments
<1>7. RequiredMethods(u) = IF asked # <<>> THEN asked ELSE others
  BY DEF RequiredMethods
<1>8. /\ Cardinality(matching) \in Nat
      /\ DOMAIN asked = 1 .. Cardinality(matching)
      /\ \A n \in DOMAIN asked : \E i \in matching : asked[n] = Asked[i]
      /\ (\A i, j \in matching : Asked[i] = Asked[j] => i = j) =>
           \A n, k \in DOMAIN asked : asked[n] = asked[k] => n = k
      /\ asked = <<>> <=> matching = {}
  BY <1>2, <1>3, AmongPlaces
<1>9. /\ Cardinality(first) \in Nat
      /\ DOMAIN others = 1 .. Cardinality(first)
      /\ \A n \in DOMAIN others : \E i \in first : others[n] = methods[i]
      /\ others = <<>> <=> first = {}
  BY <1>2, <1>3, AmongPlaces
<1>10. asked = [n \in 1 .. Cardinality(matching) |-> asked[n]]
  BY <1>8 DEF Among
<1>11. others = [n \in 1 .. Cardinality(first) |-> others[n]]
  BY <1>9 DEF Among
<1>12. AllAsked /\ matching = {} => first = {}
  <2> SUFFICES ASSUME AllAsked, NEW i \in first  PROVE matching # {}
    OBVIOUS
  <2>1. enrolled[u][i] \in Enrolled /\ enrolled[u][i].verified /\ i \in DOMAIN enrolled[u]
    BY <1>1
  <2>2. enrolled[u][i] = [method |-> enrolled[u][i].method, verified |-> TRUE]
    BY <2>1 DEF Enrolled
  <2>3. PICK j \in DOMAIN Asked : Asked[j] = enrolled[u][i].method
    BY <1>4, <2>1 DEF AllAsked, Range
  <2> QED
    BY <2>1, <2>2, <2>3 DEF Verified
<1>13. \A i, j \in matching : Asked[i] = Asked[j] => i = j
  BY StepUpAssumption
<1> HIDE DEF matching, first, methods, asked, others
<1>14. asked \in Seq(Offered)
  BY <1>5, <1>8, <1>10
<1>15. others \in Seq(Offered)
  BY <1>6, <1>9, <1>11
<1>16. CASE asked # <<>>
  BY <1>5, <1>7, <1>8, <1>13, <1>14, <1>16 DEF Distinct
<1>17. CASE asked = <<>>
  <2>1. RequiredMethods(u) = others
    BY <1>7, <1>17
  <2>2. \A k \in DOMAIN others : Enrollments(u, others[k]) # {}
    BY <1>6, <1>9
  <2>3. AllAsked => others = <<>>
    BY <1>8, <1>9, <1>12, <1>17
  <2> QED
    BY <1>15, <2>1, <2>2, <2>3 DEF Distinct
<1> QED
  BY <1>16, <1>17

\* The challenges made for these required methods, in their order.
InOrder(required, made) ==
  /\ Len(made) <= Len(required)
  /\ \A k \in DOMAIN made : made[k].method = required[k]

\* initiate_step_up adds unsent challenges, none of them for a code the user could be
\* sent, and stops at such a code or at the end of the required methods.
Extends(u, required, made, more, phase) ==
  /\ InOrder(required, more)
  /\ Len(made) <= Len(more)
  /\ \A k \in DOMAIN made : more[k] = made[k]
  /\ \A k \in DOMAIN more \ DOMAIN made :
       /\ more[k].by = Wrong
       /\ more[k].method \in CodeMethods => Enrollments(u, required[k]) = {}
  /\ phase = "open" => Len(more) = Len(required)
  /\ phase = "sending" => /\ Len(more) < Len(required)
                          /\ required[Len(more) + 1] \in CodeMethods

LEMMA Initiation ==
  ASSUME NEW s \in StepUps, NEW required \in Seq(Offered), NEW made \in Seq(Challenges),
         InOrder(required, made), Initiate(s, required, made)
  PROVE  \E more \in Seq(Challenges), phase \in {"open", "sending"} :
           /\ issued' = [issued EXCEPT ![s] = more]
           /\ request' = [request EXCEPT ![s] =
                          [phase |-> phase, user |-> request[s].user,
                           required |-> required]]
           /\ Extends(request[s].user, required, made, more, phase)
<1> DEFINE rest == {k \in Len(made) + 1 .. Len(required) :
                      required[k] \in CodeMethods /\ Enrollments(request[s].user, required[k]) # {}}
           stop == IF rest = {} THEN Len(required) + 1
                   ELSE CHOOSE k \in rest : \A j \in rest : k <= j
           n == stop - 1 - Len(made)
           added == [k \in 1 .. n |-> Challenge(required[Len(made) + k], FALSE)]
           more == made \o added
           phase == IF rest = {} THEN "open" ELSE "sending"
<1>1. /\ issued' = [issued EXCEPT ![s] = more]
      /\ request' = [request EXCEPT ![s] =
                          [phase |-> phase, user |-> request[s].user,
                           required |-> required]]
  BY DEF Initiate
<1>2. /\ Len(made) \in Nat /\ Len(required) \in Nat /\ Len(made) <= Len(required)
      /\ DOMAIN made = 1 .. Len(made) /\ DOMAIN required = 1 .. Len(required)
      /\ \A k \in DOMAIN required : required[k] \in Offered
      /\ \A k \in DOMAIN made : made[k].method = required[k]
  BY DEF InOrder
<1>4. \A k : k \in rest <=> /\ k \in Len(made) + 1 .. Len(required)
                            /\ required[k] \in CodeMethods
                            /\ Enrollments(request[s].user, required[k]) # {}
  OBVIOUS
<1> HIDE DEF rest
<1>3. /\ stop \in Len(made) + 1 .. Len(required) + 1
      /\ \A k \in rest : stop <= k
      /\ rest # {} => stop \in rest
      /\ rest = {} => stop = Len(required) + 1
  <2>1. CASE rest = {}
    BY <1>2, <2>1
  <2>2. CASE rest # {}
    <3>1. rest \in SUBSET Nat
      BY <1>2, <1>4
    <3>2. \E k \in rest : \A j \in rest : k <= j
      BY <2>2, <3>1, LeastPlace
    <3>3. stop \in rest /\ \A j \in rest : stop <= j
      BY <2>2, <3>2
    <3> HIDE DEF stop
    <3> QED
      BY <1>2, <1>4, <2>2, <3>3
  <2> QED
    BY <2>1, <2>2
<1> HIDE DEF stop
<1>5. n \in Nat /\ Len(made) + n = stop - 1
  BY <1>2, <1>3
<1>8. \A k \in Len(made) + 1 .. stop - 1 :
        /\ k \in 1 .. Len(required) /\ k - Len(made) \in 1 .. n
        /\ required[k] \in CodeMethods => Enrollments(request[s].user, required[k]) = {}
  <2> SUFFICES ASSUME NEW k \in Len(made) + 1 .. stop - 1
               PROVE  /\ k \in 1 .. Len(required) /\ k - Len(made) \in 1 .. n
                      /\ k \in Len(made) + 1 .. Len(required)
                      /\ k \notin rest
    BY <1>4
  <2> QED
    BY <1>2, <1>3, <1>5
<1> HIDE DEF n
<1>6. \A k \in 1 .. n : Challenge(required[Len(made) + k], FALSE) \in Challenges
  <2> SUFFICES ASSUME NEW k \in 1 .. n
               PROVE  Challenge(required[Len(made) + k], FALSE) \in Challenges
    OBVIOUS
  <2>1. Len(made) + k \in DOMAIN required
    BY <1>2, <1>3, <1>5
  <2> QED
    BY <1>2, <2>1 DEF Challenge, Challenges, Codes
<1>7. added \in [1 .. n -> Challenges]
  BY <1>6
<1>10. \A k \in 1 .. n : added[k] = Challenge(required[Len(made) + k], FALSE)
  OBVIOUS
<1> HIDE DEF added
<1>19. added \in Seq(Challenges) /\ Len(added) = n
  BY <1>5, <1>7
<1>9. rest # {} => stop <= Len(required) /\ required[stop] \in CodeMethods
  BY <1>2, <1>3, <1>4
<1>11. more \in Seq(Challenges) /\ Len(more) = stop - 1
  BY <1>2, <1>3, <1>5, <1>19
<1>12. \A k \in DOMAIN made : more[k] = made[k]
  BY <1>2, <1>19
<1>13. \A k \in Len(made) + 1 .. stop - 1 : more[k] = Challenge(required[k], FALSE)
  <2> SUFFICES ASSUME NEW k \in Len(made) + 1 .. stop - 1
               PROVE  more[k] = Challenge(required[k], FALSE)
    OBVIOUS
  <2>1. k - Len(made) \in 1 .. n /\ Len(made) + (k - Len(made)) = k
    BY <1>2, <1>3, <1>8
  <2>2. more[k] = added[k - Len(made)]
    BY <1>2, <1>3, <1>5, <1>19, <2>1
  <2> QED
    BY <1>10, <2>1, <2>2
<1> HIDE DEF more
<1>14. DOMAIN more = 1 .. stop - 1
  BY <1>11
<1>15. phase \in {"open", "sending"}
  OBVIOUS
<1>16. \A k \in Len(made) + 1 .. stop - 1 :
         more[k].by = Wrong /\ more[k].method = required[k]
  <2>1. \A m : Challenge(m, FALSE).by = Wrong /\ Challenge(m, FALSE).method = m
    BY DEF Challenge
  <2> QED
    BY <1>13, <2>1, ZenonT(60)
<1>17. InOrder(required, more)
  <2>1. \A k \in DOMAIN more : more[k].method = required[k]
    BY <1>2, <1>3, <1>12, <1>14, <1>16
  <2> QED
    BY <1>2, <1>3, <1>11, <2>1 DEF InOrder
<1>18. \A k \in DOMAIN more \ DOMAIN made :
         /\ more[k].by = Wrong
         /\ more[k].method \in CodeMethods => Enrollments(request[s].user, required[k]) = {}
  <2> SUFFICES ASSUME NEW k \in DOMAIN more \ DOMAIN made
               PROVE  /\ more[k].by = Wrong
                      /\ more[k].method \in CodeMethods =>
                           Enrollments(request[s].user, required[k]) = {}
    OBVIOUS
  <2>1. k \in Len(made) + 1 .. stop - 1
    BY <1>2, <1>3, <1>14
  <2> QED
    BY <1>8, <1>16, <2>1
<1>20. phase = "open" => Len(more) = Len(required)
  BY <1>2, <1>3, <1>11
<1>21. phase = "sending" => /\ Len(more) < Len(required)
                            /\ required[Len(more) + 1] \in CodeMethods
  <2>1. phase = "sending" => rest # {}
    OBVIOUS
  <2>2. Len(more) + 1 = stop
    BY <1>2, <1>3, <1>11
  <2> QED
    BY <1>2, <1>3, <1>9, <1>11, <2>1, <2>2
<1>22. Len(made) <= Len(more)
  BY <1>2, <1>3, <1>11
<1> HIDE DEF phase
<1> USE <1>11, <1>15
<1> WITNESS more \in Seq(Challenges), phase \in {"open", "sending"}
<1> QED
  BY <1>1, <1>12, <1>17, <1>18, <1>20, <1>21, <1>22 DEF Extends

-------------------------------------------------------------------------------
\* A reply that names a challenge there is, or none.
IsReply(reply) ==
  \/ reply = Unnamed
  \/ \E t \in StepUps, code \in Codes :
       \E k \in DOMAIN issued[t] : reply = Reply(t, k, code)

\* The reply names this challenge.
Names(reply, t, k) == reply.named /\ reply.step_up = t /\ reply.place = k

\* The reply names a challenge and has its code.
IsRight(reply) == reply.named /\ Right(reply.step_up, reply.place, reply.code)

\* The challenges as they are within a call of verify_step_up: what they are for is as it
\* was, and nothing but their codes was accepted.
Kept(all) ==
  /\ all \in [StepUps -> Seq(Challenges)]
  /\ \A t \in StepUps :
       /\ Len(all[t]) = Len(issued[t])
       /\ \A k \in DOMAIN issued[t] :
            /\ all[t][k].method = issued[t][k].method
            /\ all[t][k].sent = issued[t][k].sent
            /\ all[t][k].by = issued[t][k].by \/ Right(t, k, all[t][k].by)

LEMMA CodesAreNotWrong ==
  ASSUME NEW t, NEW k, NEW code, Right(t, k, code)
  PROVE  code # Wrong
BY DEF Right, CodeOf, ContextCode, Wrong, Empty, Sent, Authenticator

LEMMA RepliesAreReplies ==
  ASSUME issued \in [StepUps -> Seq(Challenges)], request \in [StepUps -> StepUpRequests],
         expected \in [StepUps -> Nat], NEW reply \in Replies
  PROVE  IsReply(reply)
<1>1. CASE reply = Unnamed
  BY <1>1 DEF IsReply
<1>2. CASE reply # Unnamed
  <2>1. PICK t \in StepUps : \E k \in DOMAIN issued[t] : reply \in RepliesTo(t, k)
    BY <1>2 DEF Replies
  <2>2. PICK k \in DOMAIN issued[t] : reply \in RepliesTo(t, k)
    BY <2>1
  <2>3. CodeOf(t, k) \in Codes /\ Wrong \in Codes
    <3>1. request[t].user \in Users /\ expected[t] \in Nat
      BY DEF StepUpRequests
    <3> QED
      BY <3>1 DEF CodeOf, ContextCode, Codes
  <2>4. \E code \in Codes : reply = Reply(t, k, code)
    BY <1>2, <2>2, <2>3 DEF RepliesTo
  <2> QED
    BY <2>2, <2>4 DEF IsReply
<1> QED
  BY <1>1, <1>2

\* verify_challenge of the challenge named leaves the others alone; it accepts an answer
\* that is right, and no other.
LEMMA TryKeeps ==
  ASSUME issued \in [StepUps -> Seq(Challenges)],
         NEW all, Kept(all), NEW reply, IsReply(reply)
  PROVE  LET v == Try(all, reply)
         IN /\ Kept(v.all) /\ v.ok \in BOOLEAN
            /\ \A t \in StepUps : \A k \in DOMAIN issued[t] :
                 /\ ~Names(reply, t, k) => v.all[t][k] = all[t][k]
                 /\ all[t][k].by # Wrong => v.all[t][k].by # Wrong
            /\ v.ok => /\ IsRight(reply)
                       /\ v.all[reply.step_up][reply.place].by # Wrong
            /\ /\ IsRight(reply)
               /\ all[reply.step_up][reply.place].attempts < MaxAttempts
               => v.ok
<1> DEFINE v == Try(all, reply)
<1>1. CASE reply = Unnamed
  <2>1. ~reply.named
    BY <1>1 DEF Unnamed
  <2>2. v = [all |-> all, ok |-> FALSE]
    BY <2>1 DEF Try
  <2> HIDE DEF v
  <2>3. v.all = all /\ v.ok = FALSE
    BY <2>2
  <2> QED
    BY <2>1, <2>3 DEF v, IsRight
<1>2. ASSUME NEW t \in StepUps, NEW code \in Codes, NEW k \in DOMAIN issued[t],
             reply = Reply(t, k, code)
      PROVE  /\ Kept(v.all) /\ v.ok \in BOOLEAN
             /\ \A s \in StepUps : \A j \in DOMAIN issued[s] :
                  /\ ~Names(reply, s, j) => v.all[s][j] = all[s][j]
                  /\ all[s][j].by # Wrong => v.all[s][j].by # Wrong
             /\ v.ok => /\ IsRight(reply)
                        /\ v.all[reply.step_up][reply.place].by # Wrong
             /\ /\ IsRight(reply)
                /\ all[reply.step_up][reply.place].attempts < MaxAttempts
                => v.ok
  <2>1. /\ reply.named /\ reply.step_up = t /\ reply.place = k /\ reply.code = code
    BY <1>2 DEF Reply
  <2>2. /\ all[t] \in Seq(Challenges) /\ Len(all[t]) = Len(issued[t])
        /\ k \in DOMAIN all[t] /\ all[t][k] \in Challenges
        /\ all[t][k].method = issued[t][k].method
        /\ all[t][k].sent = issued[t][k].sent
    <3>1. all[t] \in Seq(Challenges) /\ Len(all[t]) = Len(issued[t])
      BY DEF Kept
    <3>2. issued[t] \in Seq(Challenges)
      OBVIOUS
    <3>3. k \in DOMAIN all[t]
      BY <3>1, <3>2
    <3> QED
      BY <3>1, <3>3 DEF Kept
  <2>3. all[t][k].attempts \in Nat /\ MaxAttempts \in Nat /\ all[t][k].by \in Codes
    BY <2>2, StepUpAssumption DEF Challenges
  <2> DEFINE right == Right(t, k, code)
             who == IF right THEN code ELSE all[t][k].by
             c == [all[t][k] EXCEPT !.attempts = @ + 1, !.by = who]
             made == [all[t] EXCEPT ![k] = c]
             next == [all EXCEPT ![t] = made]
  <2>4. right \in BOOLEAN /\ (right => code # Wrong)
    BY CodesAreNotWrong DEF Right, Verified
  <2>5. CASE all[t][k].attempts >= MaxAttempts
    <3>1. v = [all |-> all, ok |-> FALSE]
      BY <2>1, <2>5 DEF Try
    <3> HIDE DEF v
    <3>2. v.all = all /\ v.ok = FALSE
      BY <3>1
    <3>3. ~ (all[reply.step_up][reply.place].attempts < MaxAttempts)
      BY <2>1, <2>3, <2>5
    <3> HIDE DEF right, c, who, made, next
    <3> QED
      BY <3>2, <3>3
  <2>6. CASE ~ (all[t][k].attempts >= MaxAttempts)
    <3>1. v = [all |-> next, ok |-> right]
      BY <2>1, <2>6 DEF Try
    <3>2. who \in Codes /\ (right => who = code) /\ (~right => who = all[t][k].by)
      BY <2>3
    <3> HIDE DEF right, who
    <3>3. all[t][k].attempts + 1 \in Nat
      BY <2>3
    <3>5. c = [all[t][k] EXCEPT !.attempts = all[t][k].attempts + 1, !.by = who]
      OBVIOUS
    <3> HIDE DEF c
    <3> DEFINE n == all[t][k].attempts + 1
               new == [method |-> all[t][k].method, sent |-> all[t][k].sent,
                       attempts |-> n, by |-> who]
    <3>13. c = new
      BY <2>2, <3>5 DEF Challenges
    <3>14. new \in Challenges
      BY <2>2, <3>2, <3>3 DEF Challenges
    <3>4. /\ c \in Challenges /\ c.by = who /\ c.method = all[t][k].method
          /\ c.sent = all[t][k].sent
      BY <3>13, <3>14
    <3> HIDE DEF new
    <3>6. /\ made \in Seq(Challenges) /\ Len(made) = Len(all[t]) /\ made[k] = c
          /\ \A j \in DOMAIN all[t] \ {k} : made[j] = all[t][j]
      BY <2>2, <3>4
    <3> HIDE DEF made
    <3>7. /\ next \in [StepUps -> Seq(Challenges)] /\ next[t] = made
          /\ \A s \in StepUps \ {t} : next[s] = all[s]
      BY <3>6 DEF Kept
    <3> HIDE DEF next, v
    <3>8. v.all = next /\ v.ok = right
      BY <3>1
    <3>9. ASSUME NEW s \in StepUps
          PROVE  /\ Len(next[s]) = Len(issued[s])
                 /\ \A j \in DOMAIN issued[s] :
                      /\ next[s][j].method = issued[s][j].method
                      /\ next[s][j].sent = issued[s][j].sent
                      /\ next[s][j].by = issued[s][j].by \/ Right(s, j, next[s][j].by)
                      /\ ~Names(reply, s, j) => next[s][j] = all[s][j]
                      /\ all[s][j].by # Wrong => next[s][j].by # Wrong
      <4>1. CASE s # t
        BY <3>7, <4>1 DEF Kept
      <4>2. CASE s = t
        <5>1. Len(next[s]) = Len(issued[s])
          BY <2>2, <3>6, <3>7, <4>2
        <5>2. ASSUME NEW j \in DOMAIN issued[s]
              PROVE  /\ next[s][j].method = issued[s][j].method
                     /\ next[s][j].sent = issued[s][j].sent
                     /\ next[s][j].by = issued[s][j].by \/ Right(s, j, next[s][j].by)
                     /\ ~Names(reply, s, j) => next[s][j] = all[s][j]
                     /\ all[s][j].by # Wrong => next[s][j].by # Wrong
          <6>1. CASE j # k
            <7>1. j \in DOMAIN all[t]
              BY <2>2, <4>2, <5>2
            <7>2. next[s][j] = all[s][j]
              BY <3>6, <3>7, <4>2, <6>1, <7>1
            <7> QED
              BY <7>2 DEF Kept
          <6>2. CASE j = k
            <7>1. next[s][j] = c /\ Names(reply, s, j)
              BY <2>1, <3>6, <3>7, <4>2, <6>2 DEF Names
            <7>2. c.by = issued[t][k].by \/ Right(t, k, c.by)
              BY <3>2, <3>4 DEF Kept, right
            <7>3. all[t][k].by # Wrong => c.by # Wrong
              BY <2>4, <3>2, <3>4
            <7> QED
              BY <2>2, <3>4, <4>2, <6>2, <7>1, <7>2, <7>3
          <6> QED
            BY <6>1, <6>2
        <5> QED
          BY <5>1, <5>2
      <4> QED
        BY <4>1, <4>2
    <3>10. Kept(next)
      BY <3>7, <3>9 DEF Kept
    <3>11. right => next[t][k].by # Wrong
      BY <2>4, <3>2, <3>4, <3>6, <3>7
    <3>12. right <=> IsRight(reply)
      BY <2>1 DEF IsRight, right
    <3> QED
      BY <2>1, <2>4, <3>8, <3>9, <3>10, <3>11, <3>12
  <2> QED
    BY <2>5, <2>6
<1> QED
  BY <1>1, <1>2 DEF IsReply

\* verify_step_up goes through the required methods one after the other: there is a
\* function that says what it has done after n of them.
Calling(s, replies, upto) ==
  upto = [n \in 0 .. Len(request[s].required) |->
            IF n = 0 THEN [all |-> issued, ok |-> TRUE]
            ELSE IF ~upto[n - 1].ok THEN upto[n - 1]
            ELSE Try(upto[n - 1].all, replies[request[s].required[n]])]

LEMMA OneAfterTheOther ==
  ASSUME NEW s, NEW replies, Len(request[s].required) \in Nat
  PROVE  \E upto : /\ Calling(s, replies, upto)
                   /\ Outcome(s, replies) = upto[Len(request[s].required)]
<1> DEFINE L == Len(request[s].required)
           Goes(f, p) ==
             f = [n \in 0 .. p |->
                    IF n = 0 THEN [all |-> issued, ok |-> TRUE]
                    ELSE IF ~f[n - 1].ok THEN f[n - 1]
                    ELSE Try(f[n - 1].all, replies[request[s].required[n]])]
           reached == {p \in 0 .. L : \E f : Goes(f, p)}
<1>1. 0 \in reached
  <2>1. Goes([n \in 0 .. 0 |-> [all |-> issued, ok |-> TRUE]], 0)
    OBVIOUS
  <2>2. 0 \in 0 .. L
    OBVIOUS
  <2> HIDE DEF Goes
  <2> QED
    BY <2>1, <2>2
<1>2. ASSUME NEW p \in 0 .. L - 1, p \in reached  PROVE p + 1 \in reached
  <2>1. PICK f : Goes(f, p)
    BY <1>2
  <2> DEFINE last == IF ~f[p].ok THEN f[p]
                     ELSE Try(f[p].all, replies[request[s].required[p + 1]])
             g == [n \in 0 .. p + 1 |-> IF n <= p THEN f[n] ELSE last]
  <2>2. \A n \in 0 .. p : g[n] = f[n]
    OBVIOUS
  <2>3. g[p + 1] = last
    BY SMTT(30)
  <2>4. \A n \in 0 .. p + 1 :
          g[n] = IF n = 0 THEN [all |-> issued, ok |-> TRUE]
                 ELSE IF ~g[n - 1].ok THEN g[n - 1]
                 ELSE Try(g[n - 1].all, replies[request[s].required[n]])
    <3> SUFFICES ASSUME NEW n \in 0 .. p + 1
                 PROVE  g[n] = IF n = 0 THEN [all |-> issued, ok |-> TRUE]
                               ELSE IF ~g[n - 1].ok THEN g[n - 1]
                               ELSE Try(g[n - 1].all, replies[request[s].required[n]])
      OBVIOUS
    <3>1. CASE n = p + 1
      <4>1. n # 0 /\ n - 1 = p /\ g[n - 1] = f[p]
        BY <2>2, <3>1
      <4> HIDE DEF g
      <4> QED
        BY <2>3, <3>1, <4>1
    <3>2. CASE n \in 0 .. p
      <4>1. n = 0 \/ n - 1 \in 0 .. p
        BY <3>2, SMTT(30)
      <4>2. f[n] = IF n = 0 THEN [all |-> issued, ok |-> TRUE]
                   ELSE IF ~f[n - 1].ok THEN f[n - 1]
                   ELSE Try(f[n - 1].all, replies[request[s].required[n]])
        BY <2>1, <3>2
      <4>3. g[n] = f[n] /\ (n = 0 \/ g[n - 1] = f[n - 1])
        BY <2>2, <3>2, <4>1
      <4> HIDE DEF g
      <4> QED
        BY <4>2, <4>3, SMTT(30)
    <3> QED
      BY <3>1, <3>2, SMTT(30)
  <2>5. DOMAIN g = 0 .. p + 1 /\ g = [n \in 0 .. p + 1 |-> g[n]]
    OBVIOUS
  <2> HIDE DEF g
  <2>6. Goes(g, p + 1)
    BY <2>4, <2>5
  <2>7. p + 1 \in 0 .. L
    BY SMTT(30)
  <2> HIDE DEF Goes
  <2> QED
    BY <2>6, <2>7
<1>3. L \in reached
  <2> HIDE DEF reached
  <2>1. \A n \in 0 .. L : n \in reached
    BY <1>1, <1>2, Upwards
  <2> QED
    BY <2>1
<1>4. \E f : Calling(s, replies, f)
  BY <1>3, SMTT(30) DEF Calling
<1> DEFINE upto == CHOOSE f : Calling(s, replies, f)
<1>5. Calling(s, replies, upto)
  BY <1>4
<1>6. Outcome(s, replies) = upto[L]
  BY DEF Outcome, Calling
<1> QED
  BY <1>5, <1>6

\* What verify_step_up has done after n of the required methods: it touched the challenges
\* named only, and has accepted nothing but right answers.
Progress(s, replies, n, u) ==
  LET reply(i) == replies[request[s].required[i]]
  IN /\ Kept(u.all) /\ u.ok \in BOOLEAN
     /\ \A t \in StepUps : \A k \in DOMAIN issued[t] :
          /\ (\A i \in 1 .. n : ~Names(reply(i), t, k)) => u.all[t][k] = issued[t][k]
          /\ issued[t][k].by # Wrong => u.all[t][k].by # Wrong
     /\ u.ok => \A i \in 1 .. n : /\ IsRight(reply(i))
                                  /\ u.all[reply(i).step_up][reply(i).place].by # Wrong

\* The n-th reply is right, and names a challenge with an attempt left that no reply before
\* it names.
Fresh(s, replies, n) ==
  LET reply(i) == replies[request[s].required[i]]
      t == reply(n).step_up
      k == reply(n).place
  IN /\ IsRight(reply(n))
     /\ issued[t][k].attempts < MaxAttempts
     /\ \A i \in 1 .. n - 1 : ~Names(reply(i), t, k)

LEMMA ReplyPlaces ==
  ASSUME NEW reply, IsReply(reply), reply.named
  PROVE  reply.step_up \in StepUps /\ reply.place \in DOMAIN issued[reply.step_up]
BY DEF IsReply, Unnamed, Reply

LEMMA ProgressStep ==
  ASSUME NEW s, request[s].required \in Seq(Offered),
         issued \in [StepUps -> Seq(Challenges)],
         NEW replies, \A m \in Range(request[s].required) : IsReply(replies[m]),
         NEW n \in 1 .. Len(request[s].required), NEW u,
         Progress(s, replies, n - 1, u), u.ok
  PROVE  LET v == Try(u.all, replies[request[s].required[n]])
         IN /\ Progress(s, replies, n, v)
            /\ Fresh(s, replies, n) => v.ok
<1> DEFINE reply(i) == replies[request[s].required[i]]
           v == Try(u.all, reply(n))
<1>1. \A i \in 1 .. n : i \in DOMAIN request[s].required
  OBVIOUS
<1>2. \A i \in 1 .. n : IsReply(reply(i))
  BY <1>1 DEF Range
<1>3. n \in 1 .. n /\ n \in Nat /\ \A i \in 1 .. n : i = n \/ i \in 1 .. n - 1
  OBVIOUS
<1>4. IsReply(reply(n))
  BY <1>2, <1>3
<1>5. /\ Kept(u.all)
      /\ \A t \in StepUps : \A k \in DOMAIN issued[t] :
           /\ (\A i \in 1 .. n - 1 : ~Names(reply(i), t, k)) => u.all[t][k] = issued[t][k]
           /\ issued[t][k].by # Wrong => u.all[t][k].by # Wrong
      /\ \A i \in 1 .. n - 1 : /\ IsRight(reply(i))
                               /\ u.all[reply(i).step_up][reply(i).place].by # Wrong
  BY DEF Progress
<1> HIDE DEF reply
<1>6. /\ Kept(v.all) /\ v.ok \in BOOLEAN
      /\ \A t \in StepUps : \A k \in DOMAIN issued[t] :
           /\ ~Names(reply(n), t, k) => v.all[t][k] = u.all[t][k]
           /\ u.all[t][k].by # Wrong => v.all[t][k].by # Wrong
      /\ v.ok => /\ IsRight(reply(n))
                 /\ v.all[reply(n).step_up][reply(n).place].by # Wrong
      /\ /\ IsRight(reply(n))
         /\ u.all[reply(n).step_up][reply(n).place].attempts < MaxAttempts
         => v.ok
  BY <1>4, <1>5, TryKeeps
<1> HIDE DEF v
<1>7. ASSUME NEW t \in StepUps, NEW k \in DOMAIN issued[t],
             \A i \in 1 .. n : ~Names(reply(i), t, k)
      PROVE  v.all[t][k] = issued[t][k]
  <2>1. \A i \in 1 .. n - 1 : ~Names(reply(i), t, k)
    BY <1>3, <1>7
  <2> QED
    BY <1>3, <1>5, <1>6, <1>7, <2>1
<1>8. ASSUME v.ok, NEW i \in 1 .. n
      PROVE  /\ IsRight(reply(i))
             /\ v.all[reply(i).step_up][reply(i).place].by # Wrong
  <2>1. CASE i = n
    BY <1>6, <1>8, <2>1
  <2>2. CASE i \in 1 .. n - 1
    <3>1. IsRight(reply(i)) /\ u.all[reply(i).step_up][reply(i).place].by # Wrong
      BY <1>5, <2>2
    <3>2. reply(i).step_up \in StepUps /\ reply(i).place \in DOMAIN issued[reply(i).step_up]
      BY <1>2, <3>1, ReplyPlaces DEF IsRight
    <3> QED
      BY <1>6, <3>1, <3>2
  <2> QED
    BY <1>3, <2>1, <2>2
<1>9. Progress(s, replies, n, v)
  <2>1. \A t \in StepUps : \A k \in DOMAIN issued[t] :
          /\ (\A i \in 1 .. n : ~Names(reply(i), t, k)) => v.all[t][k] = issued[t][k]
          /\ issued[t][k].by # Wrong => v.all[t][k].by # Wrong
    BY <1>5, <1>6, <1>7
  <2> QED
    BY <1>6, <1>8, <2>1 DEF Progress, reply
<1>10. ASSUME Fresh(s, replies, n)  PROVE v.ok
  <2>1. /\ IsRight(reply(n))
        /\ issued[reply(n).step_up][reply(n).place].attempts < MaxAttempts
        /\ \A i \in 1 .. n - 1 : ~Names(reply(i), reply(n).step_up, reply(n).place)
    BY <1>10 DEF Fresh, reply
  <2>2. reply(n).step_up \in StepUps /\ reply(n).place \in DOMAIN issued[reply(n).step_up]
    BY <1>4, <2>1, ReplyPlaces DEF IsRight
  <2>3. u.all[reply(n).step_up][reply(n).place] = issued[reply(n).step_up][reply(n).place]
    BY <1>5, <2>1, <2>2
  <2> QED
    BY <1>6, <2>1, <2>3
<1> QED
  BY <1>9, <1>10 DEF v, reply

\* What one call of verify_step_up comes to.
LEMMA CallKeeps ==
  ASSUME NEW s, request[s].required \in Seq(Offered),
         issued \in [StepUps -> Seq(Challenges)],
         NEW replies, \A m \in Range(request[s].required) : IsReply(replies[m])
  PROVE  LET L == Len(request[s].required)
         IN /\ Progress(s, replies, L, Outcome(s, replies))
            /\ (\A n \in 1 .. L : Fresh(s, replies, n)) => Outcome(s, replies).ok
<1> DEFINE required == request[s].required
           L == Len(required)
           Easy == \A n \in 1 .. L : Fresh(s, replies, n)
<1>1. L \in Nat /\ DOMAIN required = 1 .. L
  OBVIOUS
<1>2. PICK upto : /\ Calling(s, replies, upto)
                  /\ Outcome(s, replies) = upto[L]
  BY <1>1, OneAfterTheOther
<1> DEFINE Good == {n \in 0 .. L : /\ Progress(s, replies, n, upto[n])
                                   /\ Easy => upto[n].ok}
<1>3. 0 \in Good
  <2>1. upto[0] = [all |-> issued, ok |-> TRUE]
    BY <1>1, <1>2 DEF Calling
  <2>2. upto[0].all = issued /\ upto[0].ok = TRUE
    BY <2>1
  <2>3. Kept(issued)
    BY DEF Kept
  <2>4. Progress(s, replies, 0, upto[0])
    <3>1. \A i \in 1 .. 0 : FALSE
      OBVIOUS
    <3>2. upto[0].ok \in BOOLEAN /\ Kept(upto[0].all)
      BY <2>2, <2>3
    <3>3. \A t \in StepUps : \A k \in DOMAIN issued[t] : upto[0].all[t][k] = issued[t][k]
      BY <2>2
    <3> HIDE DEF L, required
    <3> QED
      BY <3>1, <3>2, <3>3 DEF Progress
  <2> QED
    BY <1>1, <2>2, <2>4
<1>4. ASSUME NEW n \in 0 .. L - 1, n \in Good  PROVE n + 1 \in Good
  <2>1. n + 1 \in 1 .. L /\ (n + 1) - 1 = n /\ n + 1 \in 0 .. L /\ n + 1 # 0
    BY <1>1, SMTT(30)
  <2>2. upto[n + 1] = IF ~upto[n].ok THEN upto[n]
                      ELSE Try(upto[n].all, replies[required[n + 1]])
    BY <1>2, <2>1 DEF Calling
  <2>3. Progress(s, replies, n, upto[n]) /\ (Easy => upto[n].ok)
    BY <1>4
  <2>4. CASE ~upto[n].ok
    <3>1. upto[n + 1] = upto[n]
      BY <2>2, <2>4
    <3>2. \A i \in 1 .. n : i \in 1 .. n + 1
      BY <1>1, SMTT(30)
    <3>3. Progress(s, replies, n + 1, upto[n])
      BY <2>3, <2>4, <3>2 DEF Progress
    <3> HIDE DEF Easy
    <3> QED
      BY <2>1, <2>3, <2>4, <3>1, <3>3
  <2>5. CASE upto[n].ok
    <3> DEFINE v == Try(upto[n].all, replies[required[n + 1]])
    <3>1. upto[n + 1] = v
      BY <2>2, <2>5, SMTT(30)
    <3>2. Progress(s, replies, n + 1, v) /\ (Fresh(s, replies, n + 1) => v.ok)
      BY <2>1, <2>3, <2>5, ProgressStep
    <3>3. Easy => v.ok
      <4> HIDE DEF v
      <4> QED
        BY <2>1, <3>2
    <3> HIDE DEF v, Easy
    <3> QED
      BY <2>1, <3>1, <3>2, <3>3
  <2> QED
    BY <2>4, <2>5
<1>5. L \in Good
  <2> HIDE DEF Good
  <2>1. \A n \in 0 .. L : n \in Good
    BY <1>1, <1>3, <1>4, Upwards
  <2> QED
    BY <1>1, <2>1
<1> QED
  BY <1>2, <1>5

-------------------------------------------------------------------------------
\* The step-up request s is r, its challenges are these, and its expected code is the
\* one sent for the challenge `code`.  Challenges come in the order of the required
\* methods, and a step-up waits where a code has to be sent.  No challenge of a code
\* method is there before a code was sent, so none is ever compared with "", and what was
\* accepted was sent or shown.  If one code is required at most, it is the expected one
\* as soon as the client has the challenges.
CodesOnly(s, r, made) ==
  \A k \in DOMAIN made :
    made[k].by # Wrong => \/ made[k].by = Authenticator(r.user)
                          \/ \E j \in DOMAIN made : made[j].sent /\ made[k].by = Sent(s, j)

Sound(s, r, made, code) ==
  /\ InOrder(r.required, made)
  /\ code \in 0 .. Len(made)
  /\ code # 0 => made[code].sent
  /\ \A k \in DOMAIN made : made[k].method \in CodeMethods => code # 0
  /\ r.phase = "none" => made = <<>>
  /\ r.phase = "sending" => /\ Len(made) < Len(r.required)
                            /\ r.required[Len(made) + 1] \in CodeMethods
  /\ r.phase \in {"open", "success"} =>
       Len(made) = Len(r.required) /\ Len(r.required) # 0
  /\ OneCode(r.required) /\ r.phase \in {"open", "success"} =>
       \A k \in DOMAIN made : made[k].method \in CodeMethods => code = k
  /\ AllAsked => Distinct(r.required)
  /\ CodesOnly(s, r, made)

StepUpTypes ==
  /\ enrolled \in [Users -> Seq(Enrolled)]
  /\ request \in [StepUps -> StepUpRequests]
  /\ issued \in [StepUps -> Seq(Challenges)]
  /\ expected \in [StepUps -> Nat]

StepUpInv ==
  /\ StepUpTypes
  /\ \A s \in StepUps : Sound(s, request[s], issued[s], expected[s])
  /\ SuccessHasCode

\* An action of one step-up that forgets no accepted answer and is no success leaves the
\* others as they were.
LEMMA OthersKeep ==
  ASSUME StepUpInv, NEW s \in StepUps,
         NEW r \in StepUpRequests, NEW made \in Seq(Challenges), NEW code \in Nat,
         enrolled' = enrolled,
         request' = [request EXCEPT ![s] = r], issued' = [issued EXCEPT ![s] = made],
         expected' = [expected EXCEPT ![s] = code],
         Sound(s, r, made, code),
         r.phase = "success" => request[s].phase = "success",
         \A k \in DOMAIN issued[s] : k \in DOMAIN made /\ made[k].by = issued[s][k].by
  PROVE  StepUpInv'
<1>1. StepUpTypes'
  BY DEF StepUpInv, StepUpTypes
<1>2. request'[s] = r /\ issued'[s] = made /\ expected'[s] = code
  BY DEF StepUpInv, StepUpTypes
<1>3. \A t \in StepUps \ {s} : /\ request'[t] = request[t] /\ issued'[t] = issued[t]
                               /\ expected'[t] = expected[t]
  BY DEF StepUpInv, StepUpTypes
<1>4. ASSUME NEW t \in StepUps
      PROVE  Sound(t, request'[t], issued'[t], expected'[t])
  BY <1>2, <1>3 DEF StepUpInv
<1>5. ASSUME NEW t \in StepUps, NEW k \in DOMAIN issued[t], issued[t][k].by # Wrong
      PROVE  k \in DOMAIN issued'[t] /\ issued'[t][k].by # Wrong
  BY <1>2, <1>3, <1>5
<1>6. ASSUME NEW t \in StepUps, request'[t].phase = "success"
      PROVE  request[t].phase = "success"
  BY <1>2, <1>3, <1>6
<1>7. SuccessHasCode'
  <2> SUFFICES ASSUME NEW t \in StepUps, request'[t].phase = "success"
               PROVE  \E u \in StepUps : \E k \in DOMAIN issued'[u] : issued'[u][k].by # Wrong
    BY DEF SuccessHasCode, Accepted
  <2>1. \E u \in StepUps : \E k \in DOMAIN issued[u] : issued[u][k].by # Wrong
    BY <1>6 DEF StepUpInv, SuccessHasCode, Accepted
  <2> QED
    BY <1>5, <2>1
<1> QED
  BY <1>1, <1>4, <1>7 DEF StepUpInv

LEMMA StepUpStarts == StepUpInit => StepUpInv
<1> SUFFICES ASSUME StepUpInit  PROVE StepUpInv
  OBVIOUS
<1>1. ASSUME NEW s \in StepUps
      PROVE  /\ request[s] \in StepUpRequests
             /\ request[s].phase = "none" /\ request[s].required = <<>>
  <2>1. request[s] \in [phase : {"none"}, user : Users, required : {<<>>}]
    BY DEF StepUpInit
  <2>2. PICK u \in Users : request[s] = [phase |-> "none", user |-> u, required |-> <<>>]
    BY <2>1
  <2>3. [phase |-> "none", user |-> u, required |-> <<>>] \in StepUpRequests
    BY DEF StepUpRequests, Phases
  <2> QED
    BY <2>2, <2>3
<1>2. StepUpTypes
  <2>1. request \in [StepUps -> StepUpRequests]
    <3>1. request \in [StepUps -> [phase : {"none"}, user : Users, required : {<<>>}]]
      BY DEF StepUpInit
    <3> QED
      BY <1>1, <3>1
  <2> QED
    BY <2>1 DEF StepUpInit, StepUpTypes
<1>3. ASSUME NEW s \in StepUps  PROVE Sound(s, request[s], issued[s], expected[s])
  <2>1. issued[s] = <<>> /\ expected[s] = 0
    BY DEF StepUpInit
  <2> QED
    BY <1>1, <2>1 DEF Sound, CodesOnly, InOrder, OneCode, Distinct
<1>4. SuccessHasCode
  BY <1>1 DEF SuccessHasCode
<1> QED
  BY <1>2, <1>3, <1>4 DEF StepUpInv

\* Enrolling, verifying and revoking change no step-up.
LEMMA EnrollmentsKeep ==
  ASSUME StepUpInv, enrolled' \in [Users -> Seq(Enrolled)],
         UNCHANGED <<request, issued, expected>>
  PROVE  StepUpInv'
<1>1. StepUpTypes'
  BY DEF StepUpInv, StepUpTypes
<1>2. \A s \in StepUps : Sound(s, request'[s], issued'[s], expected'[s])
  BY DEF StepUpInv
<1>3. SuccessHasCode'
  BY DEF StepUpInv, SuccessHasCode, Accepted
<1> QED
  BY <1>1, <1>2, <1>3 DEF StepUpInv

\* Evaluating: every required method has an enrollment, so the first code stops it.
LEMMA EvaluateKeeps ==
  ASSUME StepUpInv, NEW s \in StepUps, Evaluate(s)
  PROVE  StepUpInv'
<1> DEFINE u == request[s].user
           required == RequiredMethods(u)
<1>1. /\ request[s] \in StepUpRequests /\ u \in Users
      /\ enrolled[u] \in Seq(Enrolled)
      /\ issued[s] \in Seq(Challenges) /\ expected[s] \in Nat
      /\ Sound(s, request[s], issued[s], expected[s])
      /\ issued = [issued EXCEPT ![s] = issued[s]]
      /\ expected = [expected EXCEPT ![s] = expected[s]]
  <2>1. request[s] \in StepUpRequests
    BY DEF StepUpInv, StepUpTypes
  <2>2. u \in Users
    BY <2>1 DEF StepUpRequests
  <2> HIDE DEF u
  <2> QED
    BY <2>1, <2>2 DEF StepUpInv, StepUpTypes
<1>2. /\ request[s].phase = "none" /\ enrolled' = enrolled
      /\ expected' = [expected EXCEPT ![s] = expected[s]]
  BY <1>1 DEF Evaluate
<1>3. issued[s] = <<>> /\ expected[s] = 0
  BY <1>1, <1>2 DEF Sound
<1>4. CASE required = <<>>
  <2> DEFINE r == [request[s] EXCEPT !.phase = "waived"]
  <2>1. /\ request' = [request EXCEPT ![s] = r]
        /\ issued' = [issued EXCEPT ![s] = issued[s]]
    BY <1>1, <1>4 DEF Evaluate
  <2>2. /\ r \in StepUpRequests /\ r.phase = "waived" /\ r.required = request[s].required
        /\ r.user = request[s].user
    BY <1>1 DEF StepUpRequests, Phases
  <2> HIDE DEF r, u, required
  <2>3. Sound(s, r, issued[s], expected[s])
    BY <1>1, <2>2 DEF Sound, CodesOnly, InOrder
  <2> QED
    BY <1>1, <1>2, <2>1, <2>2, <2>3, OthersKeep
<1>5. CASE required # <<>>
  <2>1. /\ required \in Seq(Offered)
        /\ \A k \in DOMAIN required : Enrollments(u, required[k]) # {}
        /\ AllAsked => Distinct(required)
    BY <1>1, Requirements
  <2>2. Initiate(s, required, <<>>)
    BY <1>5 DEF Evaluate
  <2> HIDE DEF required
  <2>3. <<>> \in Seq(Challenges) /\ InOrder(required, <<>>)
    BY <2>1 DEF InOrder
  <2>4. PICK more \in Seq(Challenges), phase \in {"open", "sending"} :
           /\ issued' = [issued EXCEPT ![s] = more]
           /\ request' = [request EXCEPT ![s] =
                            [phase |-> phase, user |-> u, required |-> required]]
           /\ Extends(u, required, <<>>, more, phase)
    BY <2>1, <2>2, <2>3, Initiation
  <2> DEFINE r == [phase |-> phase, user |-> u, required |-> required]
  <2>5. r \in StepUpRequests /\ r.phase = phase /\ r.required = required
    BY <1>1, <2>1 DEF StepUpRequests, Phases
  <2>6. /\ Len(more) \in Nat /\ DOMAIN more = 1 .. Len(more)
        /\ Len(required) \in Nat /\ DOMAIN required = 1 .. Len(required)
        /\ Len(required) # 0
    BY <1>5, <2>1
  <2> HIDE DEF u
  <2>10. /\ InOrder(required, more)
         /\ \A k \in DOMAIN more :
              /\ more[k].by = Wrong
              /\ more[k].method \in CodeMethods => Enrollments(u, required[k]) = {}
         /\ phase = "open" => Len(more) = Len(required)
         /\ phase = "sending" => /\ Len(more) < Len(required)
                                 /\ required[Len(more) + 1] \in CodeMethods
    BY <2>4, SMTT(30) DEF Extends
  <2>7. \A k \in DOMAIN more : more[k].by = Wrong /\ more[k].method \notin CodeMethods
    <3>1. \A k \in DOMAIN more : k \in DOMAIN required
      <4>1. Len(more) <= Len(required)
        BY <2>10 DEF InOrder
      <4> QED
        BY <2>6, <4>1
    <3> QED
      BY <2>1, <2>10, <3>1
  <2>11. CodesOnly(s, r, more)
    BY <2>7 DEF CodesOnly
  <2>12. expected[s] \in 0 .. Len(more)
    BY <1>3, <2>6
  <2>8. request' = [request EXCEPT ![s] = r] /\ issued' = [issued EXCEPT ![s] = more]
    BY <2>4
  <2> HIDE DEF r
  <2>9. Sound(s, r, more, expected[s])
    BY <1>3, <2>1, <2>4, <2>5, <2>6, <2>7, <2>10, <2>11, <2>12 DEF Sound
  <2>13. r.phase # "success"
    BY <2>5
  <2>14. \A k \in DOMAIN issued[s] : k \in DOMAIN more /\ more[k].by = issued[s][k].by
    BY <1>3
  <2> QED
    BY <1>1, <1>2, <2>5, <2>8, <2>9, <2>13, <2>14, OthersKeep
<1> QED
  BY <1>4, <1>5

\* A code was sent: it is the expected one from now on, and if it is the only one, nothing
\* is left to be sent.
LEMMA CodeSentKeeps ==
  ASSUME StepUpInv, NEW s \in StepUps, CodeSent(s)
  PROVE  StepUpInv'
<1> DEFINE required == request[s].required
           u == request[s].user
           k == Len(issued[s]) + 1
           new == Challenge(required[k], TRUE)
           made == Append(issued[s], new)
<1>1. /\ request[s] \in StepUpRequests /\ issued[s] \in Seq(Challenges)
      /\ required \in Seq(Offered) /\ u \in Users
      /\ Sound(s, request[s], issued[s], expected[s])
  BY DEF StepUpInv, StepUpTypes, StepUpRequests
<1>2. /\ request[s].phase = "sending"
      /\ expected' = [expected EXCEPT ![s] = k]
      /\ Initiate(s, required, made) /\ enrolled' = enrolled
  BY <1>1 DEF CodeSent
<1>3. /\ Len(issued[s]) \in Nat /\ DOMAIN issued[s] = 1 .. Len(issued[s])
      /\ Len(required) \in Nat /\ DOMAIN required = 1 .. Len(required)
      /\ k \in DOMAIN required /\ required[k] \in CodeMethods /\ k \in Nat
      /\ DOMAIN issued[s] = 1 .. k - 1
      /\ InOrder(required, issued[s])
      /\ AllAsked => Distinct(required)
      /\ CodesOnly(s, request[s], issued[s])
  BY <1>1, <1>2 DEF Sound
<1>4. new \in Challenges /\ new.method = required[k] /\ new.by = Wrong /\ new.sent = TRUE
  BY <1>1, <1>3 DEF Challenge, Challenges, Codes
<1> HIDE DEF new
<1>5. /\ made \in Seq(Challenges) /\ Len(made) = k /\ made[k] = new
      /\ \A j \in DOMAIN issued[s] : made[j] = issued[s][j]
      /\ DOMAIN made = 1 .. k
  BY <1>1, <1>3, <1>4
<1> HIDE DEF made, required, k, u
<1>6. InOrder(required, made)
  <2>1. \A j \in DOMAIN made : j \in DOMAIN issued[s] \/ j = k
    BY <1>3, <1>5
  <2>2. \A j \in DOMAIN made : made[j].method = required[j]
    BY <1>3, <1>4, <1>5, <2>1 DEF InOrder
  <2> QED
    BY <1>3, <1>5, <2>2 DEF InOrder
<1>17. Initiate(s, required, made)
  BY <1>2
<1>18. required \in Seq(Offered)
  BY <1>1
<1>19. made \in Seq(Challenges)
  BY <1>5
<1>7. PICK more \in Seq(Challenges), phase \in {"open", "sending"} :
         /\ issued' = [issued EXCEPT ![s] = more]
         /\ request' = [request EXCEPT ![s] =
                          [phase |-> phase, user |-> u, required |-> required]]
         /\ Extends(u, required, made, more, phase)
  BY <1>6, <1>17, <1>18, <1>19, Initiation DEF u
<1> DEFINE r == [phase |-> phase, user |-> u, required |-> required]
<1>8. r \in StepUpRequests /\ r.phase = phase /\ r.required = required /\ r.user = u
  BY <1>1, <1>18 DEF StepUpRequests, Phases
<1>9. Len(more) \in Nat /\ DOMAIN more = 1 .. Len(more)
  OBVIOUS
<1>16. /\ InOrder(required, more)
       /\ Len(made) <= Len(more)
       /\ \A j \in DOMAIN made : more[j] = made[j]
       /\ \A j \in DOMAIN more \ DOMAIN made : more[j].by = Wrong
       /\ phase = "open" => Len(more) = Len(required)
       /\ phase = "sending" => /\ Len(more) < Len(required)
                               /\ required[Len(more) + 1] \in CodeMethods
  BY <1>7 DEF Extends
<1>10. k \in 0 .. Len(more) /\ Len(more) <= Len(required) /\ k # 0 /\ Len(required) # 0
  <2>1. Len(made) = k /\ k \in Nat /\ k # 0
    BY <1>3, <1>5
  <2>2. Len(made) <= Len(more) /\ Len(more) <= Len(required)
    BY <1>16 DEF InOrder
  <2> QED
    BY <1>3, <1>9, <2>1, <2>2
<1>11. ASSUME OneCode(required), NEW j \in DOMAIN more, more[j].method \in CodeMethods
       PROVE  k = j
  <2>1. more[j].method = required[j] /\ j \in DOMAIN required
    <3>1. more[j].method = required[j]
      BY <1>11, <1>16 DEF InOrder
    <3>2. Len(required) \in Nat /\ DOMAIN required = 1 .. Len(required)
      BY <1>3
    <3> QED
      BY <1>9, <1>10, <1>11, <3>1, <3>2
  <2> QED
    BY <1>3, <1>11, <2>1 DEF OneCode
<1>20. /\ \A j \in DOMAIN issued[s] : j \in DOMAIN more /\ more[j] = issued[s][j]
       /\ \A j \in DOMAIN more \ DOMAIN issued[s] : more[j].by = Wrong
       /\ k \in DOMAIN more /\ more[k].sent
  <2>1. k \in DOMAIN made /\ \A j \in DOMAIN issued[s] : j \in DOMAIN made
    BY <1>3, <1>5
  <2>2. \A j \in DOMAIN made : j \in DOMAIN more
    BY <1>5, <1>9, <1>10
  <2>3. \A j \in DOMAIN made \ DOMAIN issued[s] : j = k
    BY <1>3, <1>5
  <2> QED
    BY <1>4, <1>5, <1>16, <2>1, <2>2, <2>3
<1>12. CodesOnly(s, r, more)
  <2> SUFFICES ASSUME NEW j \in DOMAIN more, more[j].by # Wrong
               PROVE  \/ more[j].by = Authenticator(r.user)
                      \/ \E i \in DOMAIN more : more[i].sent /\ more[j].by = Sent(s, i)
    BY DEF CodesOnly
  <2>1. j \in DOMAIN issued[s] /\ more[j] = issued[s][j]
    BY <1>20
  <2>2. \/ more[j].by = Authenticator(u)
        \/ \E i \in DOMAIN issued[s] : issued[s][i].sent /\ more[j].by = Sent(s, i)
    BY <1>3, <2>1 DEF CodesOnly, u
  <2> QED
    BY <1>8, <1>20, <2>2
<1>13. request' = [request EXCEPT ![s] = r]
  BY <1>7, SMTT(30)
<1> HIDE DEF r
<1>14. Sound(s, r, more, k)
  BY <1>3, <1>16, <1>8, <1>9, <1>10, <1>11, <1>12, <1>20 DEF Sound
<1>15. k \in Nat /\ r.phase # "success"
  BY <1>3, <1>8
<1> QED
  BY <1>1, <1>2, <1>7, <1>8, <1>13, <1>14, <1>15, <1>20, OthersKeep

\* A failed send ends the request; the end of a challenge's time changes nothing else.
LEMMA EndingsKeep ==
  ASSUME StepUpInv, NEW s \in StepUps,
         SendFails(s) \/ \E k \in DOMAIN issued[s] : Expire(s, k)
  PROVE  StepUpInv'
<1>1. /\ request[s] \in StepUpRequests /\ issued[s] \in Seq(Challenges)
      /\ expected[s] \in Nat
      /\ Sound(s, request[s], issued[s], expected[s])
      /\ request = [request EXCEPT ![s] = request[s]]
      /\ issued = [issued EXCEPT ![s] = issued[s]]
      /\ expected = [expected EXCEPT ![s] = expected[s]]
  BY DEF StepUpInv, StepUpTypes
<1>2. enrolled' = enrolled /\ expected' = [expected EXCEPT ![s] = expected[s]]
  BY <1>1 DEF SendFails, Expire
<1>3. CASE SendFails(s)
  <2> DEFINE r == [request[s] EXCEPT !.phase = "error"]
  <2>1. /\ request' = [request EXCEPT ![s] = r]
        /\ issued' = [issued EXCEPT ![s] = issued[s]]
    BY <1>1, <1>3 DEF SendFails
  <2>2. /\ r \in StepUpRequests /\ r.phase = "error" /\ r.required = request[s].required
        /\ r.user = request[s].user
    BY <1>1 DEF StepUpRequests, Phases
  <2> HIDE DEF r
  <2>3. Sound(s, r, issued[s], expected[s])
    BY <1>1, <2>2 DEF Sound, CodesOnly
  <2> QED
    BY <1>1, <1>2, <2>1, <2>2, <2>3, OthersKeep
<1>4. ASSUME NEW k \in DOMAIN issued[s], Expire(s, k)  PROVE StepUpInv'
  <2> DEFINE c == [issued[s][k] EXCEPT !.attempts = MaxAttempts]
             made == [issued[s] EXCEPT ![k] = c]
  <2>1. /\ issued' = [issued EXCEPT ![s] = made]
        /\ request' = [request EXCEPT ![s] = request[s]]
    BY <1>1, <1>4 DEF Expire
  <2>2. issued[s][k] \in Challenges
    BY <1>1
  <2>3. /\ c \in Challenges /\ c.method = issued[s][k].method /\ c.by = issued[s][k].by
        /\ c.sent = issued[s][k].sent
    BY <2>2, StepUpAssumption DEF Challenges
  <2> HIDE DEF c
  <2>4. /\ made \in Seq(Challenges) /\ Len(made) = Len(issued[s])
        /\ DOMAIN made = DOMAIN issued[s]
        /\ \A j \in DOMAIN issued[s] :
             /\ made[j].method = issued[s][j].method /\ made[j].by = issued[s][j].by
             /\ made[j].sent = issued[s][j].sent
    BY <1>1, <2>3
  <2>5. request[s].phase = "none" => made = <<>>
    BY <1>1, <1>4 DEF Sound
  <2> HIDE DEF made
  <2>6. InOrder(request[s].required, made) /\ CodesOnly(s, request[s], made)
    BY <1>1, <2>4 DEF Sound, InOrder, CodesOnly
  <2>7. expected[s] # 0 => made[expected[s]].sent
    <3>1. expected[s] # 0 => expected[s] \in DOMAIN issued[s]
      BY <1>1 DEF Sound
    <3> QED
      BY <1>1, <2>4, <3>1 DEF Sound
  <2>8. Sound(s, request[s], made, expected[s])
    BY <1>1, <2>4, <2>5, <2>6, <2>7 DEF Sound
  <2> QED
    BY <1>1, <1>2, <2>1, <2>4, <2>8, OthersKeep
<1> QED
  BY <1>3, <1>4

\* A call of verify_step_up, whatever challenges its response names: what it accepts is the
\* code of the challenge, and a success has accepted an answer to the first method.
LEMMA VerifyKeeps ==
  ASSUME StepUpInv, NEW s \in StepUps, VerifyStepUp(s)
  PROVE  StepUpInv'
<1> DEFINE required == request[s].required
<1>1. /\ enrolled \in [Users -> Seq(Enrolled)] /\ request \in [StepUps -> StepUpRequests]
      /\ issued \in [StepUps -> Seq(Challenges)] /\ expected \in [StepUps -> Nat]
      /\ request[s] \in StepUpRequests /\ required \in Seq(Offered)
  BY DEF StepUpInv, StepUpTypes, StepUpRequests
<1>2. PICK replies \in [Range(required) -> Replies] :
        LET result == Outcome(s, replies)
        IN /\ issued' = result.all
           /\ request' = [request EXCEPT ![s].phase = IF result.ok THEN "success" ELSE @]
  BY DEF VerifyStepUp
<1> DEFINE result == Outcome(s, replies)
           L == Len(required)
           reply(i) == replies[required[i]]
           r == [request[s] EXCEPT !.phase = IF result.ok THEN "success" ELSE @]
<1>3. /\ request[s].phase \in {"open", "success"}
      /\ enrolled' = enrolled /\ expected' = expected
      /\ issued' = result.all
      /\ request' = [request EXCEPT ![s] = r]
  BY <1>2 DEF VerifyStepUp
<1>4. \A m \in Range(required) : IsReply(replies[m])
  BY <1>1, RepliesAreReplies
<1>5. Progress(s, replies, L, result)
  BY <1>1, <1>4, CallKeeps
<1> HIDE DEF result
<1>6. L \in Nat /\ L # 0 /\ 1 \in 1 .. L /\ required[1] \in Range(required)
  <2>1. L # 0 /\ L \in Nat
    BY <1>1, <1>3 DEF StepUpInv, Sound
  <2>2. 1 \in DOMAIN required
    BY <1>1, <2>1
  <2> QED
    BY <2>1, <2>2 DEF Range
<1>7. /\ Kept(issued') /\ result.ok \in BOOLEAN
      /\ \A t \in StepUps : \A k \in DOMAIN issued[t] :
           issued[t][k].by # Wrong => issued'[t][k].by # Wrong
      /\ result.ok => /\ IsRight(reply(1))
                      /\ issued'[reply(1).step_up][reply(1).place].by # Wrong
  <2> HIDE DEF L
  <2> QED
    BY <1>3, <1>5, <1>6 DEF Progress
<1>8. /\ r \in StepUpRequests /\ r.required = required /\ r.user = request[s].user
      /\ r.phase \in {"open", "success"}
      /\ r.phase = "success" => result.ok \/ request[s].phase = "success"
  BY <1>1, <1>3 DEF StepUpRequests, Phases
<1> HIDE DEF r
<1>9. /\ request'[s] = r /\ \A t \in StepUps \ {s} : request'[t] = request[t]
      /\ request' \in [StepUps -> StepUpRequests]
  BY <1>1, <1>3, <1>8
<1>10. StepUpTypes'
  BY <1>1, <1>3, <1>7, <1>9 DEF StepUpTypes, Kept
<1>11. ASSUME NEW t \in StepUps
       PROVE  /\ Len(issued'[t]) = Len(issued[t]) /\ DOMAIN issued'[t] = DOMAIN issued[t]
              /\ \A k \in DOMAIN issued[t] :
                   /\ issued'[t][k].method = issued[t][k].method
                   /\ issued'[t][k].sent = issued[t][k].sent
                   /\ issued'[t][k].by = issued[t][k].by \/ Right(t, k, issued'[t][k].by)
  <2>1. issued[t] \in Seq(Challenges) /\ issued'[t] \in Seq(Challenges)
    BY <1>1, <1>7 DEF Kept
  <2> QED
    BY <1>7, <2>1 DEF Kept
<1>12. ASSUME NEW t \in StepUps
       PROVE  Sound(t, request'[t], issued'[t], expected'[t])
  <2>1. Sound(t, request[t], issued[t], expected[t])
    BY DEF StepUpInv
  <2>2. /\ request'[t].required = request[t].required
        /\ request'[t].user = request[t].user
        /\ \/ request'[t].phase = request[t].phase
           \/ {request'[t].phase, request[t].phase} \subseteq {"open", "success"}
    BY <1>3, <1>8, <1>9
  <2>3. InOrder(request[t].required, issued'[t])
    BY <1>11, <2>1 DEF Sound, InOrder
  <2>4. CodesOnly(t, request[t], issued'[t])
    <3> SUFFICES ASSUME NEW k \in DOMAIN issued[t], issued'[t][k].by # Wrong
                 PROVE  \/ issued'[t][k].by = Authenticator(request[t].user)
                        \/ \E j \in DOMAIN issued[t] :
                             issued[t][j].sent /\ issued'[t][k].by = Sent(t, j)
      BY <1>11 DEF CodesOnly
    <3>1. CASE issued'[t][k].by = issued[t][k].by
      BY <2>1, <3>1 DEF Sound, CodesOnly
    <3>2. CASE Right(t, k, issued'[t][k].by)
      <4>1. CASE issued[t][k].method = "TOTP"
        BY <3>2, <4>1 DEF Right, CodeOf
      <4>2. CASE issued[t][k].method # "TOTP"
        <5>1. issued[t][k].method \in CodeMethods
          <6>1. issued[t] \in Seq(Challenges)
            BY <1>1
          <6>2. issued[t][k] \in Challenges
            BY <6>1
          <6>3. issued[t][k].method \in Offered
            BY <6>2 DEF Challenges
          <6> QED
            BY <4>2, <6>3, StepUpAssumption DEF Offered
        <5>2. expected[t] # 0 /\ expected[t] \in 0 .. Len(issued[t])
              /\ issued[t][expected[t]].sent
          BY <2>1, <5>1 DEF Sound
        <5>3. expected[t] \in DOMAIN issued[t]
          <6>1. issued[t] \in Seq(Challenges)
            BY <1>1
          <6> QED
            BY <5>2, <6>1
        <5>4. issued'[t][k].by = Sent(t, expected[t])
          BY <3>2, <4>2, <5>2 DEF Right, CodeOf, ContextCode
        <5> QED
          BY <5>2, <5>3, <5>4
      <4> QED
        BY <4>1, <4>2
    <3> QED
      BY <1>11, <3>1, <3>2
  <2>5. expected[t] # 0 => issued'[t][expected[t]].sent
    <3>1. issued[t] \in Seq(Challenges)
      BY <1>1
    <3>2. expected[t] # 0 => expected[t] \in DOMAIN issued[t]
      BY <2>1, <3>1 DEF Sound
    <3> QED
      BY <1>11, <2>1, <3>2 DEF Sound
  <2>6. \A k \in DOMAIN issued'[t] :
          issued'[t][k].method \in CodeMethods <=> issued[t][k].method \in CodeMethods
    BY <1>11
  <2>7. request'[t].phase = "none" => issued'[t] = <<>>
    <3>1. issued[t] \in Seq(Challenges) /\ issued'[t] \in Seq(Challenges)
      BY <1>1, <1>10 DEF StepUpTypes
    <3> QED
      BY <1>11, <2>1, <2>2, <3>1 DEF Sound
  <2>8. CodesOnly(t, request'[t], issued'[t])
    BY <2>2, <2>4 DEF CodesOnly
  <2> QED
    BY <1>3, <1>11, <2>1, <2>2, <2>3, <2>5, <2>6, <2>7, <2>8 DEF Sound
<1>13. SuccessHasCode'
  <2> SUFFICES ASSUME NEW t \in StepUps, request'[t].phase = "success"
               PROVE  \E u \in StepUps : \E k \in DOMAIN issued'[u] : issued'[u][k].by # Wrong
    BY DEF SuccessHasCode, Accepted
  <2>1. CASE request[t].phase = "success"
    <3>1. \E u \in StepUps : \E k \in DOMAIN issued[u] : issued[u][k].by # Wrong
      BY <2>1 DEF StepUpInv, SuccessHasCode, Accepted
    <3> QED
      BY <1>7, <1>11, <3>1
  <2>2. CASE request[t].phase # "success"
    <3>1. result.ok
      BY <1>8, <1>9, <2>2
    <3>2. reply(1).step_up \in StepUps /\ reply(1).place \in DOMAIN issued[reply(1).step_up]
      BY <1>4, <1>6, <1>7, <3>1, ReplyPlaces DEF IsRight
    <3> QED
      BY <1>7, <1>11, <3>1, <3>2
  <2> QED
    BY <2>1, <2>2
<1> QED
  BY <1>10, <1>12, <1>13 DEF StepUpInv

LEMMA StepUpStep ==
  ASSUME StepUpInv, [StepUpNext]_stepUpVars
  PROVE  StepUpInv'
<1>1. enrolled \in [Users -> Seq(Enrolled)]
  BY DEF StepUpInv, StepUpTypes
<1>2. ASSUME NEW u \in Users, NEW m \in Methods, Enroll(u, m)  PROVE StepUpInv'
  <2>1. [method |-> m, verified |-> FALSE] \in Enrolled
    BY <1>2 DEF Enroll, Enrolled, Offered
  <2>2. enrolled' \in [Users -> Seq(Enrolled)]
    BY <1>1, <1>2, <2>1 DEF Enroll
  <2> QED
    BY <1>2, <2>2, EnrollmentsKeep DEF Enroll
<1>3. ASSUME NEW u \in Users, NEW i \in 1 .. MaxEnrolled, VerifyEnrollment(u, i)
      PROVE  StepUpInv'
  <2> DEFINE e == [enrolled[u][i] EXCEPT !.verified = TRUE]
             new == [enrolled[u] EXCEPT ![i] = e]
  <2>1. enrolled[u] \in Seq(Enrolled) /\ i \in DOMAIN enrolled[u] /\ enrolled[u][i] \in Enrolled
    BY <1>1, <1>3 DEF VerifyEnrollment
  <2>2. e \in Enrolled
    BY <2>1 DEF Enrolled
  <2>3. enrolled' = [enrolled EXCEPT ![u] = new]
    BY <1>3 DEF VerifyEnrollment
  <2> HIDE DEF e
  <2>4. new \in Seq(Enrolled)
    BY <2>1, <2>2
  <2> HIDE DEF new
  <2>5. enrolled' \in [Users -> Seq(Enrolled)]
    BY <1>1, <2>3, <2>4
  <2> QED
    BY <1>3, <2>5, EnrollmentsKeep DEF VerifyEnrollment
<1>4. ASSUME NEW u \in Users, RevokeAll(u)  PROVE StepUpInv'
  <2>1. enrolled' \in [Users -> Seq(Enrolled)]
    BY <1>1, <1>4 DEF RevokeAll
  <2> QED
    BY <1>4, <2>1, EnrollmentsKeep DEF RevokeAll
<1>5. ASSUME NEW s \in StepUps, Evaluate(s)  PROVE StepUpInv'
  BY <1>5, EvaluateKeeps
<1>6. ASSUME NEW s \in StepUps, CodeSent(s)  PROVE StepUpInv'
  BY <1>6, CodeSentKeeps
<1>7. ASSUME NEW s \in StepUps,
             SendFails(s) \/ \E k \in DOMAIN issued[s] : Expire(s, k)
      PROVE StepUpInv'
  BY <1>7, EndingsKeep
<1>8. ASSUME NEW s \in StepUps, VerifyStepUp(s)  PROVE StepUpInv'
  BY <1>8, VerifyKeeps
<1>9. CASE UNCHANGED stepUpVars
  BY <1>1, <1>9, EnrollmentsKeep DEF stepUpVars
<1> QED
  BY <1>2, <1>3, <1>4, <1>5, <1>6, <1>7, <1>8, <1>9 DEF StepUpNext

THEOREM StepUpsSound == StepUpSpec => []StepUpInv
BY StepUpStarts, StepUpStep, PTL DEF StepUpSpec

\* The types of the step-up: challenges are created in the order of the required methods,
\* all of them before the first answer, and the expected code is of a challenge there is.
THEOREM StepUpsTyped == StepUpSpec => []StepUpTypeOK
<1>1. StepUpInv => StepUpTypeOK
  <2> SUFFICES ASSUME StepUpInv  PROVE StepUpTypeOK
    OBVIOUS
  <2>1. enrolled \in [Users -> Seq([method : Methods, verified : BOOLEAN])]
    <3> DEFINE Wider == [method : Methods, verified : BOOLEAN]
    <3>1. Offered \subseteq Methods
      BY StepUpAssumption DEF Offered, Methods
    <3>2. Enrolled \subseteq Wider
      BY <3>1 DEF Enrolled
    <3>3. enrolled \in [Users -> Seq(Enrolled)]
      BY DEF StepUpInv, StepUpTypes
    <3> HIDE DEF Wider
    <3>4. \A u \in Users : enrolled[u] \in Seq(Wider)
      BY <3>2, <3>3
    <3> QED  BY <3>3, <3>4 DEF Wider
  <2>2. ASSUME NEW s \in StepUps
        PROVE  /\ request[s].phase \in Phases /\ request[s].user \in Users
               /\ Len(issued[s]) <= Len(request[s].required)
               /\ \A k \in DOMAIN issued[s] : issued[s][k].method = request[s].required[k]
               /\ request[s].phase \in {"open", "success"} =>
                    Len(issued[s]) = Len(request[s].required)
               /\ expected[s] \in 0 .. Len(issued[s])
    <3>1. /\ request[s] \in StepUpRequests /\ issued[s] \in Seq(Challenges)
          /\ Sound(s, request[s], issued[s], expected[s])
      BY DEF StepUpInv, StepUpTypes
    <3> QED  BY <3>1 DEF Sound, InOrder, StepUpRequests
  <2> QED  BY <2>1, <2>2 DEF StepUpTypeOK
<1> QED
  BY <1>1, StepUpsSound, PTL

\* Whichever challenges the responses name, nothing but codes is accepted, and no step-up
\* succeeds without one, whatever is configured, enrolled, revoked and asked for.  Whoever
\* a step-up requires at most one code of, and no method twice, is let in with his own.
DecidesRightly ==
  /\ CodesAccepted /\ SuccessHasCode
  /\ \A s \in StepUps :
       OneCode(request[s].required) /\ Distinct(request[s].required) => OwnCodes(s)

\* The user's own reply to the i-th required method names the challenge of that method.
LEMMA OwnRepliesOwn ==
  ASSUME StepUpInv, NEW s \in StepUps, request[s].phase = "open", NEW replies \in OwnReplies(s)
  PROVE  /\ \A m \in Range(request[s].required) : IsReply(replies[m])
         /\ \A i \in DOMAIN request[s].required :
              \E k \in DOMAIN issued[s] :
                /\ replies[request[s].required[i]] = OwnReply(s, k)
                /\ issued[s][k].method = request[s].required[i]
<1>1. /\ issued[s] \in Seq(Challenges) /\ request[s] \in StepUpRequests
      /\ issued \in [StepUps -> Seq(Challenges)]
  BY DEF StepUpInv, StepUpTypes
<1>2. ASSUME NEW m \in Range(request[s].required)
      PROVE  \E k \in DOMAIN issued[s] : replies[m] = OwnReply(s, k) /\ issued[s][k].method = m
  <2>1. PICK k \in DOMAIN issued[s] : replies[m] = OwnReply(s, k)
    BY DEF OwnReplies
  <2>2. issued[s][replies[m].place].method = m
    BY DEF OwnReplies
  <2>3. replies[m].place = k
    BY <2>1 DEF OwnReply, Reply
  <2> QED
    BY <2>1, <2>2, <2>3
<1>3. ASSUME NEW k \in DOMAIN issued[s]  PROVE IsReply(OwnReply(s, k))
  <2> DEFINE code == IF issued[s][k].method = "TOTP" THEN Authenticator(request[s].user)
                     ELSE Sent(s, k)
  <2>1. k \in Nat /\ request[s].user \in Users
    BY <1>1 DEF StepUpRequests
  <2>2. code \in Codes
    BY <2>1 DEF Codes
  <2>3. OwnReply(s, k) = Reply(s, k, code)
    BY DEF OwnReply
  <2> HIDE DEF code
  <2> QED
    BY <2>2, <2>3 DEF IsReply
<1>4. \A m \in Range(request[s].required) : IsReply(replies[m])
  BY <1>2, <1>3
<1>5. \A i \in DOMAIN request[s].required : request[s].required[i] \in Range(request[s].required)
  BY DEF Range
<1> QED
  BY <1>2, <1>4, <1>5

LEMMA SoundDecides == StepUpInv => DecidesRightly
<1> SUFFICES ASSUME StepUpInv  PROVE DecidesRightly
  OBVIOUS
<1>1. CodesAccepted /\ SuccessHasCode
  <2>1. \A s \in StepUps : CodesOnly(s, request[s], issued[s])
    BY DEF StepUpInv, Sound
  <2> QED
    BY <2>1 DEF StepUpInv, CodesAccepted, CodesOnly, Accepted
<1>2. ASSUME NEW s \in StepUps, OneCode(request[s].required), Distinct(request[s].required),
             request[s].phase = "open",
             \A k \in DOMAIN issued[s] :
               /\ issued[s][k].attempts < MaxAttempts
               /\ IF issued[s][k].method = "TOTP" THEN Verified(request[s].user, "TOTP")
                  ELSE issued[s][k].sent,
             NEW replies \in OwnReplies(s)
      PROVE  Outcome(s, replies).ok
  <2> DEFINE required == request[s].required
             L == Len(required)
             reply(i) == replies[required[i]]
  <2>1. /\ issued[s] \in Seq(Challenges) /\ required \in Seq(Offered)
        /\ issued \in [StepUps -> Seq(Challenges)]
        /\ L \in Nat /\ DOMAIN required = 1 .. L
        /\ Sound(s, request[s], issued[s], expected[s])
    BY DEF StepUpInv, StepUpTypes, StepUpRequests
  <2>2. \A k \in DOMAIN issued[s] : issued[s][k].method \in CodeMethods => expected[s] = k
    BY <1>2, <2>1 DEF Sound
  <2>3. \A i \in 1 .. L : \E k \in DOMAIN issued[s] :
          reply(i) = OwnReply(s, k) /\ issued[s][k].method = required[i]
    BY <1>2, <2>1, OwnRepliesOwn
  <2>4. ASSUME NEW k \in DOMAIN issued[s]
        PROVE  /\ IsRight(OwnReply(s, k))
               /\ OwnReply(s, k).step_up = s /\ OwnReply(s, k).place = k
    <3>1. /\ OwnReply(s, k).named
          /\ OwnReply(s, k).step_up = s /\ OwnReply(s, k).place = k
          /\ OwnReply(s, k).code = IF issued[s][k].method = "TOTP"
                                   THEN Authenticator(request[s].user) ELSE Sent(s, k)
      BY DEF OwnReply, Reply
    <3>2. CASE issued[s][k].method = "TOTP"
      BY <1>2, <3>1, <3>2 DEF IsRight, Right, CodeOf
    <3>3. CASE issued[s][k].method # "TOTP"
      <4>1. issued[s][k].method \in Offered
        <5>1. issued[s][k] \in Challenges
          BY <2>1
        <5> QED
          BY <5>1 DEF Challenges
      <4>2. expected[s] = k
        BY <2>2, <3>3, <4>1, StepUpAssumption DEF Offered
      <4>3. k # 0
        BY <2>1
      <4> QED
        BY <3>1, <3>3, <4>2, <4>3 DEF IsRight, Right, CodeOf, ContextCode
    <3> QED
      BY <3>1, <3>2, <3>3
  <2>5. ASSUME NEW n \in 1 .. L  PROVE Fresh(s, replies, n)
    <3>1. PICK k \in DOMAIN issued[s] :
            reply(n) = OwnReply(s, k) /\ issued[s][k].method = required[n]
      BY <2>3
    <3>2. ASSUME NEW i \in 1 .. n - 1  PROVE ~Names(reply(i), s, k)
      <4>1. i \in 1 .. L /\ i # n
        BY <2>1
      <4>2. PICK j \in DOMAIN issued[s] :
              reply(i) = OwnReply(s, j) /\ issued[s][j].method = required[i]
        BY <2>3, <4>1
      <4>3. required[i] # required[n]
        BY <1>2, <2>1, <4>1 DEF Distinct
      <4>4. j # k
        BY <3>1, <4>2, <4>3
      <4> QED
        BY <2>4, <4>2, <4>4 DEF Names
    <3>3. /\ IsRight(reply(n)) /\ reply(n).step_up = s /\ reply(n).place = k
      BY <2>4, <3>1
    <3> HIDE DEF required, L
    <3> QED
      BY <1>2, <3>1, <3>2, <3>3 DEF Fresh, required
  <2> QED
    BY <1>2, <2>1, <2>5, CallKeeps, OwnRepliesOwn
<1>3. ASSUME NEW s \in StepUps, OneCode(request[s].required), Distinct(request[s].required)
      PROVE  OwnCodes(s)
  BY <1>2, <1>3 DEF OwnCodes
<1> QED
  BY <1>1, <1>3 DEF DecidesRightly

THEOREM DecideRightly == StepUpSpec => []DecidesRightly
BY SoundDecides, StepUpsSound, PTL

\* Where one provider is configured at most and the triggers ask for all there is to
\* enroll, a required method comes once, and one code is required at most.
THEOREM StepUpsDecide ==
  ASSUME \A m, n \in Providers : m = n, AllAsked
  PROVE  StepUpSpec => []StepUpDecides
<1>1. ASSUME StepUpInv  PROVE StepUpDecides
  <2>1. ASSUME NEW s \in StepUps
        PROVE  OneCode(request[s].required) /\ Distinct(request[s].required)
    <3> DEFINE required == request[s].required
    <3>1. Distinct(required) /\ required \in Seq(Offered)
      BY <1>1 DEF StepUpInv, StepUpTypes, StepUpRequests, Sound
    <3>2. \A i \in DOMAIN required : required[i] \in Offered
      BY <3>1
    <3>3. \A i \in DOMAIN required : required[i] \in CodeMethods => required[i] \in Providers
      BY <3>2 DEF Offered, CodeMethods
    <3> QED
      BY <3>1, <3>3 DEF OneCode, Distinct
  <2>2. CodesAccepted /\ SuccessHasCode /\ \A s \in StepUps : OwnCodes(s)
    BY <1>1, <2>1, SoundDecides DEF DecidesRightly
  <2> QED
    BY <2>2 DEF StepUpDecides, OwnCodesAccepted
<1> QED
  BY <1>1, StepUpsSound, PTL

\* "Your code is: {code}" (step_up.py:435), where two codes are required: the context has
\* room for one, so the user's own codes are refused however the client picks the
\* challenges, for every way the codes were sent and every call before (verify_challenge).
TwoCodes(required) ==
  \E i, j \in DOMAIN required :
    required[i] # required[j] /\ {required[i], required[j]} \subseteq CodeMethods

TwoRefused(s) ==
  request[s].phase = "open" /\ TwoCodes(request[s].required) =>
    \A replies \in OwnReplies(s) : ~Outcome(s, replies).ok

THEOREM TwoCodesRefused == StepUpSpec => [](\A s \in StepUps : TwoRefused(s))
<1>1. ASSUME StepUpInv, NEW s \in StepUps, TwoCodes(request[s].required),
             request[s].phase = "open",
             NEW replies \in OwnReplies(s), Outcome(s, replies).ok
      PROVE  FALSE
  <2> DEFINE required == request[s].required
             L == Len(required)
             reply(i) == replies[required[i]]
  <2>1. /\ issued[s] \in Seq(Challenges) /\ required \in Seq(Offered)
        /\ issued \in [StepUps -> Seq(Challenges)]
        /\ L \in Nat /\ DOMAIN required = 1 .. L
    BY <1>1 DEF StepUpInv, StepUpTypes, StepUpRequests
  <2>2. /\ \A m \in Range(required) : IsReply(replies[m])
        /\ \A i \in DOMAIN required : \E k \in DOMAIN issued[s] :
             reply(i) = OwnReply(s, k) /\ issued[s][k].method = required[i]
    BY <1>1, OwnRepliesOwn
  <2>3. Progress(s, replies, L, Outcome(s, replies))
    BY <2>1, <2>2, CallKeeps
  <2>4. \A i \in 1 .. L : IsRight(reply(i))
    BY <1>1, <2>3 DEF Progress
  <2>5. ASSUME NEW i \in DOMAIN required, required[i] \in CodeMethods
        PROVE  issued[s][expected[s]].method = required[i]
    <3>1. PICK k \in DOMAIN issued[s] :
            reply(i) = OwnReply(s, k) /\ issued[s][k].method = required[i]
      BY <2>2
    <3>2. issued[s][k].method # "TOTP"
      BY <2>5, <3>1 DEF CodeMethods
    <3>3. IsRight(OwnReply(s, k))
      BY <2>1, <2>4, <3>1
    <3>4. Sent(s, k) = ContextCode(s)
      BY <3>2, <3>3 DEF IsRight, Right, CodeOf, OwnReply, Reply
    <3>5. k = expected[s]
      BY <3>4 DEF ContextCode, Sent, Empty
    <3> QED
      BY <3>1, <3>5
  <2> QED
    BY <1>1, <2>5 DEF TwoCodes
<1>2. StepUpInv => \A s \in StepUps : TwoRefused(s)
  BY <1>1 DEF TwoRefused
<1> QED
  BY <1>2, StepUpsSound, PTL

-------------------------------------------------------------------------------
(* The three side by side *)

\* What the parts of MCAccount do together is what each does, with the others at rest: what
\* is proved of a component is true of the instance that is checked.
LEMMA AccountParts ==
  MCSpec => Safety /\ SpanSpec /\ StepUpSpec
<1> DEFINE all == <<vars, limiterVars, spanVars, stepUpVars, part>>
<1>1. MCInit => Init /\ SpanInit /\ StepUpInit
  BY DEF MCInit
<1>2. [MCNext]_all => [Next]_vars
  BY DEF MCNext
<1>3. [MCNext]_all => [SpanNext]_<<limiterVars, spanVars>>
  BY DEF MCNext
<1>4. [MCNext]_all => [StepUpNext]_stepUpVars
  BY DEF MCNext
<1> QED
  BY <1>1, <1>2, <1>3, <1>4, PTL DEF MCSpec, Safety, SpanSpec, StepUpSpec

\* What is kept of an identifier, of an account and of a step-up has its types in every
\* state that login, limiter and step-up reach.
THEOREM AccountTyped ==
  ASSUME \A n \in Nat : 2 ^ n \in Nat
  PROVE  MCSpec => []TypesOK
<1>1. SpanSpec => LimiterSafety
  BY SpanWatches
<1>2. LimiterSafety => []LimiterTypeOK
  BY LimiterTyped
<1>3. TypeOK /\ LimiterTypeOK /\ StepUpTypeOK => TypesOK
  BY DEF TypesOK
<1> QED
  BY <1>1, <1>2, <1>3, AccountParts, TypeCorrect, StepUpsTyped, PTL
===============================================================================
