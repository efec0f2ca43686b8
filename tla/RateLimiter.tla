------------------------------ MODULE RateLimiter -----------------------------
(***************************************************************************)
(* auth_defense/layer1_ratelimit: SlidingWindowRateLimiter, the state kept *)
(* for one identifier on one route.  A request is checked before it is     *)
(* handled and recorded, with its outcome, after; other requests come in   *)
(* between.  Every method body runs under one lock and is one step.  Time  *)
(* passes in ticks: instants are kept as the time elapsed or left, so      *)
(* nothing grows without bound.                                            *)
(***************************************************************************)
EXTENDS Integers, FiniteSets

CONSTANTS
  Attempts,          \* requests that may be between check and record at once
  WindowTicks,       \* window_seconds
  MaxRequests,       \* max_requests
  ThresholdFailed,   \* penalty_threshold_failed
  ThresholdPercent,  \* penalty_threshold_rate
  BlockAfter,        \* block_after
  DecayTicks,        \* penalty_decay_minutes
  MaxPenalty         \* max_penalty_duration_hours

ASSUME LimiterAssumption ==
  /\ IsFiniteSet(Attempts)
  /\ {WindowTicks, MaxRequests, ThresholdFailed, BlockAfter, DecayTicks, MaxPenalty}
       \subseteq Nat \ {0}
  /\ ThresholdPercent \in 0 .. 100

VARIABLES
  age,           \* time since window_start, up to the first tick that ends the window
  requestCount,
  failedCount,   \* success_count is the rest of requestCount
  level,         \* penalty_level
  left,          \* time until penalty_until, 0 once it has passed
  checked,       \* requests checked and allowed, not yet recorded
  admitted       \* a request was let through since the last tick (not in the code)

limiterVars == <<age, requestCount, failedCount, level, left, checked, admitted>>

Smaller(a, b) == IF a < b THEN a ELSE b

LimiterInit ==
  /\ age = 0 /\ requestCount = 0 /\ failedCount = 0
  /\ level = 0 /\ left = 0
  /\ checked = {}
  /\ admitted = FALSE

\* The failure rate is over the threshold.
Failing(f, n) ==
  /\ n > 0
  /\ f * 100 > ThresholdPercent * n
  /\ f >= ThresholdFailed

\* Exponential backoff, capped.
PenaltyDuration(l) == Smaller(DecayTicks * 2 ^ l, MaxPenalty)

\* _escalate_penalty: level 0 goes to 1, higher ones up to block_after.
Escalate ==
  LET l == IF level = 0 THEN 1 ELSE IF level < BlockAfter THEN level + 1 ELSE level
  IN level' = l /\ left' = PenaltyDuration(l)

\* The window as check_limit finds or resets it.
WindowOver == age > WindowTicks
CountNow == IF WindowOver THEN 0 ELSE requestCount
FailedNow == IF WindowOver THEN 0 ELSE failedCount
Blocked == left > 0 /\ level >= BlockAfter

WindowReset ==
  /\ age' = IF WindowOver THEN 0 ELSE age
  /\ requestCount' = CountNow
  /\ failedCount' = FailedNow

-------------------------------------------------------------------------------
\* Slip: the limit is checked against the attempts already answered with success.
AllowForgetsFailures(r) ==
  /\ r \notin checked
  /\ ~Blocked
  /\ CountNow - FailedNow + 1 <= MaxRequests
  /\ WindowReset
  /\ checked' = checked \cup {r}
  /\ admitted' = TRUE
  /\ IF Failing(FailedNow, CountNow) THEN Escalate ELSE UNCHANGED <<level, left>>

\* check_limit lets r through.  A window whose failure rate is too high raises
\* the penalty on every check, failures or not.
Allow(r) ==
  /\ r \notin checked
  /\ ~Blocked
  /\ CountNow + 1 <= MaxRequests
  /\ WindowReset
  /\ checked' = checked \cup {r}
  /\ admitted' = TRUE
  /\ IF Failing(FailedNow, CountNow) THEN Escalate ELSE UNCHANGED <<level, left>>

\* Slip: a refused request prolongs the penalty.
DenyProlongs(r) ==
  /\ r \notin checked
  /\ Blocked \/ CountNow + 1 > MaxRequests
  /\ WindowReset
  /\ Escalate
  /\ UNCHANGED <<checked, admitted>>

\* check_limit refuses r.
Deny(r) ==
  /\ r \notin checked
  /\ Blocked \/ CountNow + 1 > MaxRequests
  /\ WindowReset
  /\ UNCHANGED <<level, left, checked, admitted>>

\* record_attempt(success=True): the level goes down by one.
RecordSuccess(r) ==
  /\ r \in checked
  /\ checked' = checked \ {r}
  /\ requestCount' = requestCount + 1
  /\ level' = IF level > 0 THEN level - 1 ELSE 0
  /\ left' = IF level = 1 THEN 0 ELSE left
  /\ UNCHANGED <<age, failedCount, admitted>>

\* record_attempt(success=False): it does not look at the age of the window.
RecordFailure(r) ==
  /\ r \in checked
  /\ checked' = checked \ {r}
  /\ requestCount' = requestCount + 1
  /\ failedCount' = failedCount + 1
  /\ IF Failing(failedCount + 1, requestCount + 1) THEN Escalate ELSE UNCHANGED <<level, left>>
  /\ UNCHANGED <<age, admitted>>

\* A later layer refuses the request, its handling raises, or its route is none of the
\* two whose outcome is recorded.
Unrecorded(r) ==
  /\ r \in checked
  /\ checked' = checked \ {r}
  /\ UNCHANGED <<age, requestCount, failedCount, level, left, admitted>>

\* reset deletes the state; the next check or record creates a new one.
Reset ==
  /\ age' = 0 /\ requestCount' = 0 /\ failedCount' = 0
  /\ level' = 0 /\ left' = 0
  /\ admitted' = FALSE
  /\ UNCHANGED checked

LimiterTick ==
  /\ age' = Smaller(age + 1, WindowTicks + 1)
  /\ left' = IF left > 0 THEN left - 1 ELSE 0
  /\ admitted' = FALSE
  /\ UNCHANGED <<requestCount, failedCount, level, checked>>

Check(r) == Allow(r) \/ Deny(r)
Answered(r) == RecordSuccess(r) \/ RecordFailure(r) \/ Unrecorded(r)

LimiterNext ==
  \/ \E r \in Attempts :
       Allow(r) \/ Deny(r) \/ RecordSuccess(r) \/ RecordFailure(r) \/ Unrecorded(r)
  \/ Reset
  \/ LimiterTick

LimiterSafety == LimiterInit /\ [][LimiterNext]_limiterVars

\* Time passes, admitted requests are answered, and somebody goes on trying.
LimiterFairness ==
  /\ WF_limiterVars(LimiterTick)
  /\ \A r \in Attempts : WF_limiterVars(Answered(r))
  /\ WF_limiterVars(\E r \in Attempts : Check(r))

LimiterSpec == LimiterSafety /\ LimiterFairness

\* Time passes; nothing else has to happen.
TimedSpec == LimiterSafety /\ WF_limiterVars(LimiterTick)

-------------------------------------------------------------------------------
(* Properties *)

\* Types, and a penalty never outlasts the configured maximum.
LimiterTypeOK ==
  /\ age \in 0 .. WindowTicks + 1
  /\ requestCount \in Nat /\ failedCount \in 0 .. requestCount
  /\ level \in 0 .. BlockAfter
  /\ left \in 0 .. MaxPenalty
  /\ checked \subseteq Attempts
  /\ admitted \in BOOLEAN

\* Checking and recording are two steps, so requests that pass the check together
\* overshoot the limit, but never by more than their number: between two resets
\* of the window at most MaxRequests - 1 + |Requests| are counted.
OvershootBounded ==
  requestCount + Cardinality(checked) <= MaxRequests - 1 + Cardinality(Attempts)

\* A penalty is running only at a level above 0: the success that clears the
\* level also clears penalty_until.
PenaltyMatchesLevel == left > 0 => level > 0

\* However often it was blocked, an identifier that goes on trying is let through
\* again: refused requests do not prolong its penalty.
AdmittedAgain == []<>admitted

\* penalty_decay_minutes: "Reduce penalty level after this time" (rate_limiter.py:48):
\* once no further attempt is recorded, time brings the penalty level back to 0.
OnlyTimeAndChecks == <>[][LimiterTick \/ \E r \in Attempts : Check(r)]_limiterVars
PenaltyDecays == OnlyTimeAndChecks => []<>(level = 0)
===============================================================================
