------------------------------ MODULE LimiterSpan ------------------------------
(***************************************************************************)
(* The rate limiter of RateLimiter.tla, watched over a span of time: the   *)
(* window is fixed and not sliding, so what passes in a span of its length *)
(* is more than what one window counts.  The span starts at any instant    *)
(* and lasts for one length of the window; a reset by the administrator    *)
(* ends it.  The two variables are not in the code, and no action of the   *)
(* limiter depends on them.                                                *)
(***************************************************************************)
EXTENDS RateLimiter

VARIABLES
  elapsed,  \* ticks of the span so far, or NotMeasuring
  passed    \* attempts recorded in the span

spanVars == <<elapsed, passed>>

NotMeasuring == -1
Measuring == elapsed # NotMeasuring

SpanInit == LimiterInit /\ elapsed = NotMeasuring /\ passed = 0

Begin == elapsed' = 0 /\ passed' = 0 /\ UNCHANGED limiterVars

End == elapsed' = NotMeasuring /\ passed' = 0

CountAttempt ==
  /\ passed' = IF Measuring THEN passed + 1 ELSE 0
  /\ UNCHANGED elapsed

Elapse ==
  IF Measuring /\ elapsed < WindowTicks
  THEN elapsed' = elapsed + 1 /\ UNCHANGED passed
  ELSE End

SpanNext ==
  \/ \E r \in Attempts :
       \/ (Allow(r) \/ Deny(r) \/ Unrecorded(r)) /\ UNCHANGED spanVars
       \/ (RecordSuccess(r) \/ RecordFailure(r)) /\ CountAttempt
  \/ Reset /\ End
  \/ LimiterTick /\ Elapse
  \/ Begin

SpanSpec == SpanInit /\ [][SpanNext]_<<limiterVars, spanVars>>

-------------------------------------------------------------------------------
(* Properties *)

\* A burst on both sides of the window's end: in no span of window_seconds are more than
\* two windows' worth of attempts counted, those included that overlap at their checks.
BurstBounded == passed <= 2 * (MaxRequests - 1 + Cardinality(Attempts))

\* What the limiter promises, over every interleaving of checks and records: the count of
\* a window, the attempts of a span, and a penalty that runs only at a level above 0.
LimiterHolds == OvershootBounded /\ BurstBounded /\ PenaltyMatchesLevel
===============================================================================
