------------------------------- MODULE MCAccount ------------------------------
(***************************************************************************)
(* Instances for TLC of what stands between a login and its account: the   *)
(* rate limiter of layer 1, the lockout and the step-up of layer 4, side   *)
(* by side: they share no variable, so each part is explored with the      *)
(* others at rest.                                                         *)
(***************************************************************************)
EXTENDS Lockout, LimiterSpan, StepUp, TLC

CONSTANT Parts
VARIABLE part

\* The methods NEW_DEVICE asks for, and those of a trigger none of which is enrolled.
NewDevice == <<"EMAIL", "TOTP">>
NoMatch == <<"TOTP">>

\* LOCKOUT_DURATIONS grow.
Growing == <<1, 2, 4>>

MCInit == Init /\ SpanInit /\ StepUpInit /\ part \in Parts
MCNext ==
  \/ part = "lockout" /\ Next /\ UNCHANGED <<limiterVars, spanVars, stepUpVars, part>>
  \/ part = "limiter" /\ SpanNext /\ UNCHANGED <<vars, stepUpVars, part>>
  \/ part = "step_up" /\ StepUpNext /\ UNCHANGED <<vars, limiterVars, spanVars, part>>

MCSpec == /\ MCInit /\ [][MCNext]_<<vars, limiterVars, spanVars, stepUpVars, part>>
          /\ part = "lockout" => Fairness
          /\ part = "limiter" => LimiterFairness

-------------------------------------------------------------------------------
\* Types of the three parts.
TypesOK == TypeOK /\ LimiterTypeOK /\ StepUpTypeOK

\* SoftLockEnds, for the behaviours in which somebody logs in.
LockEnds == part = "lockout" => SoftLockEnds

\* AdmittedAgain, for the behaviours in which requests are checked.
LetThroughAgain == part = "limiter" => AdmittedAgain
===============================================================================
