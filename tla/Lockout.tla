-------------------------------- MODULE Lockout -------------------------------
(***************************************************************************)
(* auth_defense/layer4_mfa: LockoutManager, the lockout of one account,    *)
(* used by concurrent login requests.  The middleware checks the lockout   *)
(* before the login is handled and records its outcome after, so other     *)
(* logins, an administrator and the response to an attack come in between. *)
(* Each method runs under one lock without awaiting and is one step.       *)
(***************************************************************************)
EXTENDS Integers, FiniteSets, Sequences

CONSTANTS
  Requests,    \* logins of the account that may be in flight at once
  Threshold,   \* failed attempts that lock the account (5 in the code)
  Durations    \* LOCKOUT_DURATIONS, in ticks of the clock

ASSUME LockoutAssumption ==
  /\ IsFiniteSet(Requests)
  /\ Threshold \in Nat \ {0}
  /\ Durations \in Seq(Nat \ {0}) /\ Durations # <<>>

VARIABLES
  state,     \* AccountLockout.state (HARD_LOCKED is never assigned)
  failed,    \* failed_attempts
  count,     \* lockout_count, up to the last index it selects
  timer,     \* ticks until unlock_at (0 once it has passed), or NoTimer
  pending    \* requests checked and admitted, their outcome not yet recorded

vars == <<state, failed, count, timer, pending>>

NoTimer == -1
LockoutState == {"ACTIVE", "SOFT_LOCKED", "QUARANTINED"}

Init ==
  /\ state = "ACTIVE"
  /\ failed = 0 /\ count = 0
  /\ timer = NoTimer
  /\ pending = {}

\* lockout_count counts on, but only selects among Durations.
NextCount == IF count < Len(Durations) - 1 THEN count + 1 ELSE count

\* _get_lockout_duration: the list's index is 0-based, the sequence's 1-based.
Duration(n) == Durations[n + 1]

\* A SOFT_LOCKED account whose unlock_at has come.
Expired == state = "SOFT_LOCKED" /\ timer = 0

Activate ==
  /\ state' = "ACTIVE"
  /\ failed' = 0
  /\ timer' = NoTimer

-------------------------------------------------------------------------------
\* Slip: unlock_at is looked at whatever the kind of lock.
AdmitAnyExpired(r) ==
  /\ r \notin pending
  /\ \/ state = "ACTIVE" /\ UNCHANGED <<state, failed, timer>>
     \/ state # "ACTIVE" /\ timer = 0 /\ Activate
  /\ pending' = pending \cup {r}
  /\ UNCHANGED count

\* Slip: the lock is not looked at.
AdmitLocked(r) ==
  /\ r \notin pending
  /\ failed < 3 * Threshold
  /\ pending' = pending \cup {r}
  /\ UNCHANGED <<state, failed, timer, count>>

\* check_lockout lets r through; a soft lock that is over ends here.
Admit(r) ==
  /\ r \notin pending
  /\ \/ state = "ACTIVE" /\ UNCHANGED <<state, failed, timer>>
     \/ Expired /\ Activate
  /\ pending' = pending \cup {r}
  /\ UNCHANGED count

\* Slip: a refused login starts the lock's time anew.
RefuseProlongs(r) ==
  /\ r \notin pending
  /\ state # "ACTIVE" /\ ~Expired
  /\ timer' = Duration(count)
  /\ UNCHANGED <<state, failed, count, pending>>

\* check_lockout refuses r: 403 account_locked.
Refuse(r) ==
  /\ r \notin pending
  /\ state # "ACTIVE" /\ ~Expired
  /\ UNCHANGED vars

\* record_failed_attempt: only an ACTIVE account gets locked.
Fail(r) ==
  /\ r \in pending
  /\ pending' = pending \ {r}
  /\ failed' = failed + 1
  /\ IF failed + 1 >= Threshold /\ state = "ACTIVE"
     THEN /\ state' = "SOFT_LOCKED"
          /\ count' = NextCount
          /\ timer' = Duration(NextCount)
     ELSE UNCHANGED <<state, count, timer>>

\* Slip: the success unlocks the state, but unlock_at stays.
SucceedKeepsTimer(r) ==
  /\ r \in pending
  /\ pending' = pending \ {r}
  /\ failed' = 0
  /\ state' = IF state = "SOFT_LOCKED" THEN "ACTIVE" ELSE state
  /\ UNCHANGED <<timer, count>>

\* record_success: also of a login admitted before the account was locked.
Succeed(r) ==
  /\ r \in pending
  /\ pending' = pending \ {r}
  /\ IF state = "SOFT_LOCKED"
     THEN Activate
     ELSE failed' = 0 /\ UNCHANGED <<state, timer>>
  /\ UNCHANGED count

\* The login's handling raises: nothing is recorded.
Drop(r) ==
  /\ r \in pending
  /\ pending' = pending \ {r}
  /\ UNCHANGED <<state, failed, count, timer>>

\* unlock_account, by an administrator.
Unlock ==
  /\ Activate
  /\ UNCHANGED <<count, pending>>

\* quarantine_account: an unlock_at set before stays.
Quarantine ==
  /\ state' = "QUARANTINED"
  /\ UNCHANGED <<failed, count, timer, pending>>

Tick ==
  /\ timer > 0
  /\ timer' = timer - 1
  /\ UNCHANGED <<state, failed, count, pending>>

Record(r) == Fail(r) \/ Succeed(r) \/ Drop(r)

Next ==
  \/ \E r \in Requests : Admit(r) \/ Refuse(r) \/ Fail(r) \/ Succeed(r) \/ Drop(r)
  \/ Unlock \/ Quarantine \/ Tick

Safety == Init /\ [][Next]_vars

\* Time passes, and somebody goes on trying to log in.
Fairness ==
  /\ WF_vars(Tick)
  /\ WF_vars(\E r \in Requests : Admit(r))
  /\ \A r \in Requests : WF_vars(Record(r))

Spec == Safety /\ Fairness

-------------------------------------------------------------------------------
(* Properties *)

\* Types; and the parts of an AccountLockout fit together: an active account is
\* below the threshold without an unlock_at, a soft lock has one.
TypeOK ==
  /\ state \in LockoutState
  /\ failed \in Nat
  /\ count \in 0 .. Len(Durations) - 1
  /\ timer \in {NoTimer} \cup Nat
  /\ pending \subseteq Requests
  /\ state = "ACTIVE" => failed < Threshold /\ timer = NoTimer
  /\ state = "SOFT_LOCKED" => timer # NoTimer

\* Logins checked before the lock are still tried after it, but no more than were
\* in flight: the failures counted against an account stay below the threshold plus
\* the number of concurrent logins.
FailuresBounded == failed + Cardinality(pending) <= Threshold - 1 + Cardinality(Requests)

\* A quarantine ends only by unlock_account, whatever an older unlock_at says; a
\* soft lock ends before its time only by unlock_account or by the success of a
\* login that was in flight when it began.
LockHolds ==
  [][ /\ state = "QUARANTINED" => state' = state \/ Unlock
      /\ state = "SOFT_LOCKED" /\ timer > 0 /\ state' = "ACTIVE" =>
           Unlock \/ \E r \in pending : Succeed(r) ]_vars

\* A soft lock is not for ever: refused logins do not prolong it.
SoftLockEnds == state = "SOFT_LOCKED" ~> state # "SOFT_LOCKED"
===============================================================================
