------------------------------ MODULE Containment ------------------------------
(***************************************************************************)
(* layer2_runtime/containment.py: the local controller and the engine that *)
(* runs policies on it.  Every order is carried out under one lock, which  *)
(* terminate_process holds while it gives the process half a second; so    *)
(* the others wait, and an engine's run is cut at each of its actions.     *)
(***************************************************************************)
EXTENDS Integers, Sequences, FiniteSets

CONSTANTS
  Runs,                 \* concurrent calls of evaluate_and_execute
  Terminations,         \* concurrent calls of terminate_process
  Targets,              \* sessions (containers are treated the same way)
  ContainmentPolicies,  \* the registered policies in their order: actions, cap
  Alerts,               \* what the engine is called with: the policies that match, the
                        \* target, whether a process is named
  Cooldown              \* cooldown_seconds, in ticks

Unlocked == "unlocked"

ASSUME ContainmentAssumption ==
  /\ IsFiniteSet(Runs) /\ Runs # {}
  /\ ContainmentPolicies \in Seq([actions : Seq(STRING), max : Nat])
  /\ \A alert \in Alerts : alert.target \in Targets /\ alert.pid \in BOOLEAN
  /\ Terminations \cap Runs = {} /\ Unlocked \notin Terminations \cup Runs
  /\ Cooldown \in Nat

\* Who may be waiting in terminate_process: its callers, and the runs whose policy asks
\* for it.
Killers == Terminations \cup Runs

VARIABLES
  store,     \* _session_store: active, isolated, or gone
  killer,    \* where each of them is
  lock,      \* the one that holds the lock in its sleep, or nobody
  orders,    \* its latest order of terminate_process
  run,       \* each run: its context, policy and next action
  past       \* _execution_history: per policy, the ages of its executions

containVars == <<store, killer, lock, orders, run, past>>

ContainInit ==
  /\ store = [t \in Targets |-> "gone"]
  /\ killer = [c \in Killers |-> "idle"]
  /\ lock = Unlocked
  /\ orders = [c \in Killers |-> "none"]
  /\ run = [r \in Runs |-> [stage |-> "over"]]
  /\ past = [i \in DOMAIN ContainmentPolicies |-> <<>>]

-------------------------------------------------------------------------------
(* LocalContainmentController *)

\* register_session: also one that was isolated begins anew.
RegisterSession(t) ==
  /\ store' = [store EXCEPT ![t] = "active"]
  /\ UNCHANGED <<killer, lock, orders, run, past>>

\* What isolate_session, terminate_session and quarantine_network do to the store;
\* an unknown session is answered like a known one.
Effect(action, t) ==
  CASE action = "session_isolate" /\ store[t] # "gone" -> [store EXCEPT ![t] = "isolated"]
    [] action = "session_terminate" -> [store EXCEPT ![t] = "gone"]
    [] OTHER -> store

\* terminate_process, for c: SIGTERM is sent and the lock kept for the pause, or there is
\* no such process, or it may not be signalled.  Which of these, the kernel says.
SendTerm(c) ==
  /\ lock = Unlocked
  /\ \/ /\ lock' = c
        /\ killer' = [killer EXCEPT ![c] = "sleeping"]
        /\ orders' = [orders EXCEPT ![c] = "in_progress"]
     \/ /\ killer' = [killer EXCEPT ![c] = "returned"]
        /\ orders' = [orders EXCEPT ![c] = "failed"]
        /\ UNCHANGED lock

CallTerminate(c) ==
  /\ SendTerm(c)
  /\ UNCHANGED <<store, run, past>>

\* After the pause SIGKILL: sent, or the process has ended; unless it may not be
\* signalled any more.
SendKill(c) ==
  /\ killer[c] = "sleeping"
  /\ lock' = Unlocked
  /\ killer' = [killer EXCEPT ![c] = "returned"]
  /\ \E status \in {"completed", "failed"} : orders' = [orders EXCEPT ![c] = status]
  /\ UNCHANGED <<store, run, past>>

\* Its caller is cancelled in the pause: the lock is released and the order stays.  A run
\* that is cancelled there or as it waits for the lock is over and not recorded.
Abandon(c) ==
  /\ killer[c] = "sleeping" \/ (c \in Runs /\ run[c].stage = "acting")
  /\ lock' = IF lock = c THEN Unlocked ELSE lock
  /\ killer' = [killer EXCEPT ![c] = IF @ = "sleeping" THEN "cancelled" ELSE @]
  /\ run' = IF c \in Runs THEN [run EXCEPT ![c] = [stage |-> "over"]] ELSE run
  /\ UNCHANGED <<store, orders, past>>

-------------------------------------------------------------------------------
(* AutoContainmentEngine *)

\* _check_cooldown: executions within the cooldown, against the cap per hour.
Recent(i) == {n \in DOMAIN past[i] : past[i][n] < Cooldown}

\* Slip: the cap itself is still allowed.
CooledDownLate(i) == Cardinality(Recent(i)) <= ContainmentPolicies[i].max

CooledDown(i) == Cardinality(Recent(i)) < ContainmentPolicies[i].max

\* The first policy from i on that matches and is not held back.
DuePolicy(context, i) ==
  LET due == {j \in i .. Len(ContainmentPolicies) : j \in context.matches /\ CooledDown(j)}
  IN IF due = {} THEN 0 ELSE CHOOSE j \in due : \A k \in due : j <= k

\* The run goes on with policy j, or is over.
GoingOn(context, j) ==
  IF j = 0 THEN [stage |-> "over"]
  ELSE [stage |-> "acting", context |-> context, policy |-> j, next |-> 1]

Evaluate(r, context) ==
  /\ run[r].stage = "over"
  /\ run' = [run EXCEPT ![r] = GoingOn(context, DuePolicy(context, 1))]
  /\ UNCHANGED <<store, killer, lock, orders, past>>

\* _execute_action, once the lock is free; a termination takes place only where the
\* context names a process.
Execute(r) ==
  /\ run[r].stage = "acting" /\ lock # r
  /\ run[r].next <= Len(ContainmentPolicies[run[r].policy].actions)
  /\ LET action == ContainmentPolicies[run[r].policy].actions[run[r].next]
         context == run[r].context
     IN \/ /\ action # "process_terminate" /\ lock = Unlocked
           /\ store' = Effect(action, context.target)
           /\ UNCHANGED <<killer, lock, orders>>
        \/ /\ action = "process_terminate" /\ context.pid
           /\ SendTerm(r)
           /\ UNCHANGED store
        \/ /\ action = "process_terminate" /\ ~context.pid
           /\ UNCHANGED <<store, killer, lock, orders>>
  /\ run' = [run EXCEPT ![r].next = @ + 1]
  /\ UNCHANGED past

\* After the last action the execution is recorded and the next policy looked for; a
\* policy that was due before another run recorded its own is not asked again.
RecordRun(r) ==
  /\ run[r].stage = "acting" /\ lock # r
  /\ run[r].next > Len(ContainmentPolicies[run[r].policy].actions)
  /\ past' = [past EXCEPT ![run[r].policy] = Append(@, 0)]
  /\ run' = [run EXCEPT ![r] = GoingOn(@.context, DuePolicy(@.context, @.policy + 1))]
  /\ UNCHANGED <<store, killer, lock, orders>>

\* Time passes; executions older than the cooldown, which nothing reads, are dropped.
\* They are in the order they were recorded in, the oldest first.
Aged(ages) ==
  LET over == Cardinality({n \in DOMAIN ages : ages[n] + 1 >= Cooldown})
  IN [n \in 1 .. Len(ages) - over |-> ages[n + over] + 1]

ContainTick ==
  /\ past' = [i \in DOMAIN past |-> Aged(past[i])]
  /\ UNCHANGED <<store, killer, lock, orders, run>>

ContainNext ==
  \/ \E t \in Targets : RegisterSession(t)
  \/ \E c \in Terminations : CallTerminate(c)
  \/ \E c \in Killers : SendKill(c) \/ Abandon(c)
  \/ \E r \in Runs : Execute(r) \/ RecordRun(r) \/ \E context \in Alerts : Evaluate(r, context)
  \/ ContainTick

ContainSpec == ContainInit /\ [][ContainNext]_containVars

-------------------------------------------------------------------------------
(* Properties *)

\* Types of the controller's and the engine's state.
ContainTypeOK ==
  /\ store \in [Targets -> {"active", "isolated", "gone"}]
  /\ lock \in Killers \cup {Unlocked}
  /\ killer \in [Killers -> {"idle", "sleeping", "returned", "cancelled"}]
  /\ orders \in [Killers -> {"none", "in_progress", "completed", "failed"}]
  /\ \A r \in Runs : run[r].stage \in {"acting", "over"}
  /\ \A i \in DOMAIN ContainmentPolicies : past[i] \in Seq(0 .. Cooldown - 1)

\* However runs overlap at their actions and in the pauses of their terminations, a policy
\* runs at most as often within its cooldown as its cap allows and once more for each other
\* run under way; and an order stays in progress only while its caller holds the lock, or
\* when it was abandoned, whatever the kernel answered.
ContainmentBounded ==
  /\ \A i \in DOMAIN ContainmentPolicies :
       Cardinality(Recent(i)) < ContainmentPolicies[i].max + Cardinality(Runs)
  /\ \A c \in Killers : orders[c] = "in_progress" => lock = c \/ killer[c] = "cancelled"
===============================================================================
