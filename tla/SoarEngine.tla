------------------------------- MODULE SoarEngine -----------------------------
(***************************************************************************)
(* auth_defense/layer5_telemetry: SOAREngine, the playbooks run on the     *)
(* stream of authentication events.  process_event takes no lock, and a    *)
(* playbook's action handlers are awaited, so events are processed         *)
(* concurrently and interleave at every action.  Severity, risk score and  *)
(* threat categories are part of an event's type.                          *)
(***************************************************************************)
EXTENDS Integers, FiniteSets, Sequences, FiniteSetsExt

CONSTANTS
  Tasks,       \* requests whose events may be processed at the same time
  Rules,       \* _rules: a sequence of [by, types, min, actions]
  Events,      \* the events that occur: records [type, ip_address, user_id, asn]
  Works,       \* per action: its handler can be called and awaited
  Cap,         \* max_executions_per_hour
  MaxRecent    \* bound on the events kept per rule and group

ASSUME SoarAssumption ==
  /\ IsFiniteSet(Tasks)
  /\ Rules \in Seq([by : {"ip_address", "user_id", "asn"}, types : SUBSET STRING,
                    min : Nat, actions : Seq(DOMAIN Works)])
  /\ \A action \in DOMAIN Works : Works[action] \in BOOLEAN
  /\ Cap \in Nat \ {0}

VARIABLES
  recent,    \* _event_buffer: per rule and group key, the events in the rule's window
  history,   \* _execution_history: per rule, its executions in the cooldown
  playing,   \* per task: its event, the rule whose playbook runs, the actions left
  done,      \* the executions: rule, group key, success
  owed       \* the rules whose own group was at its threshold when a matching event
             \* came (not in the code: what its rules ask for)

soarVars == <<recent, history, playing, done, owed>>

RuleIds == DOMAIN Rules
Keys == UNION {{e.ip_address, e.user_id, e.asn} : e \in Events}
Free == [event |-> CHOOSE e \in Events : TRUE, at |-> 0, left |-> <<>>, ok |-> TRUE]
Quiet == \A t \in Tasks : playing[t] = Free

Matches(e, i) == e.type \in Rules[i].types

\* group_key as the first loop of process_event leaves it at rule i: a rule grouped
\* by ip_address does not set it.
GroupKey(e, i) ==
  LET setters == {j \in 1 .. i : Rules[j].by # "ip_address"}
  IN IF setters = {} THEN e.ip_address ELSE e[Rules[Max(setters)].by]

\* The second loop goes on with the key of the last rule.
LastKey(e) == GroupKey(e, Len(Rules))

\* _check_cooldown.
Cool(i) == history[i] < Cap

\* Slip: the cooldown is not looked at.
DueHot(e, from, events) ==
  {i \in from .. Len(Rules) : Matches(e, i) /\ events[i][LastKey(e)] >= Rules[i].min}

\* The rules from `from` on whose playbook e sets off.
Due(e, from, events) ==
  {i \in from .. Len(Rules) : /\ Matches(e, i)
                              /\ Cool(i)
                              /\ events[i][LastKey(e)] >= Rules[i].min}

\* Goes on with the first playbook that is due, or ends.
GoOn(t, e, due) ==
  playing' = [playing EXCEPT ![t] =
                IF due = {} THEN Free
                ELSE [event |-> e, at |-> Min(due), left |-> Rules[Min(due)].actions,
                      ok |-> TRUE]]

SoarInit ==
  /\ recent = [i \in RuleIds |-> [k \in Keys |-> 0]]
  /\ history = [i \in RuleIds |-> 0]
  /\ playing = [t \in Tasks |-> Free]
  /\ done = {} /\ owed = {}

-------------------------------------------------------------------------------
\* process_event, up to the first playbook that is due.
Process(t, e) ==
  LET fed == [i \in RuleIds |-> [recent[i] EXCEPT ![GroupKey(e, i)] = @ + 1]]
  IN /\ playing[t] = Free
     /\ \A i \in RuleIds : recent[i][GroupKey(e, i)] < MaxRecent
     /\ recent' = fed
     /\ GoOn(t, e, Due(e, 1, fed))
     /\ owed' = owed \cup {i \in RuleIds : /\ Matches(e, i) /\ Cool(i)
                                           /\ fed[i][e[Rules[i].by]] >= Rules[i].min}
     /\ UNCHANGED <<history, done>>

\* Slip: a handler that raises ends the execution.
ActStops(t) ==
  /\ playing[t].left # <<>>
  /\ playing' = IF Works[Head(playing[t].left)]
                THEN [playing EXCEPT ![t].left = Tail(@)]
                ELSE [playing EXCEPT ![t] = Free]
  /\ UNCHANGED <<recent, history, done, owed>>

\* The handler of the next action returns, or raises: that is noted, and the
\* actions go on.
Act(t) ==
  /\ playing[t].left # <<>>
  /\ playing' = [playing EXCEPT ![t].left = Tail(@),
                                ![t].ok = @ /\ Works[Head(playing[t].left)]]
  /\ UNCHANGED <<recent, history, done, owed>>

\* The last action is over: the execution is recorded, counted, and the next
\* playbook that is due follows.
Finish(t) ==
  LET i == playing[t].at
      e == playing[t].event
  IN /\ i # 0 /\ playing[t].left = <<>>
     /\ done' = done \cup {[rule |-> i, key |-> LastKey(e), ok |-> playing[t].ok]}
     /\ history' = [history EXCEPT ![i] = @ + 1]
     /\ GoOn(t, e, Due(e, i + 1, recent))
     /\ UNCHANGED <<recent, owed>>

\* Minutes pass (handlers take seconds): events leave a rule's window, executions
\* its cooldown.
Age(i, k) ==
  /\ Quiet
  /\ recent[i][k] > 0
  /\ recent' = [recent EXCEPT ![i][k] = @ - 1]
  /\ UNCHANGED <<history, playing, done, owed>>

CoolDown(i) ==
  /\ Quiet
  /\ history[i] > 0
  /\ history' = [history EXCEPT ![i] = @ - 1]
  /\ UNCHANGED <<recent, playing, done, owed>>

SoarNext ==
  \/ \E t \in Tasks : \/ \E e \in Events : Process(t, e)
                      \/ Act(t) \/ Finish(t)
  \/ \E i \in RuleIds : (\E k \in Keys : Age(i, k)) \/ CoolDown(i)

\* Handlers return or raise.
SoarFairness == \A t \in Tasks : WF_soarVars(Act(t) \/ Finish(t))

SoarSpec == SoarInit /\ [][SoarNext]_soarVars /\ SoarFairness

-------------------------------------------------------------------------------
(* Properties *)

\* Types of the engine's state: a free task is at no rule.
SoarTypeOK ==
  /\ recent \in [RuleIds -> [Keys -> 0 .. MaxRecent]]
  /\ history \in [RuleIds -> Nat]
  /\ \A t \in Tasks : /\ playing[t].at \in {0} \cup RuleIds
                      /\ playing[t].at = 0 <=> playing[t] = Free
  /\ \A d \in done : d.rule \in RuleIds /\ d.key \in Keys
  /\ owed \subseteq RuleIds

\* _check_cooldown and the entry into the history are separated by the awaited
\* handlers, so events processed together overshoot the cap of a rule, but by less
\* than their number.
CapOvershootBounded == \A i \in RuleIds : history[i] <= Cap - 1 + Cardinality(Tasks)

\* Rules whose own group is the one the second loop looks at, such as those grouped like
\* the last rule of the list by user or network, do what they ask for: once their group is
\* at its threshold and nothing is being processed, their playbook has run.
OwnKeyed == {i \in RuleIds : \A e \in Events : LastKey(e) = e[Rules[i].by]}
LastGroupRuns == Quiet => \A i \in owed \cap OwnKeyed : \E d \in done : d.rule = i

\* An execution is reported as a success, and raises an alert, only if every action
\* of its playbook could be called.
HonestSuccess ==
  \A d \in done : d.ok =>
    \A n \in DOMAIN Rules[d.rule].actions : Works[Rules[d.rule].actions[n]]

\* No playbook is lost or told wrong: rules whose group is the one looked at run when it is
\* at its threshold, and an execution told as a success had no action that failed.
PlaybooksRun == LastGroupRuns /\ HonestSuccess

\* Every event's processing ends.
ProcessingEnds == \A t \in Tasks : playing[t] # Free ~> playing[t] = Free

\* "Block IP showing brute force patterns" (telemetry.py:508) and its like: the
\* playbook of any rule runs once its group is at the threshold.
EveryRuleRuns == Quiet => \A i \in owed : \E d \in done : d.rule = i
===============================================================================
