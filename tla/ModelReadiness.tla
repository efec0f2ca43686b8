----------------------------- MODULE ModelReadiness ---------------------------
(***************************************************************************)
(* main.py: each group of model artifacts is loaded by the first request   *)
(* that needs it, under a lock, in a worker thread; a failed load leaves   *)
(* the globals None, the request answers 503 and the next one tries again. *)
(* /readyz is 200 when every group is loaded and the telemetry store, where *)
(* it is another service, answers its probe within two seconds.  The groups *)
(* "login" and "behaviour" are loaded by coroutines under asyncio locks,   *)
(* "network" by pool threads under _LOAD_LOCK (in detail: NetworkModels).  *)
(***************************************************************************)
EXTENDS Integers, FiniteSets

CONSTANTS Requests,   \* identities of concurrent inference requests
          Eager,      \* CYBERGUARD_EAGER_MODEL_LOAD
          Gated       \* traffic is routed only to an instance that is ready

Nobody == "nobody"

ASSUME ReadinessAssumption ==
  Eager \in BOOLEAN /\ Gated \in BOOLEAN /\ Nobody \notin Requests

Groups == {"login", "behaviour", "network"}

VARIABLES
  intact,   \* per group: its artifacts verify, unpickle and fit into memory
  loaded,   \* per group: its globals are not None
  lock,     \* per group: the request that holds its lock
  req,      \* per request: the group it needs and where it is
  storeHealthy   \* the telemetry store answers its probe (the built-in one always does)

vars == <<intact, loaded, lock, req, storeHealthy>>

Answers == {"ok", "unavailable"}
Idle == [group |-> "login", pc |-> "idle"]

\* What /readyz answers 200 by.
Loaded == \A g \in Groups : loaded[g]
Ready == Loaded /\ storeHealthy
Waiting(g) == {r \in Requests : req[r] = [group |-> g, pc |-> "waiting"]}
Loading(g) == {r \in Requests : req[r] = [group |-> g, pc |-> "loading"]}

\* The lifespan's eager load: one try for the login group, then the behaviour
\* group, and one for the network group.
LoadedAtBoot(g) ==
  /\ Eager
  /\ intact[g]
  /\ g = "behaviour" => intact["login"]

Init ==
  /\ intact \in [Groups -> BOOLEAN]
  /\ loaded = [g \in Groups |-> LoadedAtBoot(g)]
  /\ lock = [g \in Groups |-> Nobody]
  /\ req = [r \in Requests |-> Idle]
  /\ storeHealthy \in BOOLEAN

At(r, g, pc) == req' = [req EXCEPT ![r] = [group |-> g, pc |-> pc]]

\* Slip: the group is not looked at once more.
LockedUnchecked(r, g) ==
  At(r, g, "loading") /\ lock' = [lock EXCEPT ![g] = r]

\* Past the lock, with the group looked at once more.
Locked(r, g) ==
  IF loaded[g]
  THEN At(r, g, "inference") /\ UNCHANGED lock
  ELSE At(r, g, "loading") /\ lock' = [lock EXCEPT ![g] = r]

-------------------------------------------------------------------------------
\* A request arrives: the models are there, or it takes the lock, or it waits.
\* An asyncio lock that is free is not taken past those waiting for it.
Arrive(r, g) ==
  /\ Gated => Ready
  /\ req[r].pc \in {"idle"} \cup Answers
  /\ \/ /\ loaded[g]
        /\ At(r, g, "inference") /\ UNCHANGED lock
     \/ /\ ~loaded[g]
        /\ lock[g] = Nobody
        /\ g # "network" => Waiting(g) = {}
        /\ Locked(r, g)
     \/ /\ ~loaded[g]
        /\ lock[g] # Nobody \/ (g # "network" /\ Waiting(g) # {})
        /\ At(r, g, "waiting") /\ UNCHANGED lock
  /\ UNCHANGED <<intact, loaded, storeHealthy>>

GetLock(r) ==
  /\ req[r].pc = "waiting"
  /\ lock[req[r].group] = Nobody
  /\ Locked(r, req[r].group)
  /\ UNCHANGED <<intact, loaded, storeHealthy>>

\* Slip: the exception leaves the lock taken.
LoadEndsKeepsLock(r) ==
  LET g == req[r].group
  IN /\ req[r].pc = "loading"
     /\ loaded' = [loaded EXCEPT ![g] = intact[g]]
     /\ lock' = IF intact[g] THEN [lock EXCEPT ![g] = Nobody] ELSE lock
     /\ At(r, g, IF intact[g] THEN "inference" ELSE "unavailable")
     /\ UNCHANGED <<intact, storeHealthy>>

\* The worker thread is done: both globals of the group are set, or none; the
\* lock is released and _require_models decides, in the same step.
LoadEnds(r) ==
  LET g == req[r].group
  IN /\ req[r].pc = "loading"
     /\ loaded' = [loaded EXCEPT ![g] = intact[g]]
     /\ lock' = [lock EXCEPT ![g] = Nobody]
     /\ At(r, g, IF intact[g] THEN "inference" ELSE "unavailable")
     /\ UNCHANGED <<intact, storeHealthy>>

Infer(r) ==
  /\ req[r].pc = "inference"
  /\ At(r, req[r].group, "ok")
  /\ UNCHANGED <<intact, loaded, lock, storeHealthy>>

\* The operator repairs an artifact.
Repair(g) ==
  /\ ~intact[g]
  /\ intact' = [intact EXCEPT ![g] = TRUE]
  /\ UNCHANGED <<loaded, lock, req, storeHealthy>>

\* The external telemetry store fails, or is reached again.
StoreChanges ==
  /\ storeHealthy' = ~storeHealthy
  /\ UNCHANGED <<intact, loaded, lock, req>>

Next ==
  \/ \E r \in Requests : \/ \E g \in Groups : Arrive(r, g)
                         \/ GetLock(r) \/ LoadEnds(r) \/ Infer(r)
  \/ \E g \in Groups : Repair(g)
  \/ StoreChanges

\* Loads and inference end (weak); both locks wake those waiting in turn, so no
\* waiter is passed over for ever (strong).
Fairness ==
  \A r \in Requests : /\ SF_vars(GetLock(r))
                      /\ WF_vars(LoadEnds(r))
                      /\ WF_vars(Infer(r))

Spec == Init /\ [][Next]_vars /\ Fairness

\* Clients also go on asking for every kind of inference, as far as they are let
\* in.
Asks(g) == \E r \in Requests : Arrive(r, g)
Traffic == \A g \in Groups : SF_vars(Asks(g))
TrafficSpec == Spec /\ Traffic

-------------------------------------------------------------------------------
(* Properties *)

\* Types, and a group's lock is held exactly while its holder loads the group.
TypeOK ==
  /\ intact \in [Groups -> BOOLEAN]
  /\ loaded \in [Groups -> BOOLEAN]
  /\ lock \in [Groups -> Requests \cup {Nobody}]
  /\ req \in [Requests -> [group : Groups,
                           pc : {"idle", "waiting", "loading", "inference"} \cup Answers]]
  /\ storeHealthy \in BOOLEAN
  /\ \A g \in Groups : Loading(g) = {lock[g]} \ {Nobody}

\* "Concurrent first-callers don't double-load" (main.py:463-464): one load of a
\* group at a time, and none once it is loaded.
LoadsOnce ==
  \A g \in Groups : /\ Cardinality(Loading(g)) <= 1
                    /\ loaded[g] => Loading(g) = {}

\* With clients that keep asking, an instance whose artifacts are (or become) fine
\* gets ready without a restart and stays so, once its telemetry store is back for good.
ReadyUnderTraffic ==
  (\A g \in Groups : <>intact[g]) /\ <>[]storeHealthy => <>[]Ready

\* "/readyz is the traffic gate -- 503 until every ML artifact has loaded"
\* (main.py:662-663): with every artifact fine and the store healthy from some time on,
\* the gate opens.
GateOpens == (\A g \in Groups : intact[g]) /\ <>[]storeHealthy => <>Ready
===============================================================================
