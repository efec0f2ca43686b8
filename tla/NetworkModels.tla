----------------------------- MODULE NetworkModels ----------------------------
(***************************************************************************)
(* services/network_detector.py: threads of the inference pool classify    *)
(* flows with models held in module globals.  The first one loads them     *)
(* under a lock and publishes one global after the other; readers take no  *)
(* lock.  An artifact is abstracted to the number of the load that made    *)
(* it, 0 standing for None (and for _LOADED = False).                      *)
(***************************************************************************)
EXTENDS Integers, Sequences, FiniteSets

CONSTANTS Threads,      \* threads that call into the module
          MaxForced,    \* bound on load_network_models(force=True) calls
          MaxFailures   \* bound on loads that fail

NoThread == "nobody"

ASSUME NetworkAssumption ==
  NoThread \notin Threads /\ MaxForced \in Nat /\ MaxFailures \in Nat

VARIABLES
  globals,    \* the module's globals
  owner,      \* who holds _LOAD_LOCK
  thread,     \* per thread: where it is, how many globals it has gone through
              \* there, and the loads whose artifacts it has used
  loads,      \* number of the last load whose checks passed
  forced, failures

networkVars == <<globals, owner, thread, loads, forced, failures>>

\* The publish block and the except branch assign in this order.
PublishOrder == <<"network_model", "bot_specialist", "network_imputer", "label_encoder",
                  "NETWORK_FEATURES", "CLASS_NAMES", "_LOADED">>
\* What detect_network_attack reads after _ensure_loaded.
UseOrder == <<"NETWORK_FEATURES", "network_model", "bot_specialist", "CLASS_NAMES",
              "label_encoder">>

Globals == {PublishOrder[k] : k \in DOMAIN PublishOrder}
Used == {UseOrder[k] : k \in DOMAIN UseOrder}

Pc == {"idle", "lock", "locked", "publish", "reset", "check", "use", "done", "unavailable"}
AtStep(pc) == [pc |-> pc, step |-> 0, seen |-> {}]
Go(t, pc) == thread' = [thread EXCEPT ![t] = AtStep(pc)]

NetworkInit ==
  /\ globals = [g \in Globals |-> 0]
  /\ owner = NoThread
  /\ thread = [t \in Threads |-> AtStep("idle")]
  /\ loads = 0 /\ forced = 0 /\ failures = 0

-------------------------------------------------------------------------------
\* _ensure_loaded: the fast path of both functions reads _LOADED without the lock.
Detect(t) ==
  /\ thread[t].pc \in {"idle", "done", "unavailable"}
  /\ Go(t, IF globals["_LOADED"] # 0 THEN "check" ELSE "lock")
  /\ UNCHANGED <<globals, owner, loads, forced, failures>>

\* load_network_models(force=True) by a thread that classifies afterwards; like
\* every caller it waits for the lock.
Reload(t) ==
  /\ thread[t].pc \in {"idle", "done", "unavailable"}
  /\ owner = NoThread
  /\ forced < MaxForced
  /\ forced' = forced + 1
  /\ owner' = t
  /\ Go(t, "locked")
  /\ UNCHANGED <<globals, loads, failures>>

\* Slip: no second look at _LOADED under the lock.
AcquireUnchecked(t) ==
  /\ thread[t].pc = "lock"
  /\ owner = NoThread
  /\ owner' = t /\ Go(t, "locked")
  /\ UNCHANGED <<globals, loads, forced, failures>>

\* The lock is free: whoever finished the load meanwhile has done it for t too.
Acquire(t) ==
  /\ thread[t].pc = "lock"
  /\ owner = NoThread
  /\ IF globals["_LOADED"] # 0
     THEN UNCHANGED owner /\ Go(t, "check")
     ELSE owner' = t /\ Go(t, "locked")
  /\ UNCHANGED <<globals, loads, forced, failures>>

\* Every artifact is verified, loaded into locals and checked, or something raises.
Load(t) ==
  /\ thread[t].pc = "locked"
  /\ \/ loads' = loads + 1 /\ Go(t, "publish") /\ UNCHANGED failures
     \/ /\ failures < MaxFailures
        /\ failures' = failures + 1
        /\ Go(t, "reset") /\ UNCHANGED loads
  /\ UNCHANGED <<globals, owner, forced>>

\* One assignment of the publish block or of the except branch; after the last
\* one the lock is released.
Assign(t, pc, order, value, after) ==
  LET k == thread[t].step + 1
  IN /\ thread[t].pc = pc
     /\ globals' = [globals EXCEPT ![order[k]] = value]
     /\ IF k < Len(order)
        THEN thread' = [thread EXCEPT ![t].step = k] /\ UNCHANGED owner
        ELSE Go(t, after) /\ owner' = NoThread
     /\ UNCHANGED <<loads, forced, failures>>

Publish(t) == Assign(t, "publish", PublishOrder, loads, "check")
Reset(t)   == Assign(t, "reset", PublishOrder, 0, "unavailable")

\* The rest of _ensure_loaded; its reads are taken as one step.
Check(t) ==
  /\ thread[t].pc = "check"
  /\ Go(t, IF \A g \in Used \cup {"_LOADED"} : globals[g] # 0 THEN "use" ELSE "unavailable")
  /\ UNCHANGED <<globals, owner, loads, forced, failures>>

\* detect_network_attack reads its next global.
Use(t) ==
  LET k == thread[t].step + 1
  IN /\ thread[t].pc = "use"
     /\ thread' = [thread EXCEPT ![t] =
          [pc |-> IF k < Len(UseOrder) THEN "use" ELSE "done",
           step |-> k,
           seen |-> @.seen \cup {globals[UseOrder[k]]}]]
     /\ UNCHANGED <<globals, owner, loads, forced, failures>>

NetworkNext ==
  \E t \in Threads :
    \/ Detect(t) \/ Reload(t) \/ Acquire(t) \/ Load(t)
    \/ Publish(t) \/ Reset(t) \/ Check(t) \/ Use(t)

NetworkSpec == NetworkInit /\ [][NetworkNext]_networkVars

-------------------------------------------------------------------------------
(* Properties *)

\* Types, and the lock is held exactly by the thread inside the locked section.
NetworkTypeOK ==
  /\ globals \in [Globals -> 0 .. loads]
  /\ owner \in Threads \cup {NoThread}
  /\ \A t \in Threads :
       /\ thread[t].pc \in Pc
       /\ owner = t <=> thread[t].pc \in {"locked", "publish", "reset"}

\* "A reader can never observe a half-initialised state" (network_detector.py:135):
\* without a forced reload, what a classification uses is there, and comes from one load.
WholeSets ==
  forced = 0 =>
    \A t \in Threads : 0 \notin thread[t].seen /\ Cardinality(thread[t].seen) <= 1

\* Racing first callers load once (M-12): apart from forced reloads there is one
\* load that succeeds.
LoadedOnce == loads <= 1 + forced

\* Both, under racing first callers, failing loads and forced reloads.
NeverHalfInitialised == WholeSets /\ LoadedOnce
===============================================================================
