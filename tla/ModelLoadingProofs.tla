--------------------------- MODULE ModelLoadingProofs --------------------------
(***************************************************************************)
(* The loading of model artifacts, for every number of requests and        *)
(* threads: one load of a group at a time, and none once it is loaded; no  *)
(* classification sees half of a set of network models, and every load but *)
(* the first was forced.  The reports of an investigation, for every       *)
(* number of retries and changes of the store, with what they say of every *)
(* telemetry record; and the three side by side.                           *)
(***************************************************************************)
EXTENDS MCRequests, InferenceRoutes, FiniteSetTheorems, TLAPS

T == INSTANCE TelemetryProjection

(* Groups of artifacts *)

Places == [group : Groups, pc : {"idle", "waiting", "loading", "inference"} \cup Answers]

\* The inductive invariant: a group's lock is held exactly by the request that loads
\* the group, and nobody holds it once the group is loaded.
LoadInv ==
  /\ intact \in [Groups -> BOOLEAN]
  /\ loaded \in [Groups -> BOOLEAN]
  /\ lock \in [Groups -> Requests \cup {Nobody}]
  /\ req \in [Requests -> Places]
  /\ storeHealthy \in BOOLEAN
  /\ \A r \in Requests : req[r].pc = "loading" => lock[req[r].group] = r
  /\ \A g \in Groups :
       lock[g] # Nobody => req[lock[g]].pc = "loading" /\ req[lock[g]].group = g
  /\ \A g \in Groups : loaded[g] => lock[g] = Nobody

\* Where a request goes.
LEMMA AtMoves ==
  ASSUME req \in [Requests -> Places], NEW r \in Requests, NEW g \in Groups,
         NEW pc \in {"idle", "waiting", "loading", "inference"} \cup Answers, At(r, g, pc)
  PROVE  /\ req' \in [Requests -> Places]
         /\ req'[r].group = g /\ req'[r].pc = pc
         /\ \A q \in Requests : q # r => req'[q] = req[q]
<1>1. [group |-> g, pc |-> pc] \in Places
  BY DEF Places
<1> QED
  BY <1>1 DEF At

\* Past the free lock a request either finds the group loaded or loads it.
LEMMA LockedKeeps ==
  ASSUME LoadInv, NEW r \in Requests, NEW g \in Groups, lock[g] = Nobody,
         req[r].pc # "loading", Locked(r, g), UNCHANGED <<intact, loaded, storeHealthy>>
  PROVE  LoadInv'
<1>1. Nobody \notin Requests
  BY ReadinessAssumption
<1>2. CASE loaded[g]
  <2>1. At(r, g, "inference") /\ lock' = lock
    BY <1>2 DEF Locked
  <2>2. /\ req' \in [Requests -> Places] /\ req'[r].pc = "inference"
        /\ \A q \in Requests : q # r => req'[q] = req[q]
    BY <2>1, AtMoves DEF LoadInv
  <2> QED
    BY <2>1, <2>2 DEF LoadInv
<1>3. CASE ~loaded[g]
  <2>1. At(r, g, "loading") /\ lock' = [lock EXCEPT ![g] = r]
    BY <1>3 DEF Locked
  <2>2. /\ req' \in [Requests -> Places] /\ req'[r].group = g
        /\ \A q \in Requests : q # r => req'[q] = req[q]
    BY <2>1, AtMoves DEF LoadInv
  <2>3. \A q \in Requests : q # r /\ req[q].pc = "loading" => req[q].group # g
    BY <1>1 DEF LoadInv
  <2>4. \A q \in Requests : req[q].group \in Groups
    BY DEF LoadInv, Places
  <2>5. /\ lock' \in [Groups -> Requests \cup {Nobody}] /\ lock'[g] = r
        /\ \A h \in Groups : h # g => lock'[h] = lock[h]
    BY <2>1 DEF LoadInv
  <2>6. req'[r].pc = "loading"
    BY <2>1, AtMoves DEF LoadInv
  <2>7. \A h \in Groups : lock'[h] # Nobody => req'[lock'[h]].pc = "loading"
                                              /\ req'[lock'[h]].group = h
    <3>1. \A h \in Groups : lock[h] # r
      BY <1>1 DEF LoadInv
    <3>2. \A h \in Groups : lock[h] # Nobody => lock[h] \in Requests
                               /\ req[lock[h]].pc = "loading" /\ req[lock[h]].group = h
      BY DEF LoadInv
    <3> QED
      BY <2>2, <2>5, <2>6, <3>1, <3>2
  <2>8. \A q \in Requests : req'[q].pc = "loading" => lock'[req'[q].group] = q
    BY <2>2, <2>3, <2>4, <2>5 DEF LoadInv
  <2>9. \A h \in Groups : loaded'[h] => lock'[h] = Nobody
    BY <1>3, <2>5 DEF LoadInv
  <2> QED
    BY <2>2, <2>5, <2>7, <2>8, <2>9 DEF LoadInv
<1> QED
  BY <1>2, <1>3

\* Every step keeps the invariant.
LEMMA LoadStep == LoadInv /\ [Next]_vars => LoadInv'
<1> SUFFICES ASSUME LoadInv, [Next]_vars  PROVE LoadInv'
  OBVIOUS
<1>1. \A r \in Requests : req[r].group \in Groups
  BY DEF LoadInv, Places
<1>2. ASSUME NEW r \in Requests, NEW g \in Groups, Arrive(r, g)  PROVE LoadInv'
  <2>1. req[r].pc # "loading" /\ UNCHANGED <<intact, loaded, storeHealthy>>
    BY <1>2 DEF Arrive, Answers
  <2>2. CASE lock[g] = Nobody /\ Locked(r, g)
    BY <2>1, <2>2, LockedKeeps
  <2>3. CASE \E pc \in {"inference", "waiting"} : At(r, g, pc) /\ UNCHANGED lock
    <3>1. PICK pc \in {"inference", "waiting"} : At(r, g, pc) /\ UNCHANGED lock
      BY <2>3
    <3>2. /\ req' \in [Requests -> Places] /\ req'[r].pc = pc
          /\ \A q \in Requests : q # r => req'[q] = req[q]
      BY <3>1, AtMoves DEF LoadInv
    <3> QED
      BY <2>1, <3>1, <3>2 DEF LoadInv
  <2> QED
    BY <1>2, <2>2, <2>3 DEF Arrive
<1>3. ASSUME NEW r \in Requests, GetLock(r)  PROVE LoadInv'
  BY <1>1, <1>3, LockedKeeps DEF GetLock
<1>4. ASSUME NEW r \in Requests, LoadEnds(r)  PROVE LoadInv'
  <2> DEFINE g == req[r].group
             pc == IF intact[g] THEN "inference" ELSE "unavailable"
  <2>1. /\ g \in Groups /\ lock[g] = r /\ pc \in {"inference", "unavailable"}
        /\ At(r, g, pc) /\ UNCHANGED <<intact, storeHealthy>>
        /\ loaded' = [loaded EXCEPT ![g] = intact[g]]
        /\ lock' = [lock EXCEPT ![g] = Nobody]
    BY <1>1, <1>4 DEF LoadEnds, LoadInv
  <2> HIDE DEF g, pc
  <2>2. /\ req' \in [Requests -> Places] /\ req'[r].pc = pc
        /\ \A q \in Requests : q # r => req'[q] = req[q]
    BY <2>1, AtMoves DEF LoadInv, Answers
  <2>3. \A q \in Requests : q # r /\ req[q].pc = "loading" => req[q].group # g
    BY <2>1 DEF LoadInv
  <2> QED
    BY <1>1, <2>1, <2>2, <2>3 DEF LoadInv
<1>5. ASSUME NEW r \in Requests, Infer(r)  PROVE LoadInv'
  <2>1. /\ req' \in [Requests -> Places] /\ req'[r].pc = "ok"
        /\ \A q \in Requests : q # r => req'[q] = req[q]
    BY <1>1, <1>5, AtMoves DEF LoadInv, Infer, Answers
  <2> QED
    BY <1>5, <2>1 DEF LoadInv, Infer
<1>6. ASSUME NEW g \in Groups, Repair(g)  PROVE LoadInv'
  BY <1>6 DEF Repair, LoadInv
<1>7. CASE StoreChanges
  BY <1>7 DEF StoreChanges, LoadInv
<1>8. CASE UNCHANGED vars
  BY <1>8 DEF vars, LoadInv
<1> QED
  BY <1>2, <1>3, <1>4, <1>5, <1>6, <1>7, <1>8 DEF Next

\* "Concurrent first-callers don't double-load", and a loaded group is not loaded again,
\* for every number of requests and whatever artifacts are broken (_ensure_*_models).
THEOREM GroupsLoadOnce == Spec => []LoadsOnce
<1>1. Init => LoadInv
  BY DEF Init, LoadInv, LoadedAtBoot, Places, Idle, Groups, Answers
<1>2. LoadInv => LoadsOnce
  <2> SUFFICES ASSUME LoadInv, NEW g \in Groups
               PROVE  Cardinality(Loading(g)) <= 1 /\ (loaded[g] => Loading(g) = {})
    BY DEF LoadsOnce
  <2>1. Loading(g) \subseteq {lock[g]} \cap Requests
    BY DEF Loading, LoadInv
  <2>2. Loading(g) = {} \/ Loading(g) = {lock[g]}
    BY <2>1
  <2>3. Cardinality(Loading(g)) <= 1
    <3>1. Cardinality({}) = 0 /\ Cardinality({lock[g]}) = 1
      BY FS_EmptySet, FS_Singleton
    <3> QED
      BY <2>2, <3>1
  <2>4. loaded[g] => Loading(g) = {}
    BY <2>1, ReadinessAssumption DEF LoadInv
  <2> QED
    BY <2>3, <2>4
<1> QED
  BY <1>1, <1>2, LoadStep, PTL DEF Spec

\* The lock of a group is held exactly by the request that loads the group
\* (_ensure_login_models, _ensure_behaviour_models, _LOAD_LOCK).
THEOREM LocksHeldByLoaders == Init /\ [][Next]_vars => []TypeOK
<1>1. Init => LoadInv
  BY DEF Init, LoadInv, LoadedAtBoot, Places, Idle, Groups, Answers
<1>2. LoadInv => TypeOK
  <2> SUFFICES ASSUME LoadInv, NEW g \in Groups  PROVE Loading(g) = {lock[g]} \ {Nobody}
    BY DEF TypeOK, LoadInv, Places
  <2>1. \A r \in Requests : req[r] = [group |-> req[r].group, pc |-> req[r].pc]
    BY DEF LoadInv, Places
  <2>2. Loading(g) \subseteq {lock[g]} \ {Nobody}
    BY ReadinessAssumption DEF Loading, LoadInv
  <2>3. lock[g] # Nobody => lock[g] \in Loading(g)
    BY <2>1 DEF Loading, LoadInv
  <2> QED
    BY <2>2, <2>3
<1> QED
  BY <1>1, <1>2, LoadStep, PTL

-------------------------------------------------------------------------------
\* Where the traffic waits for /readyz and models are loaded on demand, nobody ever loads
\* one: no request is let in while a group is missing, and groups are loaded by requests.
Shut ==
  /\ loaded = [g \in Groups |-> FALSE]
  /\ req = [r \in Requests |-> Idle]

\* The gate that stays shut (main.py:662): with lazy loading and traffic routed by readiness
\* no instance gets ready, however many clients there are and whatever artifacts are fine.
THEOREM GateStaysShut ==
  ASSUME ~Eager, Gated
  PROVE  Spec => [](~Ready)
<1>1. Init => Shut
  BY DEF Init, Shut, LoadedAtBoot
<1>2. Shut => ~Ready
  BY DEF Shut, Ready, Loaded, Groups
<1>3. Shut /\ [Next]_vars => Shut'
  <2> SUFFICES ASSUME Shut, [Next]_vars
               PROVE  Shut'
    OBVIOUS
  <2>1. ASSUME NEW r \in Requests, NEW g \in Groups, Arrive(r, g)
        PROVE  FALSE
    BY <1>2, <2>1 DEF Arrive
  <2>2. ASSUME NEW r \in Requests, GetLock(r) \/ LoadEnds(r) \/ Infer(r)
        PROVE  FALSE
    BY <2>2 DEF Shut, Idle, GetLock, LoadEnds, Infer
  <2>3. ASSUME NEW g \in Groups, Repair(g)
        PROVE  Shut'
    BY <2>3 DEF Repair, Shut
  <2>4. CASE StoreChanges
    BY <2>4 DEF StoreChanges, Shut
  <2>5. CASE UNCHANGED vars
    BY <2>5 DEF vars, Shut
  <2> QED
    BY <2>1, <2>2, <2>3, <2>4, <2>5 DEF Next
<1> QED
  BY <1>1, <1>2, <1>3, PTL DEF Spec

\* ... and what opens it (main.py:273): with the eager load every instance whose artifacts are
\* fine answers /readyz with 200 exactly while its telemetry store is healthy, from its start on
\* and gated or not: what was loaded stays loaded.
ReadyWithStore == (\A g \in Groups : intact[g]) => [](Ready <=> storeHealthy)

THEOREM EagerLoadOpens ==
  ASSUME Eager
  PROVE  Spec => ReadyWithStore /\ GateOpens
<1> DEFINE Intact == \A g \in Groups : intact[g]
           Inv == LoadInv /\ Intact /\ Loaded
<1>1. Init /\ Intact => Inv
  BY DEF Init, LoadInv, LoadedAtBoot, Places, Idle, Groups, Answers, Loaded
<1>2. Inv /\ [Next]_vars => Inv'
  <2> SUFFICES ASSUME Inv, [Next]_vars  PROVE Intact' /\ Loaded'
    BY LoadStep
  <2>1. \A g \in Groups : lock[g] = Nobody
    BY DEF LoadInv, Loaded
  <2>2. ASSUME NEW r \in Requests, LoadEnds(r)  PROVE FALSE
    BY <2>1, <2>2, ReadinessAssumption DEF LoadInv, LoadEnds, Places
  <2>3. ASSUME NEW g \in Groups, Repair(g)  PROVE FALSE
    BY <2>3 DEF Repair
  <2>4. ASSUME NEW r \in Requests,
               (\E g \in Groups : Arrive(r, g)) \/ GetLock(r) \/ Infer(r)
        PROVE  UNCHANGED <<intact, loaded>>
    BY <2>4 DEF Arrive, GetLock, Infer
  <2>5. CASE StoreChanges \/ UNCHANGED vars
    BY <2>5 DEF StoreChanges, vars, Loaded
  <2> QED
    BY <2>2, <2>3, <2>4, <2>5 DEF Next, Loaded
<1>3. Inv => (Ready <=> storeHealthy)
  BY DEF Ready
<1> QED
  BY <1>1, <1>2, <1>3, PTL DEF Spec, ReadyWithStore, GateOpens

(* The network models *)

Inside == {"locked", "publish", "reset"}
Stay == [pc : Pc, step : Nat, seen : SUBSET Nat]

\* Types; the lock is held exactly by the thread inside the locked section.
NetworkShape ==
  /\ globals \in [Globals -> Nat]
  /\ loads \in Nat /\ forced \in Nat
  /\ thread \in [Threads -> Stay]
  /\ owner \in Threads \cup {NoThread}
  /\ \A t \in Threads : owner = t <=> thread[t].pc \in Inside
  /\ \A t \in Threads : thread[t].pc = "use" => thread[t].step < Len(UseOrder)

Published == globals["_LOADED"] # 0

\* Every load but one was forced: one more only while its set is, or gets, published.
LoadsCounted ==
  /\ owner = NoThread => loads <= forced + (IF Published THEN 1 ELSE 0)
  /\ \A t \in Threads :
       /\ thread[t].pc \in {"locked", "reset"} => loads <= forced
       /\ thread[t].pc = "publish" =>
            0 < loads /\ loads <= forced + 1 /\ thread[t].step < Len(PublishOrder)

\* Without a forced reload there is one set: it is published flag last, by the thread
\* that holds the lock, and used only then.
OneSet ==
  /\ Published => owner = NoThread /\ \A g \in Globals : globals[g] = 1
  /\ \A t \in Threads :
       /\ thread[t].pc = "publish" =>
            \A i \in 1 .. thread[t].step : globals[PublishOrder[i]] = 1
       /\ thread[t].pc = "use" => Published
       /\ thread[t].seen \subseteq {1}

NetworkInv == NetworkShape /\ LoadsCounted /\ (forced = 0 => OneSet)

\* The orders name the globals, the flag last.
LEMMA Orders ==
  /\ Len(PublishOrder) = 7 /\ Len(UseOrder) = 5
  /\ \A k \in 1 .. 7 : PublishOrder[k] \in Globals
  /\ \A k \in 1 .. 7 : PublishOrder[k] = "_LOADED" <=> k = 7
  /\ \A g \in Globals : \E k \in 1 .. 7 : g = PublishOrder[k]
  /\ \A k \in 1 .. 5 : UseOrder[k] \in Globals
  /\ "_LOADED" \in Globals
<1>1. /\ Len(PublishOrder) = 7 /\ DOMAIN PublishOrder = 1 .. 7
      /\ PublishOrder[1] = "network_model" /\ PublishOrder[2] = "bot_specialist"
      /\ PublishOrder[3] = "network_imputer" /\ PublishOrder[4] = "label_encoder"
      /\ PublishOrder[5] = "NETWORK_FEATURES" /\ PublishOrder[6] = "CLASS_NAMES"
      /\ PublishOrder[7] = "_LOADED"
  BY DEF PublishOrder
<1>2. /\ Len(UseOrder) = 5
      /\ UseOrder[1] = "NETWORK_FEATURES" /\ UseOrder[2] = "network_model"
      /\ UseOrder[3] = "bot_specialist" /\ UseOrder[4] = "CLASS_NAMES"
      /\ UseOrder[5] = "label_encoder"
  BY DEF UseOrder
<1>3. Globals = {PublishOrder[k] : k \in 1 .. 7}
  BY <1>1 DEF Globals
<1>4. \A k \in 1 .. 7 : k \in {1, 2, 3, 4, 5, 6, 7}
  OBVIOUS
<1>5. \A k \in 1 .. 7 : PublishOrder[k] = "_LOADED" <=> k = 7
  BY <1>1, <1>4
<1>6. \A k \in 1 .. 5 : k \in {1, 2, 3, 4, 5}
  OBVIOUS
<1>7. \A k \in 1 .. 5 : UseOrder[k] \in Globals
  BY <1>1, <1>2, <1>3, <1>6
<1> QED
  BY <1>1, <1>2, <1>3, <1>5, <1>7

\* Where a thread goes.
LEMMA GoMoves ==
  ASSUME thread \in [Threads -> Stay], NEW t \in Threads, NEW pc \in Pc, Go(t, pc)
  PROVE  /\ thread' \in [Threads -> Stay]
         /\ thread'[t].pc = pc /\ thread'[t].step = 0 /\ thread'[t].seen = {}
         /\ \A u \in Threads : u # t => thread'[u] = thread[u]
<1>1. AtStep(pc) \in Stay /\ AtStep(pc).pc = pc /\ AtStep(pc).step = 0 /\ AtStep(pc).seen = {}
  BY DEF AtStep, Stay
<1> QED
  BY <1>1 DEF Go

\* A thread goes on to the next assignment.
LEMMA StepMoves ==
  ASSUME thread \in [Threads -> Stay], NEW t \in Threads, NEW k \in Nat,
         thread' = [thread EXCEPT ![t].step = k]
  PROVE  /\ thread' \in [Threads -> Stay]
         /\ thread'[t].pc = thread[t].pc /\ thread'[t].step = k
         /\ thread'[t].seen = thread[t].seen
         /\ \A u \in Threads : u # t => thread'[u] = thread[u]
<1> DEFINE s == [thread[t] EXCEPT !.step = k]
<1>1. thread[t] \in Stay
  OBVIOUS
<1>2. s \in Stay /\ s.pc = thread[t].pc /\ s.step = k /\ s.seen = thread[t].seen
  BY <1>1 DEF Stay
<1>3. thread' = [thread EXCEPT ![t] = s]
  OBVIOUS
<1> HIDE DEF s
<1> QED
  BY <1>2, <1>3

\* A thread that goes on without lock, globals and loads being touched.
LEMMA StepOutside ==
  ASSUME NetworkInv, NEW t \in Threads, NEW s \in Stay,
         thread[t].pc \notin Inside, s.pc \notin Inside,
         thread' = [thread EXCEPT ![t] = s],
         UNCHANGED <<globals, owner, loads, forced>>,
         s.pc = "use" => s.step < Len(UseOrder),
         forced = 0 => s.seen \subseteq {1} /\ (s.pc = "use" => Published)
  PROVE  NetworkInv'
<1>1. /\ thread' \in [Threads -> Stay] /\ thread'[t] = s
      /\ \A u \in Threads : u # t => thread'[u] = thread[u]
  BY DEF NetworkInv, NetworkShape
<1>2. NetworkShape'
  BY <1>1 DEF NetworkInv, NetworkShape
<1>3. LoadsCounted'
  BY <1>1 DEF NetworkInv, LoadsCounted, Inside, Published
<1>4. forced = 0 => OneSet'
  BY <1>1 DEF NetworkInv, OneSet, Inside, Published
<1> QED
  BY <1>2, <1>3, <1>4 DEF NetworkInv

\* A thread takes the lock: to load what is not published, or because it was forced to.
LEMMA TakesLock ==
  ASSUME NetworkInv, NEW t \in Threads, owner = NoThread, owner' = t, Go(t, "locked"),
         UNCHANGED <<globals, loads>>,
         forced' = forced + 1 \/ (~Published /\ forced' = forced)
  PROVE  NetworkInv'
<1>1. /\ thread' \in [Threads -> Stay] /\ thread'[t].pc = "locked" /\ thread'[t].seen = {}
      /\ \A u \in Threads : u # t => thread'[u] = thread[u]
  BY GoMoves DEF NetworkInv, NetworkShape, Pc
<1>2. \A u \in Threads : thread[u].pc \notin Inside
  BY NetworkAssumption DEF NetworkInv, NetworkShape
<1>3. NetworkShape'
  BY <1>1, <1>2 DEF NetworkInv, NetworkShape, Inside
<1>4. loads <= forced' /\ loads \in Nat /\ forced' \in Nat
  BY DEF NetworkInv, NetworkShape, LoadsCounted
<1>5. LoadsCounted'
  BY <1>1, <1>2, <1>4, NetworkAssumption DEF LoadsCounted, Inside, Published
<1>6. forced' = 0 => OneSet'
  <2> SUFFICES ASSUME forced' = 0  PROVE OneSet'
    OBVIOUS
  <2>1. ~Published /\ forced = 0 /\ OneSet
    BY DEF NetworkInv, NetworkShape
  <2> QED
    BY <1>1, <1>2, <2>1 DEF OneSet, Inside, Published
<1> QED
  BY <1>3, <1>5, <1>6 DEF NetworkInv

\* It loads the artifacts, or fails to.
LEMMA LoadKeeps ==
  ASSUME NetworkInv, NEW t \in Threads, Load(t)
  PROVE  NetworkInv'
<1>1. PICK pc \in {"publish", "reset"} :
        /\ Go(t, pc) /\ loads' = IF pc = "publish" THEN loads + 1 ELSE loads
        /\ UNCHANGED <<globals, owner, forced>> /\ thread[t].pc = "locked"
  BY DEF Load
<1>2. /\ thread' \in [Threads -> Stay] /\ thread'[t].pc = pc /\ thread'[t].seen = {}
      /\ thread'[t].step = 0
      /\ \A u \in Threads : u # t => thread'[u] = thread[u]
  BY <1>1, GoMoves DEF NetworkInv, NetworkShape, Pc
<1>3. owner = t /\ \A u \in Threads : u # t => thread[u].pc \notin Inside
  BY <1>1 DEF NetworkInv, NetworkShape, Inside
<1>4. NetworkShape'
  BY <1>1, <1>2, <1>3 DEF NetworkInv, NetworkShape, Inside
<1>5. LoadsCounted'
  <2>1. loads <= forced /\ loads \in Nat /\ forced \in Nat /\ owner # NoThread
    BY <1>1, <1>3, NetworkAssumption DEF NetworkInv, LoadsCounted, NetworkShape
  <2>2. \A u \in Threads : u # t => thread'[u].pc \notin Inside
    BY <1>2, <1>3
  <2>3. 0 < Len(PublishOrder)
    BY Orders
  <2> QED
    BY <1>1, <1>2, <2>1, <2>2, <2>3 DEF LoadsCounted, Inside
<1>6. forced' = 0 => OneSet'
  <2> SUFFICES ASSUME forced' = 0  PROVE OneSet'
    OBVIOUS
  <2>1. OneSet /\ ~Published
    BY <1>1, <1>3, NetworkAssumption DEF NetworkInv, OneSet
  <2> QED
    BY <1>1, <1>2, <1>3, <2>1 DEF OneSet, Inside, Published
<1> QED
  BY <1>4, <1>5, <1>6 DEF NetworkInv

\* It publishes them, flag last.
LEMMA PublishKeeps ==
  ASSUME NetworkInv, NEW t \in Threads, Publish(t)
  PROVE  NetworkInv'
<1> DEFINE k == thread[t].step + 1
<1>0. thread[t].step \in Nat
  BY DEF NetworkInv, NetworkShape, Stay
<1>1. /\ thread[t].pc = "publish" /\ owner = t /\ k \in 1 .. 7
      /\ 0 < loads /\ loads <= forced + 1 /\ loads \in Nat /\ forced \in Nat
      /\ globals' = [globals EXCEPT ![PublishOrder[k]] = loads]
      /\ UNCHANGED <<loads, forced>>
  <2>1. thread[t].pc = "publish"
    BY DEF Publish, Assign
  <2>2. thread[t].step < 7 /\ owner = t
    BY <1>0, <2>1, Orders DEF NetworkInv, LoadsCounted, NetworkShape, Inside
  <2>3. 0 < loads /\ loads <= forced + 1 /\ loads \in Nat /\ forced \in Nat
    BY <2>1 DEF NetworkInv, LoadsCounted, NetworkShape
  <2>4. globals' = [globals EXCEPT ![PublishOrder[k]] = loads] /\ UNCHANGED <<loads, forced>>
    BY DEF Publish, Assign
  <2> QED
    BY <1>0, <2>1, <2>2, <2>3, <2>4
<1>2. \A u \in Threads : u # t => thread[u].pc \notin Inside
  BY <1>1 DEF NetworkInv, NetworkShape, Inside
<1>3. /\ globals' \in [Globals -> Nat] /\ globals'[PublishOrder[k]] = loads
      /\ \A g \in Globals : g # PublishOrder[k] => globals'[g] = globals[g]
  BY <1>1, Orders DEF NetworkInv, NetworkShape
<1>4. CASE k < 7
  <2>1. thread' = [thread EXCEPT ![t].step = k] /\ owner' = owner
    BY <1>1, <1>4, Orders DEF Publish, Assign
  <2>2. /\ thread' \in [Threads -> Stay] /\ thread'[t].pc = "publish"
        /\ thread'[t].step = k /\ thread'[t].seen = thread[t].seen
        /\ \A u \in Threads : u # t => thread'[u] = thread[u]
    <3>1. k \in Nat /\ thread \in [Threads -> Stay]
      BY <1>0 DEF NetworkInv, NetworkShape
    <3> HIDE DEF k
    <3> QED
      BY <1>1, <2>1, <3>1, StepMoves
  <2>3. NetworkShape'
    BY <1>1, <1>2, <1>3, <2>1, <2>2 DEF NetworkInv, NetworkShape, Inside
  <2>4. Published' <=> Published
    BY <1>1, <1>3, <1>4, Orders DEF Published
  <2>5. LoadsCounted'
    BY <1>1, <1>2, <1>4, <2>1, <2>2, Orders, NetworkAssumption DEF LoadsCounted, Inside
  <2>6. ASSUME forced' = 0  PROVE OneSet'
    <3>1. OneSet /\ ~Published /\ loads = 1
      BY <1>1, <2>6, NetworkAssumption DEF NetworkInv, OneSet
    <3>2. \A i \in 1 .. k : globals'[PublishOrder[i]] = 1
      <4> SUFFICES ASSUME NEW i \in 1 .. k  PROVE globals'[PublishOrder[i]] = 1
        OBVIOUS
      <4>1. CASE PublishOrder[i] = PublishOrder[k]
        BY <1>3, <3>1, <4>1
      <4>2. CASE PublishOrder[i] # PublishOrder[k]
        <5>1. i \in 1 .. thread[t].step /\ i \in 1 .. 7
          BY <1>1, <4>2, <1>0
        <5>2. globals[PublishOrder[i]] = 1
          BY <1>1, <3>1, <5>1 DEF OneSet
        <5> QED
          BY <1>3, <4>2, <5>1, <5>2, Orders
      <4> QED
        BY <4>1, <4>2
    <3> QED
      BY <1>2, <2>2, <2>4, <3>1, <3>2 DEF OneSet, Inside
  <2> QED
    BY <2>3, <2>5, <2>6 DEF NetworkInv
<1>5. CASE k = 7
  <2>1. Go(t, "check") /\ owner' = NoThread
    BY <1>1, <1>5, Orders DEF Publish, Assign
  <2>2. /\ thread' \in [Threads -> Stay] /\ thread'[t].pc = "check" /\ thread'[t].seen = {}
        /\ \A u \in Threads : u # t => thread'[u] = thread[u]
    BY <2>1, GoMoves DEF NetworkInv, NetworkShape, Pc
  <2>3. NetworkShape'
    BY <1>1, <1>2, <1>3, <2>1, <2>2, NetworkAssumption DEF NetworkInv, NetworkShape, Inside
  <2>4. Published' /\ \A u \in Threads : thread'[u].pc \notin Inside
    BY <1>1, <1>2, <1>3, <1>5, <2>2, Orders DEF Published, Inside
  <2>5. LoadsCounted'
    BY <1>1, <2>1, <2>4 DEF LoadsCounted, Inside
  <2>6. ASSUME forced' = 0  PROVE OneSet'
    <3>1. OneSet /\ loads = 1
      BY <1>1, <2>6 DEF NetworkInv
    <3>2. \A i \in 1 .. 7 : globals'[PublishOrder[i]] = 1
      <4> SUFFICES ASSUME NEW i \in 1 .. 7  PROVE globals'[PublishOrder[i]] = 1
        OBVIOUS
      <4>1. CASE PublishOrder[i] = PublishOrder[k]
        BY <1>3, <3>1, <4>1
      <4>2. CASE PublishOrder[i] # PublishOrder[k]
        <5>1. i \in 1 .. thread[t].step /\ i \in 1 .. 7
          BY <1>1, <1>5, <4>2, <1>0
        <5>2. globals[PublishOrder[i]] = 1
          BY <1>1, <3>1, <5>1 DEF OneSet
        <5> QED
          BY <1>3, <4>2, <5>1, <5>2, Orders
      <4> QED
        BY <4>1, <4>2
    <3>3. \A g \in Globals : globals'[g] = 1
      BY <3>2, Orders
    <3>4. \A u \in Threads : thread'[u].pc = "use" => u # t
      BY <2>2
    <3> QED
      BY <2>1, <2>2, <2>4, <3>1, <3>3, <3>4 DEF OneSet, Inside
  <2> QED
    BY <2>3, <2>5, <2>6 DEF NetworkInv
<1> QED
  BY <1>1, <1>4, <1>5

\* The except branch takes back what is published.
LEMMA ResetKeeps ==
  ASSUME NetworkInv, NEW t \in Threads, Reset(t)
  PROVE  NetworkInv'
<1> DEFINE k == thread[t].step + 1
<1>0. thread[t].step \in Nat
  BY DEF NetworkInv, NetworkShape, Stay
<1>1. /\ thread[t].pc = "reset" /\ owner = t
      /\ loads <= forced /\ loads \in Nat /\ forced \in Nat
      /\ globals' = [globals EXCEPT ![PublishOrder[k]] = 0]
      /\ UNCHANGED <<loads, forced>>
  BY DEF Reset, Assign, NetworkInv, NetworkShape, LoadsCounted, Inside
<1>2. \A u \in Threads : u # t => thread[u].pc \notin Inside
  BY <1>1 DEF NetworkInv, NetworkShape, Inside
<1>3. globals' \in [Globals -> Nat] /\ \A g \in Globals : globals'[g] \in {0, globals[g]}
  BY <1>1 DEF NetworkInv, NetworkShape
<1>4. ASSUME forced' = 0  PROVE OneSet /\ ~Published /\ ~Published'
  <2>1. OneSet /\ ~Published
    BY <1>1, <1>4, NetworkAssumption DEF NetworkInv, OneSet
  <2> QED
    BY <1>3, <2>1, Orders DEF Published
<1>5. CASE k < 7
  <2>1. thread' = [thread EXCEPT ![t].step = k] /\ owner' = owner
    BY <1>1, <1>5, Orders DEF Reset, Assign
  <2>2. /\ thread' \in [Threads -> Stay] /\ thread'[t].pc = "reset"
        /\ thread'[t].seen = thread[t].seen
        /\ \A u \in Threads : u # t => thread'[u] = thread[u]
    <3>1. k \in Nat /\ thread \in [Threads -> Stay]
      BY <1>0 DEF NetworkInv, NetworkShape
    <3> HIDE DEF k
    <3> QED
      BY <1>1, <2>1, <3>1, StepMoves
  <2>3. NetworkShape'
    BY <1>1, <1>2, <1>3, <2>1, <2>2 DEF NetworkInv, NetworkShape, Inside
  <2>4. LoadsCounted'
    BY <1>1, <1>2, <2>1, <2>2, NetworkAssumption DEF LoadsCounted, Inside
  <2>5. ASSUME forced' = 0  PROVE OneSet'
    BY <1>2, <1>4, <2>2, <2>5 DEF OneSet, Inside
  <2> QED
    BY <2>3, <2>4, <2>5 DEF NetworkInv
<1>6. CASE ~(k < 7)
  <2>1. Go(t, "unavailable") /\ owner' = NoThread
    BY <1>1, <1>6, Orders DEF Reset, Assign
  <2>2. /\ thread' \in [Threads -> Stay] /\ thread'[t].pc = "unavailable"
        /\ thread'[t].seen = {}
        /\ \A u \in Threads : u # t => thread'[u] = thread[u]
    BY <2>1, GoMoves DEF NetworkInv, NetworkShape, Pc
  <2>3. NetworkShape'
    BY <1>1, <1>2, <1>3, <2>1, <2>2, NetworkAssumption DEF NetworkInv, NetworkShape, Inside
  <2>4. LoadsCounted'
    BY <1>1, <1>2, <2>1, <2>2, NetworkAssumption DEF LoadsCounted, Inside
  <2>5. ASSUME forced' = 0  PROVE OneSet'
    BY <1>2, <1>4, <2>2, <2>5 DEF OneSet, Inside
  <2> QED
    BY <2>3, <2>4, <2>5 DEF NetworkInv
<1> QED
  BY <1>5, <1>6

\* Every step keeps the invariant.
LEMMA NetworkStep == NetworkInv /\ [NetworkNext]_networkVars => NetworkInv'
<1> SUFFICES ASSUME NetworkInv, [NetworkNext]_networkVars  PROVE NetworkInv'
  OBVIOUS
<1>1. \A t \in Threads : thread[t] \in Stay /\ (forced = 0 => thread[t].seen \subseteq {1})
  BY DEF NetworkInv, NetworkShape, OneSet
<1>2. \A pc \in Pc : /\ AtStep(pc) \in Stay /\ AtStep(pc).pc = pc
                     /\ AtStep(pc).step = 0 /\ AtStep(pc).seen = {}
  BY DEF AtStep, Stay
<1>3. ASSUME NEW t \in Threads, Detect(t)  PROVE NetworkInv'
  <2>1. PICK pc \in {"check", "lock"} : Go(t, pc)
    BY <1>3 DEF Detect
  <2>2. thread' = [thread EXCEPT ![t] = AtStep(pc)] /\ pc \in Pc /\ pc # "use"
    BY <2>1 DEF Go, Pc
  <2> QED
    BY <1>2, <1>3, <2>1, <2>2, StepOutside DEF Detect, Inside
<1>4. ASSUME NEW t \in Threads, Reload(t)  PROVE NetworkInv'
  BY <1>4, TakesLock DEF Reload
<1>5. ASSUME NEW t \in Threads, Acquire(t)  PROVE NetworkInv'
  <2>1. CASE Published
    <3>1. thread' = [thread EXCEPT ![t] = AtStep("check")] /\ "check" \in Pc
          /\ UNCHANGED <<globals, owner, loads, forced>> /\ thread[t].pc = "lock"
      BY <1>5, <2>1 DEF Acquire, Published, Go, Pc
    <3> QED
      BY <1>2, <3>1, StepOutside DEF Inside
  <2>2. CASE ~Published
    BY <1>5, <2>2, TakesLock DEF Acquire, Published
  <2> QED
    BY <2>1, <2>2
<1>6. ASSUME NEW t \in Threads, Load(t)  PROVE NetworkInv'
  BY <1>6, LoadKeeps
<1>7. ASSUME NEW t \in Threads, Publish(t)  PROVE NetworkInv'
  BY <1>7, PublishKeeps
<1>8. ASSUME NEW t \in Threads, Reset(t)  PROVE NetworkInv'
  BY <1>8, ResetKeeps
<1>9. ASSUME NEW t \in Threads, Check(t)  PROVE NetworkInv'
  <2>1. CASE \A g \in Used \cup {"_LOADED"} : globals[g] # 0
    <3>1. thread' = [thread EXCEPT ![t] = AtStep("use")] /\ "use" \in Pc /\ Published
          /\ UNCHANGED <<globals, owner, loads, forced>> /\ thread[t].pc = "check"
      BY <1>9, <2>1 DEF Check, Published, Go, Pc
    <3>2. 0 < Len(UseOrder)
      BY Orders
    <3> QED
      BY <1>2, <3>1, <3>2, StepOutside DEF Inside
  <2>2. CASE ~\A g \in Used \cup {"_LOADED"} : globals[g] # 0
    <3>1. thread' = [thread EXCEPT ![t] = AtStep("unavailable")] /\ "unavailable" \in Pc
          /\ UNCHANGED <<globals, owner, loads, forced>> /\ thread[t].pc = "check"
      BY <1>9, <2>2 DEF Check, Go, Pc
    <3> QED
      BY <1>2, <3>1, StepOutside DEF Inside
  <2> QED
    BY <2>1, <2>2
<1>10. ASSUME NEW t \in Threads, Use(t)  PROVE NetworkInv'
  <2> DEFINE k == thread[t].step + 1
             seen == thread[t].seen \cup {globals[UseOrder[k]]}
             s == [pc |-> IF k < Len(UseOrder) THEN "use" ELSE "done",
                   step |-> k, seen |-> seen]
  <2>1. /\ thread[t].pc = "use" /\ thread' = [thread EXCEPT ![t] = s]
        /\ UNCHANGED <<globals, owner, loads, forced>>
    BY <1>10 DEF Use
  <2>2. thread[t].step \in Nat /\ thread[t].seen \in SUBSET Nat
    BY <1>1 DEF Stay
  <2>3. k \in 1 .. 5 /\ globals[UseOrder[k]] \in Nat
    BY <2>1, <2>2, Orders DEF NetworkInv, NetworkShape
  <2>4. forced = 0 => Published /\ seen \subseteq {1}
    BY <1>1, <2>1, <2>3, Orders DEF NetworkInv, OneSet
  <2>5. s \in Stay /\ s.pc \notin Inside /\ thread[t].pc \notin Inside
        /\ s.pc \in {"use", "done"} /\ s.step = k /\ s.seen = seen
        /\ (s.pc = "use" => k < Len(UseOrder))
    BY <2>1, <2>2, <2>3 DEF Stay, Inside, Pc
  <2> HIDE DEF s, seen, k
  <2> QED
    BY <2>1, <2>4, <2>5, StepOutside
<1>11. CASE UNCHANGED networkVars
  BY <1>11 DEF networkVars, NetworkInv, NetworkShape, LoadsCounted, OneSet, Published
<1> QED
  BY <1>3, <1>4, <1>5, <1>6, <1>7, <1>8, <1>9, <1>10, <1>11 DEF NetworkNext

\* For every number of threads: without a forced reload no classification finds a global
\* missing or mixes two loads, and every load but one was forced (load_network_models,
\* _ensure_loaded).
THEOREM NetworkWhole == NetworkSpec => []NeverHalfInitialised
<1>1. NetworkInit => NetworkInv
  BY NetworkAssumption, Orders
     DEF NetworkInit, NetworkInv, NetworkShape, LoadsCounted, OneSet, Published, AtStep,
         Stay, Inside, Pc
<1>2. NetworkInv => NeverHalfInitialised
  <2> SUFFICES ASSUME NetworkInv  PROVE WholeSets /\ LoadedOnce
    BY DEF NeverHalfInitialised
  <2>1. WholeSets
    <3> SUFFICES ASSUME forced = 0, NEW t \in Threads
                 PROVE  0 \notin thread[t].seen /\ Cardinality(thread[t].seen) <= 1
      BY DEF WholeSets
    <3>1. thread[t].seen = {} \/ thread[t].seen = {1}
      BY DEF NetworkInv, OneSet
    <3>2. Cardinality({}) = 0 /\ Cardinality({1}) = 1
      BY FS_EmptySet, FS_Singleton
    <3> QED
      BY <3>1, <3>2
  <2>2. LoadedOnce
    <3>1. CASE owner = NoThread
      BY <3>1 DEF NetworkInv, NetworkShape, LoadsCounted, LoadedOnce
    <3>2. CASE owner # NoThread
      BY <3>2 DEF NetworkInv, NetworkShape, LoadsCounted, LoadedOnce, Inside
    <3> QED
      BY <3>1, <3>2
  <2> QED
    BY <2>1, <2>2
<1> QED
  BY <1>1, <1>2, NetworkStep, PTL DEF NetworkSpec

\* A global holds nothing that no load made, and the lock is held exactly inside the locked
\* section (load_network_models).
THEOREM NetworkTyped == NetworkSpec => []NetworkTypeOK
<1> DEFINE Below == \A g \in Globals : globals[g] <= loads
<1>1. NetworkInit => NetworkInv /\ Below
  BY NetworkAssumption, Orders
     DEF NetworkInit, NetworkInv, NetworkShape, LoadsCounted, OneSet, Published, AtStep,
         Stay, Inside, Pc
<1>2. NetworkInv /\ Below /\ [NetworkNext]_networkVars => Below'
  <2> SUFFICES ASSUME NetworkInv, Below, [NetworkNext]_networkVars  PROVE Below'
    OBVIOUS
  <2>1. globals \in [Globals -> Nat] /\ loads \in Nat
    BY DEF NetworkInv, NetworkShape
  <2>2. ASSUME NEW t \in Threads, Load(t)  PROVE Below'
    BY <2>1, <2>2 DEF Load
  <2>3. ASSUME NEW t \in Threads, Publish(t) \/ Reset(t)  PROVE Below'
    <3>1. /\ loads' = loads
          /\ \E x, v : v \in {0, loads} /\ globals' = [globals EXCEPT ![x] = v]
      BY <2>3 DEF Publish, Reset, Assign
    <3> QED
      BY <2>1, <3>1
  <2>4. ASSUME NEW t \in Threads, Detect(t) \/ Reload(t) \/ Acquire(t) \/ Check(t) \/ Use(t)
        PROVE  Below'
    BY <2>4 DEF Detect, Reload, Acquire, Check, Use
  <2>5. CASE UNCHANGED networkVars
    BY <2>5 DEF networkVars
  <2> QED
    BY <2>2, <2>3, <2>4, <2>5 DEF NetworkNext
<1>3. NetworkInv /\ Below => NetworkTypeOK
  <2> SUFFICES ASSUME NetworkInv, Below  PROVE NetworkTypeOK
    OBVIOUS
  <2>1. globals \in [Globals -> 0 .. loads]
    BY DEF NetworkInv, NetworkShape
  <2> QED
    BY <2>1 DEF NetworkInv, NetworkShape, NetworkTypeOK, Stay, Inside
<1> HIDE DEF Below
<1> QED
  BY <1>1, <1>2, <1>3, NetworkStep, PTL DEF NetworkSpec

-------------------------------------------------------------------------------
(* What is made of the scores *)

\* Euclid's division by the units.
LEMMA Euclid ==
  ASSUME Units \in Nat \ {0}, NEW n \in Nat
  PROVE  /\ n \div Units \in Nat /\ n % Units \in Nat
         /\ n = Units * (n \div Units) + (n % Units) /\ n % Units < Units
OBVIOUS

\* Rounding keeps the order.
LEMMA RoundedMonotone ==
  ASSUME Units \in Nat \ {0}, NEW a \in Nat, NEW b \in Nat, a >= b
  PROVE  Rounded(a) \in Nat /\ Rounded(b) \in Nat /\ Rounded(a) >= Rounded(b)
<1> DEFINE p == a \div Units
           q == b \div Units
           x == a % Units
           y == b % Units
<1>1. /\ p \in Nat /\ q \in Nat /\ x \in Nat /\ y \in Nat
      /\ a = Units * p + x /\ x < Units /\ b = Units * q + y /\ y < Units
  BY Euclid
<1>2. /\ Rounded(a) = IF 2 * x < Units \/ (2 * x = Units /\ p % 2 = 0) THEN p ELSE p + 1
      /\ Rounded(b) = IF 2 * y < Units \/ (2 * y = Units /\ q % 2 = 0) THEN q ELSE q + 1
  BY DEF Rounded
<1> HIDE DEF p, q, x, y
<1>3. p >= q
  <2> SUFFICES ASSUME p + 1 <= q  PROVE FALSE
    BY <1>1
  <2>1. Units * (p + 1) <= Units * q
    BY <1>1
  <2>2. Units * (p + 1) = Units * p + Units
    BY <1>1
  <2> QED
    BY <1>1, <2>1, <2>2
<1>4. CASE p > q
  BY <1>1, <1>2, <1>4
<1>5. CASE p = q
  <2>1. x >= y
    BY <1>1, <1>5
  <2> QED
    BY <1>1, <1>2, <1>5, <2>1
<1> QED
  BY <1>1, <1>3, <1>4, <1>5

\* "Returned so a consumer can re-derive detection" (main.py:589-590): with a threshold of at
\* most four decimals, whatever was detected is found again from the rounded score; with any
\* threshold exactly if it is not rounded down itself.  (Not the other way round: rounding may
\* lift a score that was no detection.)
THEOREM DetectionRederived ==
  ASSUME Units \in Nat \ {0}, NEW threshold \in Nat
  PROVE  /\ (\A score \in Nat :
               Detected(score, threshold) => Rederived(LoginResult(score, threshold)))
              <=> Units * Rounded(threshold) >= threshold
         /\ threshold % Units = 0 => Units * Rounded(threshold) >= threshold
<1>1. \A score \in Nat :
        /\ Detected(score, threshold) <=> score >= threshold
        /\ Rederived(LoginResult(score, threshold)) <=> Units * Rounded(score) >= threshold
  BY DEF Detected, Rederived, LoginResult
<1>2. ASSUME Units * Rounded(threshold) >= threshold, NEW score \in Nat, score >= threshold
      PROVE  Units * Rounded(score) >= threshold
  <2>1. /\ Rounded(score) \in Nat /\ Rounded(threshold) \in Nat
        /\ Rounded(score) >= Rounded(threshold)
    BY <1>2, RoundedMonotone
  <2>2. Units * Rounded(score) >= Units * Rounded(threshold)
    BY <2>1
  <2> QED
    BY <1>2, <2>1, <2>2
<1>3. ASSUME \A score \in Nat :
               Detected(score, threshold) => Rederived(LoginResult(score, threshold))
      PROVE  Units * Rounded(threshold) >= threshold
  BY <1>1, <1>3
<1>4. ASSUME threshold % Units = 0  PROVE Units * Rounded(threshold) >= threshold
  <2>1. threshold = Units * (threshold \div Units) /\ Rounded(threshold) = threshold \div Units
    BY <1>4, Euclid DEF Rounded
  <2> QED
    BY <2>1
<1> QED
  BY <1>1, <1>2, <1>3, <1>4

\* The override turns "Bot" into the best of the other classes, never into "Bot".
THEOREM OverrideSparesBot ==
  ASSUME NEW classes, NEW p \in [DOMAIN classes -> Nat], NEW bot, NEW threshold,
         NEW best \in {i \in DOMAIN classes : classes[i] # "Bot"},
         \A j \in {i \in DOMAIN classes : classes[i] # "Bot"} :
           p[j] < p[best] \/ (p[j] = p[best] /\ best <= j),
         Override(p, classes, bot, threshold)
  PROVE  /\ NetworkResult(p, classes, bot, threshold).attack_type # "Bot"
         /\ \A j \in DOMAIN classes :
              classes[j] # "Bot" => p[j] <= NetworkResult(p, classes, bot, threshold).model_score
<1> DEFINE others == {i \in DOMAIN classes : classes[i] # "Bot"}
           final == MostProbable(p, others)
<1>1. /\ final \in others
      /\ \A j \in others : p[j] < p[final] \/ (p[j] = p[final] /\ final <= j)
  BY DEF MostProbable
<1>2. /\ NetworkResult(p, classes, bot, threshold).attack_type = classes[final]
      /\ NetworkResult(p, classes, bot, threshold).model_score = p[final]
  BY DEF NetworkResult, FinalIndex
<1>3. \A j \in others : p[j] \in Nat
  OBVIOUS
<1> HIDE DEF final
<1> QED
  BY <1>1, <1>2, <1>3

-------------------------------------------------------------------------------
(* The investigation *)

\* The shape of the state, as far as the argument needs it.
Shape ==
  /\ page \in [phase : {"idle", "waiting", "reading", "backoff", "done"}, tool : Tools,
               attempt : Nat, targeted : BOOLEAN,
               result : {Running} \cup [by : {"agent", "page"}, status : Statuses]]
  /\ wire \subseteq [tool : Tools, attempt : Nat, stage : Stages]
  /\ reports \in [agent : Nat, page : Nat]

\* Calls with a side effect are sent once: never again after a failure.
SentOnce ==
  /\ \A m, n \in wire : m.tool = n.tool /\ m.tool \in {Agent, Report} => m = n
  /\ page.phase = "backoff" => page.tool \notin {Agent, Report}
  /\ page.phase = "idle" => page.tool = Agent /\ wire = {} /\ reports.agent = 0
  /\ page.tool # Report => reports.page = 0 /\ \A m \in wire : m.tool # Report

\* A report has been generated exactly when the one call that generates it was answered "ok".
StageTells ==
  \A m \in wire :
    /\ m.tool = Agent => reports.agent = IF m.stage = "ok" THEN 1 ELSE 0
    /\ m.tool = Report => reports.page = IF m.stage = "ok" THEN 1 ELSE 0

\* A result comes last, and the agent's only once its request is answered.
ResultLast ==
  /\ page.phase # "done" => page.result = Running
  /\ page.result.by = "agent" => \A m \in wire : m.tool # Agent

IInv == Shape /\ SentOnce /\ StageTells /\ ResultLast /\ ReportedOnce

\* The numbers of the tools.
LEMMA ToolNumbers ==
  /\ Tools = 0 .. 6
  /\ Agent = 0 /\ Summary = 1 /\ Suspicious = 2 /\ InvestigateUser = 3
  /\ RiskScore = 4 /\ AttackPattern = 5 /\ Report = 6
  BY DEF Tools, Agent, Summary, Suspicious, InvestigateUser, RiskScore, AttackPattern, Report

LEMMA InitEstablishes == InvestigationInit => IInv
  BY ToolNumbers
     DEF InvestigationInit, IInv, Shape, SentOnce, StageTells, ResultLast, ReportedOnce,
         Running, Result

\* Sending a request keeps the invariant when the request is the first of its call, or of a
\* tool that only reads, and the page has not come to the report.
LEMMA SendKeeps ==
  ASSUME IInv, UNCHANGED reports, page.phase \notin {"idle", "done"}, page.tool # Report,
         NEW t \in Tools \ {Agent}, NEW a \in Nat, Send(t, a)
  PROVE  IInv'
<1> DEFINE new == Request(t, a)
<1>0. /\ wire' = Lasting \cup {new}
      /\ Lasting \subseteq wire
      /\ \A m \in Lasting : m.tool \in {Agent, Report}
      /\ new \in [tool : Tools, attempt : Nat, stage : Stages]
      /\ new.tool = t /\ new.stage = "sent"
  BY DEF Send, Lasting, Request, Stages
<1>1. Shape'
  BY <1>0 DEF IInv, Shape, Send
<1>2. SentOnce'
  BY <1>0, <1>1, ToolNumbers DEF IInv, Shape, SentOnce, Send
<1>3. StageTells'
  BY <1>0, <1>1, ToolNumbers DEF IInv, Shape, SentOnce, StageTells, Send
<1>4. ResultLast' /\ ReportedOnce'
  BY <1>1, ToolNumbers
     DEF IInv, Shape, ResultLast, ReportedOnce, Send, Running, Result, SentOnce
<1> QED
  BY <1>1, <1>2, <1>3, <1>4 DEF IInv

\* Ending an investigation keeps the invariant when the result tells the reports.
LEMMA EndKeeps ==
  ASSUME IInv, UNCHANGED reports, page.phase # "idle",
         NEW by \in {"agent", "page"}, NEW status \in Statuses, End(by, status),
         by = "agent" => /\ reports.agent = IF status = "COMPLETE" THEN 1 ELSE 0
                         /\ \A m \in Lasting : m.tool # Agent,
         by = "page" /\ status = "COMPLETE" => reports.page = 1
  PROVE  IInv'
<1>1. Shape' /\ Lasting \subseteq wire
  BY DEF IInv, Shape, End, Result, Lasting
<1>2. /\ page'.result = [by |-> by, status |-> status] /\ page'.tool = page.tool
      /\ page'.phase = "done" /\ wire' = Lasting
  BY DEF End, Result, IInv, Shape
<1>3. SentOnce' /\ StageTells' /\ ResultLast'
  BY <1>1, <1>2 DEF IInv, Shape, SentOnce, StageTells, ResultLast
<1>4. ReportedOnce'
  BY <1>1, <1>2 DEF IInv, Shape, ReportedOnce, Result, SentOnce
<1> QED
  BY <1>1, <1>3, <1>4 DEF IInv

\* A final failure starts the fallback or ends the investigation.
LEMMA GiveUpKeeps ==
  ASSUME IInv, UNCHANGED reports, page.phase \notin {"idle", "done"}, GiveUp
  PROVE  IInv'
<1>1. CASE page.tool = Agent
  <2>1. \E t \in Tools \ {Agent} : Send(t, 0)
    BY <1>1, ToolNumbers DEF GiveUp
  <2> QED
    BY <1>1, <2>1, SendKeeps, ToolNumbers
<1>2. CASE page.tool # Agent
  <2>1. End("page", "ERROR") /\ "ERROR" \in Statuses
    BY <1>2 DEF GiveUp, Statuses
  <2> QED
    BY <2>1, EndKeeps
<1> QED
  BY <1>1, <1>2

\* A failed attempt is retried only by the tools that have retries.
LEMMA FailKeeps ==
  ASSUME IInv, UNCHANGED reports, page.phase \notin {"idle", "done"}, Fail
  PROVE  IInv'
<1>1. CASE Retryable(page.tool, page.attempt)
  <2>1. /\ page' = [page EXCEPT !.phase = "backoff"] /\ wire' = Lasting
        /\ Lasting \subseteq wire
    BY <1>1 DEF Fail, Lasting
  <2>2. page.tool \notin {Agent, Report}
    BY <1>1, RetriesAssumption DEF Retryable, RetriesOf, IInv, Shape
  <2>3. Shape'
    BY <2>1 DEF IInv, Shape
  <2> QED
    BY <2>1, <2>2, <2>3 DEF IInv, Shape, SentOnce, StageTells, ResultLast, ReportedOnce
<1>2. CASE ~Retryable(page.tool, page.attempt)
  BY <1>2, GiveUpKeeps DEF Fail
<1> QED
  BY <1>1, <1>2

LEMMA BodyKeeps ==
  ASSUME IInv, Body
  PROVE  IInv'
<1>0. UNCHANGED reports /\ page.phase = "reading"
  BY DEF Body
<1>1. PICK m \in wire :
        /\ Awaited(m)
        /\ \/ /\ m.stage \in DOMAIN AgentStatus
              /\ page.tool = Agent
              /\ End("agent", AgentStatus[m.stage])
           \/ /\ m.stage = "ok" /\ page.tool \in Tools \ {Agent, Report}
              /\ Send(page.tool + 1, 0)
           \/ /\ m.stage = "ok" /\ page.tool = Report
              /\ End("page", "COMPLETE")
           \/ /\ m.stage = "empty" /\ page.tool = Suspicious
              /\ End("page", "NO_TARGETS")
           \/ m.stage = "unavailable" /\ Fail
           \/ /\ \/ m.stage = "refused"
                 \/ m.stage = "missing" /\ page.tool # Agent
              /\ GiveUp
  BY DEF Body
<1>2. m.tool = page.tool
  BY <1>1 DEF Awaited
<1>3. CASE /\ m.stage \in DOMAIN AgentStatus /\ page.tool = Agent
           /\ End("agent", AgentStatus[m.stage])
  <2>1. /\ AgentStatus[m.stage] \in Statuses
        /\ AgentStatus[m.stage] = "COMPLETE" <=> m.stage = "ok"
    BY <1>3 DEF AgentStatus, Statuses
  <2>2. reports.agent = IF m.stage = "ok" THEN 1 ELSE 0
    BY <1>2, <1>3 DEF IInv, StageTells
  <2>3. \A n \in Lasting : n.tool # Agent
    BY <1>2, <1>3 DEF Lasting, IInv, SentOnce, AgentStatus, Codes
  <2> QED
    BY <1>0, <1>3, <2>1, <2>2, <2>3, EndKeeps
<1>4. CASE m.stage = "ok" /\ page.tool \in Tools \ {Agent, Report} /\ Send(page.tool + 1, 0)
  <2>1. page.tool + 1 \in Tools \ {Agent} /\ page.tool # Report
    BY <1>4, ToolNumbers
  <2> QED
    BY <1>0, <1>4, <2>1, SendKeeps
<1>5. CASE m.stage = "ok" /\ page.tool = Report /\ End("page", "COMPLETE")
  <2>1. reports.page = 1 /\ "COMPLETE" \in Statuses
    BY <1>2, <1>5 DEF IInv, StageTells, Statuses
  <2> QED
    BY <1>0, <1>5, <2>1, EndKeeps
<1>6. CASE End("page", "NO_TARGETS")
  BY <1>0, <1>6, EndKeeps DEF Statuses
<1> QED
  BY <1>0, <1>1, <1>3, <1>4, <1>5, <1>6, FailKeeps, GiveUpKeeps

\* A request that comes to another stage, no report being generated.
LEMMA PutKeeps ==
  ASSUME IInv, NEW m \in wire, NEW stage \in Stages \ {"ok"}, m.stage # "ok", Put(m, stage),
         UNCHANGED <<page, reports>>
  PROVE  IInv'
<1> DEFINE moved == [m EXCEPT !.stage = stage]
<1>0. /\ wire' = (wire \ {m}) \cup {moved}
      /\ moved \in [tool : Tools, attempt : Nat, stage : Stages]
      /\ moved.tool = m.tool /\ moved.stage = stage
  BY DEF Put, IInv, Shape
<1>1. Shape'
  BY <1>0 DEF IInv, Shape
<1>2. SentOnce'
  BY <1>0 DEF IInv, SentOnce
<1>3. StageTells'
  BY <1>0 DEF IInv, StageTells
<1>4. ResultLast' /\ ReportedOnce'
  BY <1>0 DEF IInv, ResultLast, ReportedOnce
<1> QED
  BY <1>1, <1>2, <1>3, <1>4 DEF IInv

\* The one call that generates a report is answered "ok".
LEMMA ReportKeeps ==
  ASSUME IInv, NEW m \in wire, m.stage # "ok", Put(m, "ok"), UNCHANGED page,
         \/ m.tool = Agent /\ reports' = [reports EXCEPT !.agent = @ + 1]
         \/ m.tool = Report /\ reports' = [reports EXCEPT !.page = @ + 1]
         \/ m.tool \notin {Agent, Report} /\ UNCHANGED reports
  PROVE  IInv'
<1> DEFINE moved == [m EXCEPT !.stage = "ok"]
<1>0. /\ wire' = (wire \ {m}) \cup {moved}
      /\ moved \in [tool : Tools, attempt : Nat, stage : Stages]
      /\ moved.tool = m.tool /\ moved.stage = "ok"
  BY DEF Put, IInv, Shape, Stages, Codes
<1>1. Shape'
  BY <1>0 DEF IInv, Shape
<1>2. SentOnce'
  BY <1>0, ToolNumbers DEF IInv, SentOnce, Shape
<1>3. StageTells'
  BY <1>0, ToolNumbers DEF IInv, Shape, SentOnce, StageTells
<1>4. ResultLast'
  BY <1>0 DEF IInv, ResultLast
<1>5. ReportedOnce'
  BY <1>0, ToolNumbers DEF IInv, Shape, SentOnce, StageTells, ResultLast, ReportedOnce
<1> QED
  BY <1>1, <1>2, <1>3, <1>4, <1>5 DEF IInv

\* The invariant is inductive.
LEMMA StepKeeps == IInv /\ [InvestigationNext]_investigationVars => IInv'
<1> SUFFICES ASSUME IInv, [InvestigationNext]_investigationVars  PROVE IInv'
  OBVIOUS
<1>1. ASSUME NEW targeted \in BOOLEAN, Start(targeted)  PROVE IInv'
  <2>1. /\ page' = [page EXCEPT !.phase = "waiting", !.targeted = targeted]
        /\ wire' = {Request(Agent, 0)} /\ reports' = reports
        /\ page.tool = Agent /\ page.result = Running
        /\ reports.agent = 0 /\ reports.page = 0
    BY <1>1, ToolNumbers DEF Start, IInv, SentOnce, ResultLast
  <2>2. /\ Request(Agent, 0) \in [tool : Tools, attempt : Nat, stage : Stages]
        /\ Request(Agent, 0).tool = Agent /\ Request(Agent, 0).stage = "sent"
    BY ToolNumbers DEF Request, Stages
  <2>3. Shape'
    BY <2>1, <2>2 DEF IInv, Shape
  <2>4. SentOnce' /\ StageTells'
    BY <2>1, <2>2, ToolNumbers DEF IInv, Shape, SentOnce, StageTells
  <2>5. ResultLast' /\ ReportedOnce'
    BY <2>1, ToolNumbers DEF IInv, Shape, ResultLast, ReportedOnce, Running, Result
  <2> QED
    BY <2>3, <2>4, <2>5 DEF IInv
<1>2. CASE AttemptFails
  BY <1>2, FailKeeps DEF AttemptFails
<1>3. CASE Resume
  <2>1. page.tool \in Tools \ {Agent, Report} /\ page.attempt + 1 \in Nat
    BY <1>3 DEF Resume, IInv, Shape, SentOnce
  <2> QED
    BY <1>3, <2>1, SendKeeps DEF Resume
<1>4. CASE Headers
  BY <1>4 DEF Headers, IInv, Shape, SentOnce, StageTells, ResultLast, ReportedOnce
<1>5. CASE Body
  BY <1>5, BodyKeeps
<1>6. ASSUME NEW m \in wire, TurnAway(m)  PROVE IInv'
  BY <1>6, PutKeeps DEF TurnAway, Stages, Codes
<1>7. ASSUME NEW m \in wire, HandleTool(m)  PROVE IInv'
  BY <1>7, PutKeeps, ReportKeeps, ToolNumbers DEF HandleTool, Stages, Codes
<1>8. ASSUME NEW m \in wire, AgentTriage(m) \/ AgentLookup(m)  PROVE IInv'
  BY <1>8, PutKeeps DEF AgentTriage, AgentLookup, Stages, Codes
<1>9. ASSUME NEW m \in wire, AgentScore(m)  PROVE IInv'
  BY <1>9, PutKeeps, ReportKeeps DEF AgentScore, Stages, Codes
<1>10. ASSUME NEW m \in wire, Lose(m)  PROVE IInv'
  BY <1>10 DEF Lose, IInv, Shape, SentOnce, StageTells, ResultLast, ReportedOnce
<1>11. CASE RecordChanges \/ UNCHANGED investigationVars
  BY <1>11
     DEF RecordChanges, investigationVars, IInv, Shape, SentOnce, StageTells, ResultLast,
         ReportedOnce
<1> QED
  BY <1>1, <1>2, <1>3, <1>4, <1>5, <1>6, <1>7, <1>8, <1>9, <1>10, <1>11 DEF InvestigationNext

THEOREM Invariance == InvestigationInit /\ [][InvestigationNext]_investigationVars => []IInv
<1>1. InvestigationInit => IInv
  BY InitEstablishes
<1>2. IInv /\ [InvestigationNext]_investigationVars => IInv'
  BY StepKeeps
<1> QED
  BY <1>1, <1>2, PTL

\* However often requests and answers are lost, late or sent again, each path of an
\* investigation generates at most one report, and a COMPLETE result stands for one
\* (the retry rule of _rest and the order of _run_investigation).
THEOREM OneReportPerPath == InvestigationSpec => []ReportedOnce
<1>1. IInv => ReportedOnce
  BY DEF IInv
<1> QED
  BY <1>1, Invariance, PTL DEF InvestigationSpec

\* No call is tried more often than its tool's retries allow; the page waits for a backoff
\* only when an attempt is left, and is done only with a result.
Tried ==
  /\ page.attempt <= RetriesOf(page.tool)
  /\ page.phase = "backoff" => page.attempt < RetriesOf(page.tool)
  /\ page.phase = "done" => page.result # Running
  /\ \A m \in wire : m.attempt <= RetriesOf(m.tool)

\* A request for an attempt its tool has.
LEMMA SendTried ==
  ASSUME IInv, Tried, page.phase # "done", NEW t \in Tools, NEW a \in 0 .. RetriesOf(t),
         Send(t, a)
  PROVE  Tried'
<1>1. page' = [page EXCEPT !.phase = "waiting", !.tool = t, !.attempt = a]
      /\ wire' = Lasting \cup {Request(t, a)} /\ Lasting \subseteq wire
  BY DEF Send, Lasting
<1>2. page'.phase = "waiting" /\ page'.tool = t /\ page'.attempt = a
  BY <1>1 DEF IInv, Shape
<1>3. \A m \in wire' : m.attempt <= RetriesOf(m.tool)
  BY <1>1 DEF Tried, Request
<1> QED
  BY <1>2, <1>3 DEF Tried

\* A result, of the agent or of the page.
LEMMA EndTried ==
  ASSUME IInv, Tried, NEW by \in {"agent", "page"}, NEW status, End(by, status)
  PROVE  Tried'
<1>1. /\ page' = [page EXCEPT !.phase = "done", !.result = Result(by, status)]
      /\ wire' = Lasting /\ Lasting \subseteq wire
  BY DEF End, Lasting
<1>2. /\ page'.phase = "done" /\ page'.tool = page.tool /\ page'.attempt = page.attempt
      /\ page'.result = Result(by, status)
  BY <1>1 DEF IInv, Shape
<1>3. page'.result # Running
  BY <1>2 DEF Result, Running
<1> QED
  BY <1>1, <1>2, <1>3 DEF Tried

LEMMA GiveUpTried ==
  ASSUME IInv, Tried, page.phase # "done", GiveUp
  PROVE  Tried'
<1>1. CASE page.tool = Agent
  <2>1. PICK t \in {InvestigateUser, Summary} : Send(t, 0)
    BY <1>1 DEF GiveUp
  <2>2. t \in Tools /\ 0 \in 0 .. RetriesOf(t)
    BY ToolNumbers, RetriesAssumption DEF RetriesOf
  <2> QED
    BY <2>1, <2>2, SendTried
<1>2. CASE page.tool # Agent
  BY <1>2, EndTried DEF GiveUp
<1> QED
  BY <1>1, <1>2

LEMMA FailTried ==
  ASSUME IInv, Tried, page.phase # "done", Fail
  PROVE  Tried'
<1>1. CASE Retryable(page.tool, page.attempt)
  <2>1. page' = [page EXCEPT !.phase = "backoff"] /\ wire' = Lasting /\ Lasting \subseteq wire
    BY <1>1 DEF Fail, Lasting
  <2>2. page'.phase = "backoff" /\ page'.tool = page.tool /\ page'.attempt = page.attempt
    BY <2>1 DEF IInv, Shape
  <2> QED
    BY <1>1, <2>1, <2>2 DEF Tried, Retryable
<1>2. CASE ~Retryable(page.tool, page.attempt)
  BY <1>2, GiveUpTried DEF Fail
<1> QED
  BY <1>1, <1>2

LEMMA TriedStep == IInv /\ Tried /\ [InvestigationNext]_investigationVars => Tried'
<1> SUFFICES ASSUME IInv, Tried, [InvestigationNext]_investigationVars  PROVE Tried'
  OBVIOUS
<1>0. page.attempt \in Nat /\ page.tool \in Tools
  BY DEF IInv, Shape
<1>1. ASSUME NEW targeted \in BOOLEAN, Start(targeted)  PROVE Tried'
  <2>1. /\ page' = [page EXCEPT !.phase = "waiting", !.targeted = targeted]
        /\ wire' = {Request(Agent, 0)}
    BY <1>1 DEF Start
  <2>2. page'.phase = "waiting" /\ page'.tool = page.tool /\ page'.attempt = page.attempt
    BY <2>1 DEF IInv, Shape
  <2>3. \A m \in wire' : m.attempt <= RetriesOf(m.tool)
    BY <2>1, RetriesAssumption DEF Request, RetriesOf
  <2> QED
    BY <2>2, <2>3 DEF Tried
<1>2. CASE AttemptFails
  BY <1>2, FailTried DEF AttemptFails
<1>3. CASE Resume
  <2>1. page.attempt + 1 \in 0 .. RetriesOf(page.tool)
    BY <1>0, <1>3, RetriesAssumption DEF Resume, Tried, RetriesOf
  <2> QED
    BY <1>0, <1>3, <2>1, SendTried DEF Resume
<1>4. CASE Headers
  <2>1. page' = [page EXCEPT !.phase = "reading"] /\ wire' = wire
    BY <1>4 DEF Headers
  <2>2. page'.phase = "reading" /\ page'.tool = page.tool /\ page'.attempt = page.attempt
    BY <2>1 DEF IInv, Shape
  <2> QED
    BY <2>1, <2>2 DEF Tried
<1>5. CASE Body
  <2>1. /\ page.phase # "done"
        /\ \/ \E by \in {"agent", "page"} : \E status : End(by, status)
           \/ page.tool \in Tools \ {Agent, Report} /\ Send(page.tool + 1, 0)
           \/ Fail \/ GiveUp
    BY <1>5 DEF Body
  <2>2. CASE page.tool \in Tools \ {Agent, Report} /\ Send(page.tool + 1, 0)
    <3>1. page.tool + 1 \in Tools /\ 0 \in 0 .. RetriesOf(page.tool + 1)
      BY <2>2, ToolNumbers, RetriesAssumption DEF RetriesOf
    <3> QED
      BY <2>1, <2>2, <3>1, SendTried
  <2> QED
    BY <2>1, <2>2, EndTried, FailTried, GiveUpTried
<1>6. ASSUME NEW m \in wire, TurnAway(m) \/ HandleTool(m) \/ AgentTriage(m)
                              \/ AgentLookup(m) \/ AgentScore(m)
      PROVE  Tried'
  <2>1. page' = page /\ \E stage : Put(m, stage)
    BY <1>6 DEF TurnAway, HandleTool, AgentTriage, AgentLookup, AgentScore
  <2>2. PICK stage : Put(m, stage)
    BY <2>1
  <2>3. [m EXCEPT !.stage = stage].tool = m.tool /\ [m EXCEPT !.stage = stage].attempt = m.attempt
    BY DEF IInv, Shape
  <2>4. \A n \in wire' : n.attempt <= RetriesOf(n.tool)
    BY <2>2, <2>3 DEF Put, Tried
  <2> QED
    BY <2>1, <2>4 DEF Tried
<1>7. ASSUME NEW m \in wire, Lose(m)  PROVE Tried'
  BY <1>7 DEF Lose, Tried
<1>8. CASE RecordChanges \/ UNCHANGED investigationVars
  BY <1>8 DEF RecordChanges, investigationVars, Tried
<1> QED
  BY <1>1, <1>2, <1>3, <1>4, <1>5, <1>6, <1>7, <1>8 DEF InvestigationNext

\* For every number of retries: no request on its way is an attempt its tool does not have,
\* and a result is told exactly when the page is done (_send, runInvestigation).
THEOREM AttemptsBounded ==
  ASSUME MaxChanges \in Nat
  PROVE  InvestigationInit /\ [][InvestigationNext]_investigationVars => []InvestigationTypeOK
<1> DEFINE Store == known \in BOOLEAN /\ changes \in 0 .. MaxChanges
<1>1. InvestigationInit => Tried /\ Store
  BY ToolNumbers, RetriesAssumption DEF InvestigationInit, Tried, RetriesOf
<1>2. Store /\ [InvestigationNext]_investigationVars => Store'
  <2> SUFFICES ASSUME Store, [InvestigationNext]_investigationVars  PROVE Store'
    OBVIOUS
  <2>1. CASE RecordChanges
    BY <2>1 DEF RecordChanges
  <2>2. CASE UNCHANGED <<known, changes>>
    BY <2>2
  <2> QED
    BY <2>1, <2>2
       DEF InvestigationNext, investigationVars, Start, AttemptFails, Resume, Headers, Body,
           TurnAway, HandleTool, Lose, AgentTriage, AgentLookup, AgentScore
<1>3. IInv /\ Tried /\ Store => InvestigationTypeOK
  <2> SUFFICES ASSUME IInv, Tried, Store  PROVE InvestigationTypeOK
    OBVIOUS
  <2>1. \A t \in Tools : RetriesOf(t) \in 0 .. Retries
    BY RetriesAssumption DEF RetriesOf
  <2>2. page.attempt \in 0 .. Retries
    BY <2>1, RetriesAssumption DEF Tried, IInv, Shape
  <2>3. page \in [phase : {"idle", "waiting", "reading", "backoff", "done"}, tool : Tools,
                  attempt : 0 .. Retries, targeted : BOOLEAN,
                  result : {Running} \cup [by : {"agent", "page"}, status : Statuses]]
    BY <2>2 DEF IInv, Shape
  <2>4. \A m \in wire : /\ m.tool \in Tools /\ m.stage \in Stages
                        /\ m.attempt \in 0 .. RetriesOf(m.tool)
    BY <2>1 DEF Tried, IInv, Shape
  <2> QED
    BY <2>3, <2>4 DEF IInv, Shape, Tried, ResultLast, InvestigationTypeOK
<1> HIDE DEF Store
<1>4. Tried /\ IInv /\ [InvestigationNext]_investigationVars => Tried'
  BY TriedStep
<1> QED
  BY <1>1, <1>2, <1>3, <1>4, Invariance, PTL

-------------------------------------------------------------------------------
(* What the agent reports, for every telemetry record *)

\* What the store flags as suspicious, an investigation finds an attack in: a flagged
\* record is never classified "Normal" (list_suspicious, classify_pattern).
THEOREM FlaggedAreAttacks == \A r \in T!Records : T!Flagged(r) => T!AttackDetected(r)
<1> SUFFICES ASSUME NEW r \in T!Records, T!Flagged(r)  PROVE T!Pattern(r) # "Normal"
  BY DEF T!AttackDetected
<1>1. ~T!Nominal(r)
  BY DEF T!Records, T!Flagged, T!Nominal
<1> QED
  BY <1>1 DEF T!Pattern

\* An assessment made of one reading of the record does not contradict itself: its
\* severity is MEDIUM exactly without an attack (_severity_from, _risk_from_record).
THEOREM SeverityTellsAttack ==
  \A r \in T!Records : T!Assessment(r, r).severity = "MEDIUM" <=> ~T!AttackDetected(r)
<1> SUFFICES ASSUME NEW r \in T!Records
             PROVE  T!Severity(T!RiskLevel(r), T!AttackDetected(r)) = "MEDIUM"
                    <=> ~T!AttackDetected(r)
  BY DEF T!Assessment
<1>1. ~T!AttackDetected(r) => T!RiskLevel(r) = "MEDIUM"
  <2>1. ~T!AttackDetected(r) => T!Nominal(r)
    BY DEF T!AttackDetected, T!Pattern
  <2> QED
    BY <2>1 DEF T!Nominal, T!RiskLevel, T!Records
<1>2. T!AttackDetected(r) => T!Severity(T!RiskLevel(r), T!AttackDetected(r)) # "MEDIUM"
  BY DEF T!Severity, T!RiskLevel
<1> QED
  BY <1>1, <1>2 DEF T!Severity

\* The confidence of a classification is a percentage (classify_pattern).
THEOREM ConfidenceIsPercentage == \A r \in T!Records : T!Confidence(r) \in 0 .. 100
<1> SUFFICES ASSUME NEW r \in T!Records  PROVE T!Confidence(r) \in 0 .. 100
  OBVIOUS
<1> DEFINE few == r.failed
           many == r.ips
           score == r.anom
<1>1. few \in Nat /\ many \in Nat /\ score \in 0 .. 100
  BY DEF T!Records
<1>2. \/ T!Confidence(r) = IF 50 + few < 97 THEN 50 + few ELSE 97
      \/ T!Confidence(r) = IF 40 + 10 * many < 95 THEN 40 + 10 * many ELSE 95
      \/ T!Confidence(r) = 100 - score
      \/ T!Confidence(r) = score
  BY Zenon DEF T!Confidence
<1> HIDE DEF few, many, score
<1>3. (IF 50 + few < 97 THEN 50 + few ELSE 97) \in 0 .. 100
  BY <1>1
<1>4. (IF 40 + 10 * many < 95 THEN 40 + 10 * many ELSE 95) \in 0 .. 100
  BY <1>1
<1>5. 100 - score \in 0 .. 100 /\ score \in 0 .. 100
  BY <1>1
<1> QED
  BY <1>2, <1>3, <1>4, <1>5

-------------------------------------------------------------------------------
(* The three side by side *)

\* What the parts of MCRequests do together is what each does, with the others at rest.
LEMMA RequestParts ==
  MCSpec => /\ Init /\ [][Next]_vars
            /\ NetworkSpec
            /\ InvestigationInit /\ [][InvestigationNext]_investigationVars
<1> DEFINE all == <<vars, networkVars, investigationVars, part>>
<1>1. MCInit => Init /\ NetworkInit /\ InvestigationInit
  BY DEF MCInit
<1>2. [MCNext]_all => [Next]_vars
  BY DEF MCNext
<1>3. [MCNext]_all => [NetworkNext]_networkVars
  BY DEF MCNext
<1>4. [MCNext]_all => [InvestigationNext]_investigationVars
  BY DEF MCNext
<1> QED
  BY <1>1, <1>2, <1>3, <1>4, PTL DEF MCSpec, NetworkSpec

\* The locks and groups of the model loader, the published network models, and the requests
\* of an investigation have their types in every state the three reach.
THEOREM RequestsTyped ==
  ASSUME MaxChanges \in Nat
  PROVE  MCSpec => []TypesOK
<1>1. InvestigationInit /\ [][InvestigationNext]_investigationVars => []InvestigationTypeOK
  BY AttemptsBounded
<1>2. TypeOK /\ NetworkTypeOK /\ InvestigationTypeOK => TypesOK
  BY DEF TypesOK
<1> QED
  BY <1>1, <1>2, RequestParts, LocksHeldByLoaders, NetworkTyped, PTL
===============================================================================
