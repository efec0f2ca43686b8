# CyberGuard: TLA+ models and proofs

CyberGuard is a FastAPI service (`src/cyberguard_api/`) that classifies logins and network flows
with machine-learning models, keeps demo incidents, defends its own authentication paths, and
serves a React dashboard (`src/frontend/`) whose "WebMCP bridge" lets a page or an agent call its
tools. This directory models the parts whose correctness depends on *order*: coroutines and
threads sharing state across `await`s, requests that time out while the server goes on, locks and
queues, shutdown, and long sequences of legal calls. TLC checks the models on small instances; TLAPS proves the
main safety properties for every value of the constants.

`PROJECT.json` lists runs, mutants (one plausible bug per property that the property must catch),
the source lines of every definition, hazards and findings. Paths below are relative to `src/`;
`api/` stands for `cyberguard_api/` and `defense/` for `cyberguard_api/security/auth_defense/`.

## 1. Inventory

| Component (code) | State | Operations | What is hard | Model |
|---|---|---|---|---|
| Inference pool (`api/main.py` 89-143, 299-320) | semaphore, thread pool, futures | `_run_inference`: admit, wait with a deadline, time out, cancel; shutdown | a thread cannot be cancelled: slots outlive their request | `InferencePool`, `AdmissionControl` |
| Lazy model loading, readiness (`api/main.py` 273-297, 455-560, 662-700) | three groups of artifacts, their locks, the store's health | eager load, `_ensure_*_models`, `/readyz` | racing first callers, failing loads, a gate that waits for traffic and for the telemetry store | `ModelReadiness` |
| Network detector (`api/services/network_detector.py`) | module globals, `_LOAD_LOCK` | load, forced reload, classify | double-checked locking, readers without the lock | `NetworkModels`, `InferenceRoutes` |
| Inference routes (`api/main.py` 480-655) | none | three routes around the pool | which failure becomes which status, rounding | `InferenceRoutes` |
| Model loader and startup (`api/services/model_loader.py`, the lifespan, `security/init_security.py`) | manifest, what was started | the startup's checks, verified loading, the shutdown | files replaced between hashing and unpickling | `StartupGate` |
| Gateway and observability (`api/gateway.py`, `api/observability.py`) | admin sessions, keys, one request's messages | login, logout, expiry, body limit, headers, counting | shared cookies; a body rejected while the answer is written | `AdminSession`, `EdgePipeline` |
| Security decision engine (`api/services/security_decision_engine.py`, `api/security_routes.py`) | incidents, access states, login events, audit log | assess a login, deny, restore | four stores written by separate assignments must tell one story | `SecurityDecision` |
| Admin console (`frontend/app.jsx`) | polled queue, dialog, pending request | poll, select, confirm, abort after 8 s | stale queue, late answers, two clients | `SecurityConsole` |
| WebMCP bridge (`frontend/webmcp_bridge.js`) | the page's current call and its retries | `_send`, `_rest`, `runInvestigation` | timeouts, retries, fallback beside a server that goes on | `Investigation` |
| Agent loop and tool routes (`api/services/agent_controller.py`, `api/routes_webmcp.py`) | none of its own; reads the telemetry store | triage, look-up, score, report | the record changes between awaits | `Investigation` |
| Telemetry store (`api/services/telemetry.py`) | demo records, or an upstream's answers | summary, suspicious users, projection, classes | masking, two readings of one record | `TelemetryProjection` |
| Auth middleware (`defense/integration.py`) | the managers it creates | dispatch: five layers, the handler, what is recorded | check before / record after, exclusions before protections | `AuthDispatch` |
| Rate limiter (`defense/layer1_ratelimit/rate_limiter.py` 40-240) | per identifier: window, counts, penalty | check, record | check and record are separate steps | `RateLimiter`, `LimiterSpan` |
| Token buckets (same file 244-400; `security/layer3_perimeter/api_security.py` 45-160) | a bucket in Redis, one per node, a hierarchy | consume, script, fall back, refill | clocks read before Redis is called, failures after the script ran | `TokenBuckets` |
| Bot detection (`defense/layer2_botdetection/`) | table of challenges | score, challenge, verify, clean up | answers sent again | `BotDetection` |
| Credential intelligence (`defense/layer3_credintel/`) | breach cache, devices, journeys | assess a login | fetches that overlap, fail and come late | `CredentialIntel` |
| Lockout (`defense/layer4_mfa/step_up.py` 551-690) | per account: state, failures, timer | check, record, unlock, quarantine | logins in flight when the account locks | `Lockout` |
| MFA and step-up (same file, 293-548, 691-769) | enrollments, challenges, step-up requests | enroll, challenge, verify | awaited senders, several challenges in one call | `StepUp` |
| Event telemetry (`defense/layer5_telemetry/telemetry.py` 60-470) | audit log, buffer, flush loops | append, stream, flush, start, stop | batches, periodic loops and shutdown on one lock | `TelemetryPipeline`, `EventDelivery` |
| SOAR engine (same file, 480-760) | per rule: recent events, executions | process an event, run a playbook | cooldown checked before and recorded after awaits | `SoarEngine` |
| Security registry, SIEM log, identity (`security/core`, `layer5_siem`, `layer1_identity`) | tokens, entities, hash chain, subscribers | authenticate, authorize, secured operation, emit | an operation that raises between two of its records | `ZeroTrust`, `OdacPolicies` |
| Containment (`security/layer2_runtime/containment.py`) | sessions, processes, policies, executions | orders under a lock, policies with a cap | a lock held through half a second, cap read before awaits | `Containment` |
| Runtime telemetry (`security/layer2_runtime/telemetry.py`) | one sampling loop, baselines, events | start, stop, sample, record | a start while a stop waits | `RuntimeCollector` |
| RASP, WAF, egress, schema validation; MCP stdio server; infrastructure | pattern tables, rules | inspect | no caller in the repository, or stateless glue | not modelled |

How the parts interact. A request passes the edge (`EdgePipeline`), then the middleware (`AuthDispatch`: rate
limiter, bots, credentials, lockout) *before* its handler and is recorded *after* it, so every other
request can run in between: this one fact drives `AuthDispatch`, `RateLimiter` and `Lockout`. Its outcome
is an event: `TelemetryPipeline` appends it to the audit log and streams it, `SoarEngine` feeds it to the
playbooks; both await endpoints or handlers while others run. An inference request first makes sure that
its models are loaded (`ModelReadiness`, and in the pool's threads `NetworkModels`) and then competes for
a slot (`InferencePool`). The console and the bridge talk to the server over HTTP with client-side
timeouts: the server never learns that a page gave up (`SecurityConsole`, `Investigation`). The lifespan
(`StartupGate`) starts and stops the rest. All server state is in one process's memory, the shared token
bucket in Redis excepted, and nothing is persisted, so there is no crash recovery to model.

Correctness, per component: no slot leaks or is returned twice and nothing queues behind an
abandoned call; models are loaded once, never seen half-published, and become ready, and production serves
only verified ones; the four stores of the decision engine agree; a toast stands for a denial of its own;
an ended session lets nobody through; a client gets one answer and the application no body beyond the cap;
limits, buckets and lockouts are overshot by no more than what is in flight, and end; two windows' worth of requests at most
pass in one window's length; the outcome recorded
of a request is the one its client saw; a breach verdict is fresh and a challenge is solved once; a step-up
accepts only codes that were sent, and those; audited events reach every endpoint, in order and once; playbooks
and containment policies run when due, within their cap; no secured operation acts unrecorded; an
investigation ends and registers at most one report per path.

## 2. How the project was planned

In the order of what every request passes: the pool and the models; the decision engine and its console;
limiter, lockout, step-up; telemetry and playbooks; the bridge and the agent; then the edge, sessions,
the middleware's dispatch, the shared buckets, credentials and bots; then the registry, containment,
startup and the runtime collector. Modules are written to be proved about: parameters are CONSTANTS with
named assumptions, one action per operation, invariants are conjunctions of named parts, and no module
declares a RECURSIVE operator.

Components that share no variable are checked together by one MC module, which picks in the initial state
the `part` that runs while the others rest (see section 4): the number of runs is the number of questions.
`InferencePool` is shown to implement `AdmissionControl`, the abstract specification of bounded admission, and
`TelemetryPipeline` to implement `EventDelivery`, a log that is told to every endpoint in its order and once.

Left for whoever goes on: an at-most-once call as the abstract specification of `Investigation`; the session
revocation of `step_up.py`; the perimeter's WAF and egress controller once the application calls them.

## 3. Modules and code

One action is one uninterrupted stretch of code: for coroutines from one `await` to the next, for
a method under a lock its whole body, for pool threads one statement where the interleaving
matters (`NetworkModels`), for the browser from one callback to the next. Time is counted in ticks, and
instants are kept as the time left or elapsed. Data is reduced to what the guards compare: a model
artifact is the number of the load that made it, a risk score is a boundary value, a code is the
challenge it was sent for, an event is its position in the audit log.

- **`InferencePool`** follows `_run_inference`: `Arrive`, `Admit` or `RejectSaturated`
  (the semaphore, 503 after its timeout), `StartTask` / `FinishTask` (the pool's threads),
  `Deliver`, `TimeOut` (the request is answered 504, the done-callback keeps the slot),
  `AbandonedDone`, `OrphanDone` (a cancelled request's thread ends), and the lifespan: `Stop`,
  `CancelRequests`, `ShutdownPool`, `Drained`. While `shutdown(wait=True)` runs nothing else runs
  on the loop (`LoopRuns`). `AdmissionControl` is what it promises: at most `Capacity` inside, and
  everybody inside leaves.
- **`ModelReadiness`** has per group `loaded`, `lock` and whether the artifacts are `intact`;
  requests check, wait, check again and load. `Ready` is what `/readyz` answers 200 by: every group is
  loaded and the telemetry store, which comes and goes (`StoreChanges`), is healthy. `Gated` is a deployment that
  routes traffic by it. **`NetworkModels`** expands the network group: every global published or reset is a
  step, and readers pass through them without the lock.
- **`SecurityDecision`**: `AssessLogin`, `DenyAccess`, `RestoreAccess`; each is one synchronous
  engine method, incident creation and audit entries included. **`SecurityConsole`** adds `Poll`,
  `OpenDialog`, `Confirm`, `HandleDeny`, `Answer`, `Abort` and `HandleLate` (the server works on
  a request the page has abandoned).
- **`Investigation`**: `Start`, `Headers`, `Body`, `AttemptFails`, `Resume` are `_send` and
  `runInvestigation` with its fallback (`GiveUp`); `AgentTriage`, `AgentLookup`, `AgentScore` are the
  stretches of the agent loop between awaits; `HandleTool` and `TurnAway` are the tool routes and
  the checks before them; `Lose` and `RecordChanges` are the network and the upstream store.
  The reads of the triage are one step, because only the list of suspicious users depends on the
  record. A read request the page no longer waits for is dropped, because it leaves nothing behind.
- **`RateLimiter`**, **`Lockout`**: `Allow`/`Deny` and `Admit`/`Refuse` are the check, `Succeed`,
  `Fail`, `Drop` the record (`Drop`: the handler raised and nothing is recorded), `Tick` the clock.
  **`LimiterSpan`** watches the limiter from outside: a stopwatch begins at any moment (`Begin`), counts the attempts
  recorded (`CountAttempt`) and ends one length of the window later (`Elapse`), so `BurstBounded` is about every such
  span and not only about the windows the code counts in.
- **`StepUp`**: enrollment, `Evaluate` (the methods required), `CodeSent` / `SendFails` at each awaited
  provider, `VerifyStepUp` with all answers of one call, `Expire`. A response may name any challenge there is for a
  method (`Replies`): one of another method, another step-up or another user, or one accepted before, as
  `verify_step_up` takes them. A code is the challenge it was sent for, so `by` tells what an accepted answer was.
- **`TelemetryPipeline`**: `Record` (append to the audit log, queue for the buffer's lock), `Buffer`, `SendBatch` (one
  endpoint awaited at a time), `Wake` / `LoopFlush` for each flush loop, `StartAgain`, `Stop`,
  `StopReturns`. `line` is the FIFO of asyncio's lock. **`EventDelivery`** is what it promises: events are
  recorded, and each endpoint is told the next one it was not told of. **`SoarEngine`**: `Process`, `Act` (one awaited
  handler), `Finish`, and `Age` / `CoolDown` for the windows.

- **`AuthDispatch`**: `Arrive` (which paths are guarded), `RateLimiting`, `BotCheck`, `CredentialCheck`,
  `RefuseLocked` / `Admit` are the layers in their order, `AnswerLogin`, `Handled` and `HandlerRaises` the handler
  and what is recorded after it. The layers' verdicts are choices here; their modules make them.
- **`TokenBuckets`**: `Connect`, `Consume` (the time is read), `RunScript` (Redis), `Reply`, `FailsBefore`
  and `FailsAfter` (the call fails, its script not run or run) and `TakeLocal`; `CheckTiers` is the perimeter's hierarchy.
- **`AdminSession`**: `Login`, `Me`, `Logout`, `Share` (another window with the same cookie), calls with and
  without keys, `SessionTick`. **`EdgePipeline`** is one request: `Declared` / `Enter`, `ClientSends`,
  `Receive`, `Disconnect`, `Begin`, `Write`, `Return`, `Raise`. A part that goes over the cap becomes `http.disconnect`;
  later ones are passed on to an application that reads on (`ReadsOn`, `Reads`), and a cap of 0 or less is none (`Limited`).
- **`StartupGate`**: one action per step of the lifespan (keys, store, location, signature, verification,
  serialization, security, models), `Hash` and `Unpickle` for each artifact, `Replace` by whoever deploys,
  and the shutdown in its order.
- **`CredentialIntel`**: `CheckCached`, `Ask`, `ServiceReads`, `Arrives`, `Unavailable` around the cache,
  `Leak` (a password enters the corpus), and operators for reputation, journey, device and risk.
  **`BotDetection`**: operators from a fingerprint to a verdict, and the table of challenges.
- **`ZeroTrust`** over **`OdacPolicies`**: `IssueToken`, `RevokeToken`, `RefuseToken`, `Authorize`, `Complete`,
  `Fail`; each emits to the hash-chained log, if one is registered (`Emit`), and, unless a registered collector makes it raise, to
  the subscribers. `Registrations` are the processes considered: the application registers the collector only.
- **`Containment`**: `Effect` (an order), `SendTerm` and, half a second later, `SendKill` with the lock held all the while,
  for a caller (`CallTerminate`) or for a run; the kernel may answer either with an error; `Abandon` (a cancellation in the
  pause or at the lock), and a policy's `Evaluate`, `Execute`, `RecordRun`.
- **`RuntimeCollector`**: `StartCollector`, `Round` (one pass of the sampling loop, with whatever psutil refuses),
  `Stop`, `Cancelled`, `StopReturns`, and what others record.
- **`TelemetryProjection`**, **`InferenceRoutes`**, **`OdacPolicies`** are pure operators: what is made of a
  record, a score, a subject. `MCServer`'s ASSUMEs compare them with what comments and names of the code
  say of samples (the demo records are what their comments call them, masks hide, a forged forwarding
  header is ignored), and theorems say more of some of them for every input.

`MC*` modules are the instances. `MCRequests`, `MCServer`, `MCAccount` and `MCEvents` each hold several
components that share no variable: they EXTEND some, INSTANCE the others and pick in the initial state which
`part` runs; the other parts rest, so nothing is multiplied and nothing is lost. The operators marked "Slip" are
the mutants: the definition after them, with one mistake.

## 4. Runs

| Run | Parts and bounds | What it shows |
|---|---|---|
| `pool` | 3 requests, 2 slots | `SlotAccounting`, `DrainedMeansIdle`, `EveryRequestAnswered`, `SelfHeals`, and the refinement `ImplementsAdmission` with its liveness |
| `requests` | readiness: 2 requests over 3 groups, artifacts repaired and the store lost and back; network: 3 threads, 1 forced reload, 1 failure; investigation: 2 retries, 2 changes of the store | `LoadsOnce`, `NeverHalfInitialised`, `BecomesReady`; `ReportedOnce`, `Settles` |
| `server` | console: 2 users, 1 console, scores 29 and 80, 3 logins, 1 abandoned request on its way | `ContainmentBacked`, `AuditTellsContainment`, `IncidentLifecycle`, `QuietWhileContained`, `OneDenialPerToast` |
| | buckets: 2 nodes, capacity 2, 1 tick; a hierarchy of 2 over 1 | `BudgetHeld` |
| | session: 2 tokens, 2 windows, lifetime 2, four settings | `EndedStaysEnded` |
| | edge: cap 2, parts of 1 and 2 bytes, at most 4 bytes, an application that stops at a disconnect | `EdgeHolds` (`OneAnswer`, `CapHolds`) |
| | gate: 2 artifacts, 10 environments, 2 replacements | `ServesVerified` |
| | trust: collector, audit log or both registered; 1 token, 2 operations, 2 clearances, 2 kinds of resource, a log of 4 | `TrailComplete` |
| | contain: 2 runs and 1 caller who may each terminate a process, 2 policies with caps 1 and 2, alerts with and without a process | `ContainmentBounded` |
| | dispatch: 3 requests of one client, threshold 2, three sets of layers | `OutcomesAgree` |
| | intel: 2 logins, 2 passwords of one prefix, lifetime 2, longest fetch 1 | `VerdictFresh` |
| | bot: 2 challenges, lifetime 2, three fingerprints | `SolvedOnce` |
| | runtime: 3 starts, 2 callers of stop, 3 events | `OneSampler` |
| `account` | lockout: 3 logins, threshold 3, durations 1, 2, 4; limiter: 3 requests in flight, limit 3, window 2, penalties 1 to 3; step-up: 1 user, 2 step-ups, e-mail and authenticator, 2 enrollments, 2 attempts | `FailuresBounded`, `LockHolds`, `LockEnds`; `LimiterHolds` (`OvershootBounded`, `BurstBounded`, `PenaltyMatchesLevel`), `LetThroughAgain`; `StepUpDecides` |
| `events` | 2 requests, 2 endpoints, batches of 2, 2 starts, 4 events; 2 tasks, the six default rules with thresholds of at most 3, cap 1, an impossible travel and a bot without a user | `AuditKept` (`AuditOrder`, `Accounted`, `StopFlushes`), `AllOffered` (the refinement `ImplementsDelivery` with its liveness, and `ProcessingEnds`); `CapOvershootBounded`, `PlaybooksRun` (`LastGroupRuns`, `HonestSuccess`) |
| `models_gate` | lazy loading, traffic routed by readiness | violates `GateOpens` (finding 1) |
| `limiter_decay` | | violates `PenaltyDecays` (finding 2) |
| `step_up_codes` | two code methods | violates `OwnCodesAccepted` (finding 3) |
| `telemetry_stop` | two starts | violates `NoLoopLeft` (finding 4) |
| `soar_default` | the default rules | violates `EveryRuleRuns` (finding 5) |
| `protected_routes` | main.py's excluded paths | violates `ProtectedAreGuarded` (finding 6) |
| `emit_delivers` | the collector registered, as by `init_security.py` | violates `EmitDelivers` (finding 7) |

Every passing run also checks the type invariants of its parts (`TypeOK` or `TypesOK`).

Why the bounds are enough. Two slots and three requests give full, overfull and recovering pools
with an abandoned call in each; identities are reused, so behaviours are unbounded. Three threads
are a loader, a reader of the half-published set and a reloader. Three logins let one user be contained,
restored and contained again, or two users interleave; the scores are the two sides of the
thresholds that matter; one abandoned request at a time is enough for a late denial to race a new one. The limiter's and
the lockout's thresholds are at least 2 and at most the number of requests in flight, so both the overshoot
and the plain path occur, and the durations 1, 2, 4 tell each index of the list apart. The bound of `BurstBounded` is
reached: with a window of 2 ticks, a span can begin in the last tick of a full window. Four events
are two full batches; two starts are what the process does (`api/security/init_security.py:131`,
`integration.py:111`). Two changes make the user's record vanish and return. Two step-ups of one user have challenges of both
kinds to name in each other's place, and a second attempt after an accepted one. A bot event without a user is the one whose
playbook the default rules do run, with handlers that all work, so an execution that is a success occurs beside the ones
that fail. Two nodes with one tick run
their scripts in the other order than their times; a body of at most twice the cap goes over it in its first, second or
third part, before, while and after the answer begins; two sessions and two windows let one cookie outlive
the other; the environments contain each way a deployment can be unsound, one at a time; three requests reach a threshold of two
while one is in flight; three starts let two collectors be stopped while a third begins. Two unrelated
parts never need a joint instance, because neither reads the other's state.

The `server` run is a sum of parts: the console and containment make nearly four hundred thousand states each, the others
between some hundred and fifty thousand. Of the `events` run's, SOAR makes all but some hundred.

`CHECK_DEADLOCK FALSE` is used where the system may stop: after a shutdown, at the end of an
investigation, when the bounded number of logins, events or enrollments is used up.

### Findings

A run shows each on one instance. The theorems named here show for every value of the constants what it comes
from and, but for the second, under which configuration the code keeps its promise.

1. With `/readyz` as the traffic gate ("503 until every ML artifact has loaded", `api/main.py:662`)
   and lazy loading, the default, no request ever asks for the models and the gate stays shut
   (`GateStaysShut`), however healthy the telemetry store is that `/readyz` asks too; with the eager load, and fine
   artifacts, it is open exactly while that store is healthy (`EagerLoadOpens`).
2. `penalty_decay_minutes` is described as "Reduce penalty level after this time"
   (`rate_limiter.py:48`), but time alone never lowers the level: above 0 it stays there as long as
   requests are only checked (`PenaltyStays`).
3. All challenges of a step-up share one dictionary, so the code sent second overwrites the
   expected one of the first, which is then rejected (`step_up.py:415`). A step-up that requires two methods with codes
   never accepts the user's own for them (`TwoCodesRefused`), one that requires at most one does (`DecideRightly`).
4. The telemetry manager is initialised twice and `stop` awaits only the second flush loop. A manager
   started once leaves no loop behind (`StartedOnceEnds`).
5. The SOAR engine's second loop uses the group key the first one left behind, so of the default
   rules only those grouped like the last one ever run (`telemetry.py:645`). Where the group left behind is none
   of a rule's own, its playbook never runs (`CutRulesNeverRun`); where every rule's is, every playbook due does (`OwnKeyedRulesRun`).
6. `excluded_paths` contains "/" and excluded prefixes are tested first, so with main.py's
   configuration the auth middleware guards no route, the ones it lists as protected included
   (`api/main.py:378`, `integration.py:157`). With the root excluded, no request is watched by any layer whatever the rest of
   the configuration says (`RootExcludesAll`); as long as no protected path starts with an excluded one, each is guarded
   (`GuardedUnlessExcluded`).
7. The runtime collector, the one layer the application registers to be told of events (`init_security.py:90`), has no
   `collect`; `SecurityRegistry.emit` appends to the audit log, if there is one, then calls it and raises, and no subscriber
   is told (`core/registry.py:158-163`): never, of anything, and no secured operation gets in
   (`CollectorSilences`). Without the collector every operation is told (`DeliversWithoutCollector`).

### Other disagreements met, without a run

- The rate limiter's window is fixed, not sliding as its name says (`rate_limiter.py:140`): what passes in a window's
  length is not bounded by the limit but by twice as much (`BurstBounded`).
- "Audit log and telemetry manager initialized" (`init_security.py:124`): nothing calls `register_audit_log`, so in the
  application no operation leaves a trail; it does not get in either, because of finding 7. `TrailComplete` says both, and what
  an audit log keeps where a process registers one. `secured_operation` has no caller in the repository.
- "Verify all step-up challenges." (`step_up.py:755`): the response says which challenge stands for a required method, and
  `verify_challenge` (462-490) compares neither the method, the step-up or the user, nor whether it was accepted before. One
  challenge can stand for two methods, so `StepUpDecides` claims no proof of each method: only that nothing but codes that
  were sent, or an authenticator's, is accepted. `verify_step_up` has no caller in the repository.
- A forced reload publishes globals under running readers; the promise at
  `network_detector.py:135` holds without reloads, which is how `NeverHalfInitialised` states it.
- The first lockout already uses the second duration of its list (`step_up.py:591`, 556).
- Default SOAR handlers have signatures the engine does not call them with, so their playbooks
  never report a success (`telemetry.py:719`, `integration.py:134`).
- A code is sent to the first enrollment of a method even if another one is the verified one
  (`step_up.py:426`).
- The console's confirmation acts on the user's oldest active incident, not on the selected one
  (`app.jsx:131`, `security_decision_engine.py:154`).
- The bridge promises to fall back when the agent endpoint "is unreachable / errors"
  (`webmcp_bridge.js:634`); the agent turns its own errors into a 200 with `{"status": "ERROR"}`
  (`agent_controller.py:56-73`), which the bridge returns as it is. `Investigation` has it so.
- For a user without a record the agent says `TARGET_NOT_FOUND`, the fallback `ERROR`.
- `agent_controller.py:160` says scoring reads the projected counts; `arisk_score` reads the store
  again, and may see another record or none (then the investigation ends with `ERROR`).
- The bridge clears its timer when the headers arrive (`webmcp_bridge.js:489`): a body that stalls
  is waited for without a bound.
- The breach cache is keyed by the hash's prefix and keeps one verdict per prefix ("Verify suffix match",
  `credential_intel.py:159`): another password of the same prefix gets that verdict. Failed fetches are
  cached as "not breached" for a day. `VerdictFresh` is therefore about a verdict's age, not about whose it is. The
  client's timeout bounds the connection and each read (`credential_intel.py:142`, 171), not the fetch: that a fetch takes at most
  `LongestFetch` is assumed of the service.
- An application that reads on after `http.disconnect` is handed what comes after the overflow (`gateway.py:515-525`).
  Starlette's does not; `CapHolds` assumes so.
- "First device is trusted" (`credential_intel.py:472`): it is the second registration that is trusted.
- "Add HSTS ... to every response" (`gateway.py:440`): the 413 of the body limit and the framework's own 500 lack
  the headers, because they are made outside of that middleware.
- The bot detector looks for "Paste + no keystrokes" only where keystrokes were reported
  (`bot_detector.py:717`); behavioural challenges cannot be verified; mobile browsers' agents are never
  recognised as mobile; the entropy of a movement can raise.
- The middleware's mitigations use `MitigationAction`, which it does not import (`integration.py:277`); `enable_telemetry`
  decides whether limiter and lockout are told of an outcome at all; a step-up is asked only of users with
  a verified method.
- The tiers of the perimeter's limiter charge the outer buckets before an inner one refuses.
- The SIEM's `verify_chain` looks at a list nobody fills; a secured operation that fails emits its ALLOW
  first; the containment callback emits an undefined `event`; the default auto-containment policy is a
  dict where the engine expects an object; a policy's "cooldown" is a cap per cooldown window;
  `register_session` lifts an isolation.
- The policy on consent for personal data never matches; `revoke_token` of the provider does nothing; the policy engine
  keeps the first description of a resource it saw.
- A rounded `attack_score` "returned so a consumer can re-derive detection" (`api/main.py:589`) can re-derive a detection that
  was none, and miss one if the threshold has more than four decimals and is rounded down itself; for all others none is
  missed (`DetectionRederived`). An integer too large for a float ends as 500, not 422.
- The WAF's rate limit replaces a block and allows the request (`waf.py:398`), though line 386 says
  "most restrictive wins"; the RASP engine never stores an event.

## 5. Fairness

Each module's `Fairness` comment says what it asks. In general: a coroutine that can run, a timer
that is due, a started handler or load that is bounded, are weakly fair. Strong fairness is used
only for waiters of FIFO queues (the pool's work queue, asyncio locks, `threading.Lock` in
`ModelReadiness`), which others may overtake in the model but not for ever in the code. Nobody is made to send
requests, except where the property is about somebody who does: `Traffic` (clients that go on
asking), the limiter's and the lockout's "goes on trying". Of the telemetry store nothing is asked: that it stays healthy
from some time on is a hypothesis of `BecomesReady` and `GateOpens`. `StepUp` has no liveness property and no fairness.
`SoarEngine` assumes that handlers return or raise, `TelemetryPipeline` that a send ends (the client's timeout). `Investigation`
asks nothing of the server, and of the browser that timers fire and that a body whose headers
arrived ends or breaks; without the latter `Settles` does not hold, see above.

## 6. Proofs

All theorems hold for every value of the constants under the named assumptions of the modules
(finite sets of requests, positive sizes; `RetriesAssumption` is `Retries \in Nat`). Each state
property is proved from an inductive invariant: it holds initially, every action keeps it, it implies the property.

- **`InferencePoolProofs`**: `TypeCorrect`, `SlotsAddUp`, `DrainIsComplete`, `NoQueueing`,
  `AdmissionRefined`. `SlotAccounting` is not inductive by itself: the invariant adds where a call can be
  for each state of its request (`Placed`), that a cancelled request still has its call only after the shutdown began
  (`CancelledLate`), what the drain implies (`DrainedInv`) and `NeverQueues`. The refinement is of the
  safety part: initial states map to initial states, each step to `Enter`, `Leave` or a stutter.
- **`ModelLoadingProofs`**: `GroupsLoadOnce` (`LoadsOnce`) from `LoadInv`: a group's lock is held exactly by the
  request that loads it, and by nobody once it is loaded. `NetworkWhole` (`NeverHalfInitialised`) from `NetworkInv`:
  without a forced reload the globals are one set or being written by the lock's owner, and every load but the
  first is counted as forced. `GateStaysShut`, `EagerLoadOpens` (`GateOpens`, as far as it needs no fairness: what was loaded
  stays loaded). `DetectionRederived`, `OverrideSparesBot`: what is made of the scores; for the first, scores are numbered
  in their order, `Units` of them to a ten-thousandth, and rounding is monotone. The investigation:
  `Invariance`, `OneReportPerPath`: calls with a side
  effect are sent once (`SentOnce`: one message each, no backoff for them), a report exists exactly
  when its one call is answered "ok" (`StageTells`), and a result comes last (`ResultLast`).
  `FlaggedAreAttacks`, `SeverityTellsAttack`, `ConfidenceIsPercentage`: what is reported of every record.
- **`SecurityDecisionProofs`**: `TypeCorrect`, `ContainmentHeld`, `AuditTells`, `ContainedIsQuiet`,
  `IncidentsLive`: all the properties of the decision engine the runs check. The type invariant supplies that every incident named
  exists, which containment needs at a second denial; the properties of the log are inductive together
  with `ContainmentBacked`, because each operation appends its entry beside its assignments.
  `ToastsAreOwn` (`OneDenialPerToast`), for every number of consoles, from `ConsoleInv`: who waits for an incident, waits for
  one that exists (`ConsoleShape`), and a denial that is granted adds one entry to the log and one console that may show a toast.
- **`LimitProofs`** (limiter, lockout, step-up). `LimiterHeld`, with `Overshoot`, `SpanBounded` and `PenaltyConsistent` as
  its parts: with the types of the counters (`Counters`) the overshoot is inductive: a request becomes pending only below the limit, and
  recording it moves it from pending to the count. `SpanBounded` (`BurstBounded`) needs more (`SpanInv`): while the window
  in which the span began is still open, what passed is at most what that window counted; once it has been reset, which happens
  no more than once before a length of the window is over, at most what the new window counted and what the old one could.
  `TypeCorrect`, `Bounded`, `Holds` of the lockout: the type invariant carries that an
  active account is below the threshold and has no timer; `Holds` is an action property and
  follows from it step by step.
  `StepUpsDecide` (`StepUpDecides`) from `StepUpInv`: challenges stand in the order of the required methods (`InOrder`),
  none of a code method exists before some code was sent in its step-up (so nothing is compared with the empty code), what was
  accepted was sent or shown (`CodesOnly`), and with one code at most the expected one is that challenge's. A call of
  `verify_step_up` is followed reply by reply (`Progress`), whatever challenges they name. Its hypotheses, one code provider at most and triggers that ask for
  whatever can be enrolled, are what makes a step-up require at most one code and no method twice; `DecideRightly` needs none: the part about
  what is accepted holds of every step-up, the other of each of that kind. With two code methods it is false (finding 3). `Among`, which picks members of a
  sequence, counts places, so that its result can be reasoned about without recursion (`AmongPlaces`, `Ranks`).
- **`DeliveryProofs`**. `AuditIsKept` (`AuditKept`) from `PipeInv`: the log is what an endpoint was offered, the batch unless it was,
  the buffer and the waiting requests' events, in this order (`SentFirst`, `BatchNext`, `BufferNext`, `WaitingLast`), because
  the lock's line has the requests in the order of their events (`Lined`). `Accounted` then is a bijection between the requests
  that wait and the positions not taken yet. `DeliveryRefined` is the safety part of the refinement: a send that ends
  tells one endpoint of the batch's events one after the other, every other step records one event or stutters.
  The SOAR engine: `OvershootBounded` (`CapOvershootBounded`): executions that count and tasks that act stay below the
  cap plus the tasks. `PlaybooksDone` (`PlaybooksRun`): the actions that are left of a playbook are the last ones
  of its rule, and its success so far means that those before could be called (`OkTells`); what was owed is on its
  way through the rules to the playbook, whatever the other tasks do.
- **`DispatchProofs`**. `BudgetsHold`: what a token bucket granted plus what it holds never exceeds its capacity
  and the refill up to its last time, and no time in a request in flight is later than now: scripts with older times refill nothing.
  `CountsAgree`: `OutcomesAgree` is inductive with the types; the limiter's counts are cardinalities of
  sets of answered requests, so the step that answers a request is followed into each of those sets. `ChallengesSolvedOnce` from
  `BotInv`: a challenge that let its client through is marked as verified or gone, and an id is not issued again. `VerdictsAreFresh` from
  `IntelInv`: a cached verdict is older than its entry by one fetch at most, one on its way no older than the wait for it,
  and a breach is told only of a password in the corpus, for any `LongestFetch`.
- **`ServerProofs`**: what one process keeps. `SessionsEnd` (a session passes only while it is in the table, and
  what ended is not). `EdgeKeeps` (the messages on the wire are a prefix of one answer, whose kind the limit's flags tell; until it is told of a disconnect
  the application has what the limit has seen).
  `SamplesAlone` (`OneSampler`) is inductive with the types: a stop cancels exactly the loop
  that is live. `ServesOnlyVerified` (`ServesVerified`), for every environment, from `GateInv`: behind each check stands
  what it established (`Established`), and while models load, a hashed file is the listed one or was replaced since.
  `TrailsComplete` (`TrailComplete`) from `TrustInv`: the log's events of an operation are the end of its story (`Tells`),
  the whole of it while nothing was forgotten (`Whole`). That one more event keeps this is `Telling`, that forgetting
  the oldest does is `Forgetting`; a failing operation tells two in a row. Where the collector
  is registered, every operation is new or has raised.
- **`ResponseProofs`**. `ContainmentCapped` (`ContainmentBounded`) from `ContainInv`: the executions that count and the runs that
  are acting together stay below the cap plus the runs (`CapHeld`), and an order in progress has its caller waiting with the lock or cancelled (`OrdersTell`);
  the list of executions only loses what is too old. It also holds the sum of the process's parts (`ServerTyped`).

Types. Each component's type invariant is proved for every value of the constants as well, because most say
more than their sets: that a lock is held by who is loading (`LocksHeldByLoaders`, `NetworkTyped`), that attempts,
buffers, caches, windows and logs keep to their bounds (`AttemptsBounded`, `BufferBounded`, `EntriesTyped`, `SoarTyped`,
`CollectorTyped`, `RegistryTyped`), that what is kept of a policy's executions is ordered by age, so that those too old
are the first (`ContainTyped`), that no clock of a bucket is ahead (`BucketsTyped`), that challenges come in the order of
the methods (`StepUpsTyped`). `EdgeTyped` needs the sum of the parts a body still waits in; sums are out of the provers'
reach, so the invariant says that the places where the parts end exist (`Spans`). `LimiterTyped` has one hypothesis
about arithmetic: that powers of two are natural numbers, for the provers know nothing of `^`. What the runs check is the
sum of these over the parts of an instance (`TypesOK`), and that is proved of the instances' own specifications: `AccountTyped`,
`RequestsTyped`, `EventsTyped`, `ServerTyped`. Each goes over the parts (`AccountParts` and so on: a behaviour of the sum is one of every part,
for what is not its step leaves it alone), so the proof modules of the sums extend the `MC` modules; nothing of
their values for TLC is used.

Assumptions. Besides sizes and finite sets: `MemoryAssumption` (the log's memory is a number),
`ContainmentAssumption` and `SoarAssumption` (policies and rules are sequences of records, the caps numbers),
`StepUpAssumption` (`Asked` names no method twice, because `evaluate_step_up` removes duplicates), `RegistrationAssumption`
(a process registers the collector or an audit log or both; one that registers neither emits to nobody), `EdgeAssumption`. Where a theorem
assumes something of a constant itself, it bounds a counter of the model or, in `ContainTyped`, asks for a cooldown that is not zero.
TLC evaluates the named assumptions on the runs' instances.

Only model-checked: everything that needs fairness (each `~>`, `[]<>` and the liveness halves of `ImplementsAdmission` and
`ImplementsDelivery`), because the prover has neither ENABLED nor liveness rules for it. What a recursive
definition computes for every input is out of the prover's reach too; no module declares a RECURSIVE operator.

## 7. Not modelled

Feature vectors, model inference, mouse analysis and Markdown rendering are functions of their input
without state. Hashing, unpickling and HTTP itself are I/O, kept as their outcomes. RASP's interceptors, the WAF, the egress controller
and the schema validator are not called by any code of the repository (`init_security.py` only imports them); the infrastructure
layer consists of re-exports, and `cyberguard_mcp_server.py` is a client without state. `refresh_token` raises before it does anything.
`verify_step_up` has no caller either; it is modelled with whatever responses it would take, because the middleware
hands the challenges out. Session revocation (`step_up.py`) is a table nobody asks. Wall clocks that jump, Redis apart, and
processes that share an account across workers are left out: the code keeps all of this state in one process.
