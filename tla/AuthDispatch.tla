------------------------------ MODULE AuthDispatch -----------------------------
(***************************************************************************)
(* auth_defense/integration.py: AuthDefenseMiddleware.  Which requests are *)
(* protected, the layers a protected request passes before its handler,    *)
(* and what is recorded of the handler's answer.  Other requests come in   *)
(* at every await.  A path is the sequence of its segments, <<>> is "/".   *)
(* The lockout of an account is kept as its count of failures: Lockout     *)
(* models its timer, RateLimiter the state of an identifier in a tier.     *)
(***************************************************************************)
EXTENDS Integers, FiniteSets, SequencesExt, Functions

CONSTANTS
  Requests,
  Accounts,
  Enrolled,         \* the users with a verified MFA method
  Origins,          \* where requests come from: records of ip, device, fingerprint
  Paths,            \* the paths that are asked for
  ProtectedRoutes,  \* protected_routes of AuthDefenseConfig
  ExcludedPaths,    \* excluded_paths
  Configurations,   \* the sets of enable_ flags a process may have set
  Threshold         \* failures that lock an account

VARIABLES
  layers,       \* the flags that are set, for the process's life
  initialized,  \* _initialized
  starts,       \* calls of telemetry_manager.initialize
  request,      \* where each request is
  limiter,      \* per tier and identifier: its checks, and the attempts recorded
  failures,     \* per user, the failures the lockout has counted since a success
  reported      \* the telemetry events created, per type

dispatchVars == <<layers, initialized, starts, request, limiter, failures, reported>>

Nobody == "nobody"
EventTypes == {"CREDENTIAL_STUFFING", "ACCOUNT_LOCKED", "STEP_UP_REQUIRED",
               "LOGIN_SUCCESS", "LOGIN_FAILURE"}

\* AuthRoute: the paths it has a member for.
AuthRoutes == {<<"login">>, <<"signup">>, <<"password-reset">>, <<"api", "token">>,
               <<"mfa", "challenge">>, <<"mfa", "verify">>, <<"password-change">>,
               <<"account-recovery">>}

\* _is_protected_route
StartsWithAny(path, prefixes) == \E prefix \in prefixes : IsPrefix(prefix, path)
IsProtected(path) ==
  ~StartsWithAny(path, ExcludedPaths) /\ StartsWithAny(path, ProtectedRoutes)

\* The paths whose outcome dispatch records.
IsLogin(path) == path \in {<<"login">>, <<"api", "token">>}

\* MultiTierRateLimiter: a limiter of its own per tier, asked in this order.
Tiers == <<"ip", "user", "device", "fingerprint">>
Keys == {<<"user", u>> : u \in Accounts}
          \cup {<<tier, c[tier]>> : tier \in Range(Tiers) \ {"user"}, c \in Origins}

Locked(u) == failures[u] >= Threshold

DispatchInit ==
  /\ layers \in Configurations
  /\ initialized = FALSE /\ starts = 1   \* initialize_security_architecture called it
  /\ request = [r \in Requests |-> [stage |-> "none"]]
  /\ limiter = [k \in Keys |-> [checks |-> 0, all |-> 0, failed |-> 0]]
  /\ failures = [u \in Accounts |-> 0]
  /\ reported = [e \in EventTypes |-> 0]

\* create_telemetry_event, if telemetry is enabled.
Report(type) ==
  reported' = IF "telemetry" \in layers THEN [reported EXCEPT ![type] = @ + 1] ELSE reported

Stage(r, stage) == request' = [request EXCEPT ![r].stage = stage]

At(r, stage) == request[r].stage = stage

Known(r) == request[r].user # Nobody

\* A tier counts under the identifier the request has for it, if any.
Identifier(r, tier) ==
  IF tier = "user" THEN request[r].user ELSE request[r].client[tier]
KeysOf(r) ==
  {<<tier, Identifier(r, tier)>> : tier \in {t \in Range(Tiers) : Identifier(r, t) # Nobody}}

\* check_all_tiers asks the tiers in their order, up to the first one that refuses.
Consulted(r, refusing) ==
  {k \in KeysOf(r) : \A i, j \in DOMAIN Tiers :
     Tiers[i] = k[1] /\ Tiers[j] = refusing => i <= j}

-------------------------------------------------------------------------------
\* dispatch: the first request initialises, protected or not.  The client is described
\* by its headers; who logs in is in the body, still to be read.
Arrive(r, path, client) ==
  /\ At(r, "none")
  /\ request' = [request EXCEPT ![r] =
       [stage |-> IF IsProtected(path) THEN "body" ELSE "handler", path |-> path,
        client |-> client, user |-> Nobody, triggers |-> {},
        guarded |-> IsProtected(path), status |-> "none"]]
  /\ initialized' = TRUE
  /\ starts' = IF ~initialized /\ "telemetry" \in layers THEN starts + 1 ELSE starts
  /\ UNCHANGED <<layers, limiter, failures, reported>>

\* The body names the user, or is missing, cut off or not understood.
ReadBody(r, u) ==
  /\ At(r, "body")
  /\ request' = [request EXCEPT ![r].stage = "layer1", ![r].user = u]
  /\ UNCHANGED <<layers, initialized, starts, limiter, failures, reported>>

\* Layer 1.  AuthRoute(path) raises for a path it has no member for, and after the check
\* of the tiers the name MitigationAction, which the module does not import, raises.
RateLimiting(r, refusing) ==
  /\ At(r, "layer1") /\ "rate_limiting" \in layers
  /\ Stage(r, "raised")
  /\ limiter' = IF request[r].path \notin AuthRoutes THEN limiter
                ELSE [k \in Keys |-> IF k \in Consulted(r, refusing)
                                     THEN [limiter[k] EXCEPT !.checks = @ + 1] ELSE limiter[k]]
  /\ UNCHANGED <<layers, initialized, starts, failures, reported>>

NoRateLimiting(r) ==
  /\ At(r, "layer1") /\ "rate_limiting" \notin layers
  /\ Stage(r, "layer2")
  /\ UNCHANGED <<layers, initialized, starts, limiter, failures, reported>>

\* Layer 2.  The entropy of the headers is computed with bit_length of a float.
BotCheck(r) ==
  /\ At(r, "layer2")
  /\ Stage(r, IF "bot_detection" \in layers THEN "raised" ELSE "layer3")
  /\ UNCHANGED <<layers, initialized, starts, limiter, failures, reported>>

\* Layer 3, for a request that names a user: the findings that trigger a step-up, and
\* whether the risk is high.  No place is known, so no journey is impossible.
CredentialCheck(r, found, high) ==
  /\ At(r, "layer3")
  /\ found \subseteq {"HIGH_RISK_IP", "NEW_DEVICE", "BREACHED_CREDENTIAL"}
  /\ "credential_intel" \notin layers \/ ~Known(r) => found = {} /\ ~high
  /\ request' = [request EXCEPT ![r].stage = "layer4", ![r].triggers = found]
  /\ IF high THEN Report("CREDENTIAL_STUFFING") ELSE UNCHANGED reported
  /\ UNCHANGED <<layers, initialized, starts, limiter, failures>>

Refusing(r) == "step_up" \in layers /\ Known(r) /\ Locked(request[r].user)

\* Layer 4 refuses a locked account.
RefuseLocked(r) ==
  /\ At(r, "layer4") /\ Refusing(r)
  /\ Report("ACCOUNT_LOCKED")
  /\ request' = [request EXCEPT ![r].stage = "answered", ![r].status = "403"]
  /\ UNCHANGED <<layers, initialized, starts, limiter, failures>>

\* Layer 4 lets the request through: with triggers, a step-up is initiated for a user
\* with a method enrolled, and the handler may ask for its challenges or not.
Admit(r) ==
  /\ At(r, "layer4") /\ ~Refusing(r)
  /\ Stage(r, "handler")
  /\ IF "step_up" \in layers /\ request[r].user \in Enrolled /\ request[r].triggers # {}
     THEN Report("STEP_UP_REQUIRED") ELSE UNCHANGED reported
  /\ UNCHANGED <<layers, initialized, starts, limiter, failures>>

\* record_attempt_all_tiers, and record_success or record_failed_attempt of the lockout.
RecordOutcome(r, ok) ==
  /\ limiter' = [k \in Keys |->
       IF k \in KeysOf(r)
       THEN [limiter[k] EXCEPT !.all = @ + 1, !.failed = @ + (IF ok THEN 0 ELSE 1)]
       ELSE limiter[k]]
  /\ failures' = IF Known(r)
                 THEN [failures EXCEPT ![request[r].user] = IF ok THEN 0 ELSE @ + 1]
                 ELSE failures

Recorded(r) == request[r].guarded /\ IsLogin(request[r].path) /\ "telemetry" \in layers

AnswerLogin(r, ok) ==
  request' = [request EXCEPT ![r].stage = "answered", ![r].status = IF ok THEN "200" ELSE "401"]

\* Slip: only failures reach the limiter.
HandledCountsFailures(r, ok) ==
  /\ At(r, "handler")
  /\ AnswerLogin(r, ok)
  /\ IF Recorded(r)
     THEN /\ IF ok THEN UNCHANGED <<limiter, failures>> ELSE RecordOutcome(r, ok)
          /\ Report(IF ok THEN "LOGIN_SUCCESS" ELSE "LOGIN_FAILURE")
     ELSE UNCHANGED <<limiter, failures, reported>>
  /\ UNCHANGED <<layers, initialized, starts>>

\* The handler answers.  The outcome of a login is recorded in the same step, as none of
\* the recorders gives way to other requests; it is recorded only with telemetry.
Handled(r, ok) ==
  /\ At(r, "handler")
  /\ AnswerLogin(r, ok)
  /\ IF Recorded(r)
     THEN /\ RecordOutcome(r, ok)
          /\ Report(IF ok THEN "LOGIN_SUCCESS" ELSE "LOGIN_FAILURE")
     ELSE UNCHANGED <<limiter, failures, reported>>
  /\ UNCHANGED <<layers, initialized, starts>>

\* The handler raises; nothing is recorded.
HandlerRaises(r) ==
  /\ At(r, "handler")
  /\ Stage(r, "raised")
  /\ UNCHANGED <<layers, initialized, starts, limiter, failures, reported>>

DispatchNext ==
  \E r \in Requests :
    \/ \E path \in Paths, client \in Origins : Arrive(r, path, client)
    \/ \E u \in Accounts \cup {Nobody} : ReadBody(r, u)
    \/ \E refusing \in Range(Tiers) \cup {"none"} : RateLimiting(r, refusing)
    \/ NoRateLimiting(r) \/ BotCheck(r)
    \/ \E found \in SUBSET {"NEW_DEVICE"}, high \in BOOLEAN : CredentialCheck(r, found, high)
    \/ RefuseLocked(r) \/ Admit(r)
    \/ \E ok \in BOOLEAN : Handled(r, ok)
    \/ HandlerRaises(r)

DispatchSpec == DispatchInit /\ [][DispatchNext]_dispatchVars

-------------------------------------------------------------------------------
(* Properties *)

\* The logins that the layers let through and their handlers answered, those counted
\* under a tier's identifier, and the refusals among a set of them.
AnsweredLogins ==
  {r \in Requests : /\ At(r, "answered") /\ request[r].status \in {"200", "401"}
                    /\ request[r].guarded /\ IsLogin(request[r].path)}
AnsweredOf(k) == {r \in AnsweredLogins : k \in KeysOf(r)}
RefusedOf(logins) == {r \in logins : request[r].status = "401"}

\* Types of the middleware's state.
DispatchTypeOK ==
  /\ layers \in Configurations
  /\ initialized \in BOOLEAN /\ starts \in 1 .. 2
  /\ \A r \in Requests :
       request[r].stage \in {"none", "body", "layer1", "layer2", "layer3", "layer4", "handler",
                             "answered", "raised"}
  /\ limiter \in [Keys -> [checks : Nat, all : Nat, failed : Nat]]
  /\ failures \in [Accounts -> Nat]
  /\ reported \in [EventTypes -> Nat]

\* Three components keep count of one stream of logins, each in its own way.  With
\* telemetry, every tier of the limiter has the answered logins of its identifiers, the
\* lockout no failure of a user the limiter lacks, and the audit events one outcome per
\* answer; a layer's refusal or an error counts nowhere.
OutcomesAgree ==
  "telemetry" \in layers =>
    /\ \A k \in Keys : /\ limiter[k].all = Cardinality(AnsweredOf(k))
                       /\ limiter[k].failed = Cardinality(RefusedOf(AnsweredOf(k)))
    /\ \A u \in Accounts : failures[u] <= limiter[<<"user", u>>].failed
    /\ reported["LOGIN_SUCCESS"] + reported["LOGIN_FAILURE"] = Cardinality(AnsweredLogins)
    /\ reported["ACCOUNT_LOCKED"] > 0 =>
         \E u \in Accounts : limiter[<<"user", u>>].failed >= Threshold

\* "Protect ML inference endpoints too" (main.py:373): a request to a protected route
\* reaches its handler only through the layers.
ProtectedAreGuarded ==
  \A r \in Requests :
    At(r, "handler") /\ StartsWithAny(request[r].path, ProtectedRoutes) => request[r].guarded
===============================================================================
