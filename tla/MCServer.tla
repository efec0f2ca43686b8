-------------------------------- MODULE MCServer -------------------------------
(***************************************************************************)
(* Instances for TLC of what one process of the API keeps and decides:     *)
(* the security console, the token buckets, the administrator's sessions,  *)
(* the edge of a request, the startup gate, the security registry, the     *)
(* containment engine, the auth defense middleware, its credential and bot *)
(* layers, and the runtime telemetry.  They share no variable, so each     *)
(* part is explored with the others at rest.                               *)
(***************************************************************************)
EXTENDS SecurityConsole, TokenBuckets, AdminSession, EdgePipeline, StartupGate,
        AuthDispatch, CredentialIntel, BotDetection, RuntimeCollector,
        ZeroTrust, Containment, TLC

CONSTANT Parts
VARIABLE part

-------------------------------------------------------------------------------
(* Values of the constants *)

UserSymmetry == Permutations(Users)
BoundaryScores == {29, 80}

\* Settings: a production process, one without API keys, and two of a developer.
AdminSettings ==
  {[production |-> TRUE, hash |-> TRUE, keys |-> TRUE],
   [production |-> TRUE, hash |-> FALSE, keys |-> FALSE],
   [production |-> FALSE, hash |-> FALSE, keys |-> TRUE],
   [production |-> FALSE, hash |-> TRUE, keys |-> FALSE]}

\* Environments: a production process as it should be, three others that are sound, one
\* for each way it is not, and a developer's.
Production ==
  [production |-> TRUE, keys |-> TRUE, externalStore |-> TRUE, sameSklearn |-> TRUE,
   manifest |-> "read-only outside", signature |-> "none", verifyOnImport |-> FALSE,
   eager |-> TRUE]
Environments ==
  {Production, [Production EXCEPT !.verifyOnImport = TRUE, !.signature = "good"],
   [Production EXCEPT !.eager = FALSE],
   [Production EXCEPT !.keys = FALSE], [Production EXCEPT !.externalStore = FALSE],
   [Production EXCEPT !.manifest = "writable"], [Production EXCEPT !.sameSklearn = FALSE],
   [Production EXCEPT !.signature = "unverifiable"], [Production EXCEPT !.signature = "bad"],
   [production |-> FALSE, keys |-> FALSE, externalStore |-> FALSE, sameSklearn |-> FALSE,
    manifest |-> "writable", signature |-> "unverifiable", verifyOnImport |-> FALSE,
    eager |-> FALSE]}

\* Tokens of an analyst and of one who may see what is marked for executives; resources
\* the policies let them read or not.
TokenContexts ==
  {[clearance |-> c, mfa |-> TRUE, risk |-> 0] : c \in {"confidential", "secret"}}
ResourceKinds == {[type |-> "user_telemetry", markings |-> {"executive"}],
                  [type |-> "audit_log", markings |-> {}]}

\* The application's registration, and that of a process that has an audit log, beside the
\* collector or without it.
Application == {{"collector"}}
ApplicationOrLog == Application \cup {{"audit log"}, {"audit log", "collector"}}

\* Two policies that may match the same context.
TwoPolicies ==
  <<[actions |-> <<"session_isolate", "network_quarantine">>, max |-> 1],
    [actions |-> <<"session_terminate", "process_terminate">>, max |-> 2]>>
ContainmentContexts ==
  {[matches |-> {1, 2}, target |-> "s1", pid |-> FALSE],
   [matches |-> {2}, target |-> "s1", pid |-> TRUE]}

\* One client without scripts, and routes of main.py's configuration.
OneOrigin == {[ip |-> "ip1", device |-> "d1", fingerprint |-> "nobody"]}
LoginAndHealth == {<<"login">>, <<"health">>}
Inference == {<<"analyze_ip">>}
HealthAndDocs == {<<"health">>, <<"docs">>}
DeployedExclusions == {<<>>, <<"health">>, <<"docs">>}
ProtectedPaths == {<<"login">>, <<"analyze_ip">>}
SomeLayers == {{"credential_intel", "step_up", "telemetry"}, {"rate_limiting", "telemetry"},
               {"bot_detection"}}
AllLayers == {{"rate_limiting", "bot_detection", "credential_intel", "step_up", "telemetry"}}

\* Two passwords whose hashes begin with the same five characters.
TwoPasswords == {"p1", "p2"}
FirstFive == [p \in TwoPasswords |-> "same"]

FingerprintOf(agent, cores, js) ==
  [ua |-> agent, brands |-> {}, platform |-> "", mobile |-> "", cores |-> cores, memory |-> 8,
   fetchSite |-> TRUE, js |-> js, canvas |-> TRUE]
ThreeFingerprints ==
  {FingerprintOf({"chrome", "windows"}, 8, TRUE),
   FingerprintOf({"chrome", "windows", "headless"}, 8, TRUE),
   FingerprintOf({"headless", "linux"}, 0, TRUE)}
AnyResponses == [nonce : BOOLEAN, token : BOOLEAN, keys : {<<>>, <<0, 10, 20>>}, mouse : {FALSE}]

-------------------------------------------------------------------------------
(* Each part by itself *)

MCInit ==
  /\ part \in Parts
  /\ ConsoleInit /\ BucketInit /\ SessionInit
  /\ EdgeInit /\ GateInit /\ TrustInit
  /\ ContainInit /\ DispatchInit /\ IntelInit
  /\ BotInit /\ CollectorInit
  /\ part # "session" => settings = CHOOSE s \in Settings : TRUE
  /\ part # "gate" => env = Production /\ ~rogue /\ \A a \in DOMAIN disk : disk[a] = "listed"
  /\ part # "trust" => registered = CHOOSE s \in Registrations : TRUE
  /\ part # "dispatch" => layers = CHOOSE l \in Configurations : TRUE

MCNext ==
  \/ /\ part = "console" /\ ConsoleNext
     /\ UNCHANGED <<bucketVars, sessionVars, edgeVars, gateVars, trustVars, containVars,
                    dispatchVars, intelVars, botVars, collectorVars,
                    part>>
  \/ /\ part = "buckets" /\ BucketNext
     /\ UNCHANGED <<cvars, sessionVars, edgeVars, gateVars, trustVars, containVars,
                    dispatchVars, intelVars, botVars, collectorVars,
                    part>>
  \/ /\ part = "session" /\ SessionNext
     /\ UNCHANGED <<cvars, bucketVars, edgeVars, gateVars, trustVars, containVars,
                    dispatchVars, intelVars, botVars, collectorVars,
                    part>>
  \/ /\ part = "edge" /\ EdgeNext
     /\ UNCHANGED <<cvars, bucketVars, sessionVars, gateVars, trustVars, containVars,
                    dispatchVars, intelVars, botVars, collectorVars,
                    part>>
  \/ /\ part = "gate" /\ GateNext
     /\ UNCHANGED <<cvars, bucketVars, sessionVars, edgeVars, trustVars, containVars,
                    dispatchVars, intelVars, botVars, collectorVars,
                    part>>
  \/ /\ part = "trust" /\ TrustNext
     /\ UNCHANGED <<cvars, bucketVars, sessionVars, edgeVars, gateVars, containVars,
                    dispatchVars, intelVars, botVars, collectorVars,
                    part>>
  \/ /\ part = "contain" /\ ContainNext
     /\ UNCHANGED <<cvars, bucketVars, sessionVars, edgeVars, gateVars, trustVars,
                    dispatchVars, intelVars, botVars, collectorVars,
                    part>>
  \/ /\ part = "dispatch" /\ DispatchNext
     /\ UNCHANGED <<cvars, bucketVars, sessionVars, edgeVars, gateVars, trustVars,
                    containVars, intelVars, botVars, collectorVars,
                    part>>
  \/ /\ part = "intel" /\ IntelNext
     /\ UNCHANGED <<cvars, bucketVars, sessionVars, edgeVars, gateVars, trustVars,
                    containVars, dispatchVars, botVars, collectorVars,
                    part>>
  \/ /\ part = "bot" /\ BotNext
     /\ UNCHANGED <<cvars, bucketVars, sessionVars, edgeVars, gateVars, trustVars,
                    containVars, dispatchVars, intelVars, collectorVars,
                    part>>
  \/ /\ part = "runtime" /\ CollectorNext
     /\ UNCHANGED <<cvars, bucketVars, sessionVars, edgeVars, gateVars, trustVars,
                    containVars, dispatchVars, intelVars, botVars, part>>

MCSpec ==
  MCInit /\ [][MCNext]_<<cvars, bucketVars, sessionVars, edgeVars, gateVars,
                        trustVars, containVars, dispatchVars, intelVars, botVars,
                        collectorVars, part>>

-------------------------------------------------------------------------------
(* What the pure operators make of samples *)

Projection == INSTANCE TelemetryProjection
Routes == INSTANCE InferenceRoutes WITH Units <- 4

\* The demo records are what the comments of _MOCK_RECORDS say they are, and the store's
\* summary counts them.
ASSUME DemoRecordsClassified ==
  LET records == Projection!DemoRecords
      Classes == <<"Account Takeover (ATO)", "Brute Force", "Credential Stuffing",
                   "Suspicious Authentication Activity", "Normal">>
      Expected == <<1, 2, 3, 4, 4, 4, 4, 5, 5, 5>>
  IN /\ \A i \in 1 .. 10 : Projection!Pattern(records[i]) = Classes[Expected[i]]
     /\ Projection!Suspicious(records, 3) = {1, 2, 3}
     /\ Projection!Summary(records) =
          [monitored |-> 10, flagged |-> 5, severe |-> 3, status |-> "ELEVATED_RISK"]

\* An assessment from one reading is consistent: MEDIUM exactly without an attack, and its
\* confidence a percentage; from two readings it need not be.
ASSUME AssessmentsAgree ==
  LET Sample == {Projection!Record(f, s, i, a, d, g) : f \in {0, 4, 12, 21, 60}, s \in 0 .. 1,
                   i \in {1, 3, 9}, a \in {0, 39, 40, 60, 85}, d \in {0, 3}, g \in BOOLEAN}
      Quiet == Projection!Record(0, 1, 1, 10, 0, FALSE)
      Noisy == Projection!Record(40, 0, 1, 95, 0, FALSE)
  IN /\ \A r \in Sample :
          /\ (Projection!Assessment(r, r).severity = "MEDIUM") <=> ~Projection!AttackDetected(r)
          /\ Projection!Confidence(r) \in 0 .. 100
          /\ Projection!Factors(r) # {}
          /\ Projection!Flagged(r) => Projection!AttackDetected(r)
     /\ Projection!Assessment(Quiet, Noisy).severity = "CRITICAL"
     /\ Projection!Assessment(Quiet, Noisy).threat = "Normal"

\* A masked name shows its first and last character at most; a masked address its first
\* part, and no more than three addresses are given away.
ASSUME MasksHide ==
  LET Shown(m) == Cardinality({i \in DOMAIN m : m[i] # "*"})
      Ip == [v6 |-> FALSE, parts |-> <<"10", "1", "2", "3">>]
  IN /\ \A n \in 1 .. 5 :
          LET mask == Projection!MaskLocal([i \in 1 .. n |-> "a"])
          IN Shown(mask) = (IF n <= 2 THEN 1 ELSE 2) /\ Len(mask) <= 5
     /\ Projection!MaskIp(Ip) = <<"10", "x", "x", "x">>
     /\ Len(Projection!ProjectedIps(<<Ip, Ip, Ip, Ip>>).unique_ips_masked) = 3

\* With a threshold of four decimals a detection can be derived again from the returned
\* score, but so can some that were none: the score is rounded up to the threshold.  With a
\* finer one, below the middle, a detection at the threshold is not derived again.  The
\* specialist's override never calls a flow "Bot", and follows the best of the other classes.
ASSUME RoutesDecide ==
  LET Classes == <<"BENIGN", "Bot", "DDoS">>
      Derived(score, threshold) == Routes!Rederived(Routes!LoginResult(score, threshold))
  IN /\ \A score \in 1990 .. 2010 : Routes!Detected(score, 2000) => Derived(score, 2000)
     /\ Derived(1999, 2000) /\ ~Routes!Detected(1999, 2000)
     /\ Routes!Detected(2001, 2001) /\ ~Derived(2001, 2001)
     /\ Routes!Rounded(2002) = 500 /\ Routes!Rounded(2006) = 502
     /\ \A p \in [1 .. 3 -> 0 .. 3], bot \in {0, 1} :
          LET result == Routes!NetworkResult(p, Classes, bot, 1)
          IN /\ result.attack_type = "Bot" => bot = 1 /\ ~result.bot_override
             /\ result.bot_override => \A i \in {1, 3} : p[i] <= result.model_score
             /\ ~result.bot_override => \A i \in 1 .. 3 : p[i] <= result.model_score
     /\ Routes!BatchStatus(0, 5, TRUE, "returned", 200) = 422
     /\ Routes!FlowStatus("ValueError", 200) = 422

\* A caller behind trusted proxies cannot choose its address: what it writes in front of
\* the header stays behind the hop the proxies added.
ASSUME ClientsNamedByProxies ==
  /\ \A forged \in {"a", "p1"} : ClientIp("p1", <<forged, "c", "p2">>, {"p1", "p2"}) = "c"
  /\ ClientIp("c", <<"a">>, {"p1"}) = "c"
  /\ LimiterOutcome(TRUE, TRUE, TRUE, 1, FALSE) = "refuses to start"

\* Logins of the three kinds credential intelligence is for.
ASSUME LoginsAssessed ==
  LET clean == Factors(FALSE, {}, Journey(1, 100), NotChecked)
      far == Factors(TRUE, {"tor"}, Journey(1, 2000), NotChecked)
      phone == [d1 |-> [agent |-> "a", platform |-> "p", trusted |-> FALSE]]
  IN /\ ~RiskOver(0, clean) /\ RiskOver(80, far)
     /\ Patterns(TRUE, {"tor"}, Journey(1, 2000), NotChecked) =
          {"known_breached_credentials", "distributed_low_velocity", "impossible_travel"}
     /\ DeviceCheck(phone, "d1", "a", "q").risk = 40
     /\ DeviceRegistered(phone, "d1", "a", "p")["d1"].trusted
     /\ ~WithTrust(DeviceRegistered(phone, "d1", "a", "p"), "d1", FALSE)["d1"].trusted

\* A browser is no bot by its fingerprint alone, a script is, and regular typing adds to
\* what is held against a client.
ASSUME ClientsJudged ==
  LET still == [keys |-> <<>>, mouse |-> FALSE, events |-> <<>>, lowEntropy |-> FALSE,
                pasted |-> FALSE]
      regular == [still EXCEPT !.keys = <<0, 10, 20>>]
      browser == FingerprintOf({"chrome", "windows"}, 8, TRUE)
      script == FingerprintOf({"headless", "linux"}, 0, FALSE)
  IN /\ ~IsBot(browser, still) /\ IsBot(script, still)
     /\ Recommended(browser, still) = "behavioral" /\ Recommended(script, still) = "pow"
     /\ Risk(Weights(browser, regular)) > Risk(Weights(browser, still))

-------------------------------------------------------------------------------
\* Types of the part that runs; the others keep their initial state.
TypesOK ==
  /\ part = "console" => TypeOK
  /\ part = "buckets" => BucketTypeOK
  /\ part = "session" => SessionTypeOK
  /\ part = "edge" => EdgeTypeOK
  /\ part = "gate" => GateTypeOK
  /\ part = "trust" => TrustTypeOK
  /\ part = "contain" => ContainTypeOK
  /\ part = "dispatch" => DispatchTypeOK
  /\ part = "intel" => IntelTypeOK
  /\ part = "bot" => BotTypeOK
  /\ part = "runtime" => CollectorTypeOK
===============================================================================
