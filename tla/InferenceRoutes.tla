----------------------------- MODULE InferenceRoutes ----------------------------
(***************************************************************************)
(* The three inference routes of main.py around the pool, and the decision *)
(* of services/network_detector.py: which requests are refused, with which *)
(* status, and what is made of the models' scores.  Pure operators; the    *)
(* models themselves are external.                                         *)
(*                                                                         *)
(* Login scores and thresholds are floats, numbered here in their order:   *)
(* those of at most four decimals are the multiples of Units, the others   *)
(* lie between two of these, before, at or after the middle.               *)
(***************************************************************************)
EXTENDS Integers, FiniteSets

CONSTANT Units   \* the numbers of a ten-thousandth, at least one

-------------------------------------------------------------------------------
(* The routes *)

\* _reject_bad_batch
BadBatch(rows, maxRows) == rows = 0 \/ rows > maxRows

\* analyze_ip and get_user_risk_score: the batch, the lazy load, the models, and then
\* what _run_inference answers ("http": its own 503 or 504) or raises.
BatchStatus(rows, maxRows, ready, outcome, own) ==
  IF BadBatch(rows, maxRows) THEN 422
  ELSE IF ~ready THEN 503
  ELSE CASE outcome = "returned" -> 200
         [] outcome = "http" -> own
         [] OTHER -> 500

\* detect_attack_pattern_endpoint loads and validates inside of the pool.
FlowStatus(outcome, own) ==
  CASE outcome = "returned" -> 200
    [] outcome = "http" -> own
    [] outcome = "ValueError" -> 422
    [] outcome \in {"ModelIntegrityError", "RuntimeError"} -> 503
    [] OTHER -> 500

-------------------------------------------------------------------------------
(* Login scores *)

\* round(score, 4), in ten-thousandths: the nearest, from the middle the even one.
Rounded(score) ==
  LET down == score \div Units
      rest == score % Units
  IN IF 2 * rest < Units \/ (2 * rest = Units /\ down % 2 = 0) THEN down ELSE down + 1

\* LOGIN_THRESHOLD is whatever number the environment gives.
Detected(score, threshold) == score >= threshold

\* risk_bucket
RiskBucket(score, threshold) ==
  IF score >= threshold THEN "high"
  ELSE IF 10 * score >= 8 * threshold THEN "medium"
  ELSE "low"

\* One AttackAnalysisResult of _score_login_events.
LoginResult(score, threshold) ==
  [attack_score |-> Rounded(score), threshold |-> threshold,
   attack_detected |-> Detected(score, threshold), risk_level |-> RiskBucket(score, threshold)]

\* "Returned so a consumer can re-derive detection" (main.py:589-590).
Rederived(result) == Units * result.attack_score >= result.threshold

\* _score_behaviour: higher is more anomalous.
BehaviourResult(raw, label) == [anomaly_score |-> Rounded(-raw), is_anomaly |-> label = -1]

-------------------------------------------------------------------------------
(* Network flows *)

\* _coerce_finite_number: a bool is not a number, a text is what it reads as; an integer
\* too large for a float raises another error than the rest.
Coerced(value) ==
  IF value.type \in {"int", "float", "numeric text"}
  THEN IF value.type = "int" /\ value.huge THEN "OverflowError"
       ELSE IF value.finite THEN "number" ELSE "ValueError"
  ELSE "ValueError"

\* _validate_flow: the features are coerced only once all of them are there, and the
\* first error that is not a ValueError ends the loop.
Validated(flow, features, isDict) ==
  IF ~isDict THEN "ValueError"
  ELSE IF features = {} THEN "RuntimeError"   \* NETWORK_FEATURES is None
  ELSE IF ~features \subseteq DOMAIN flow THEN "ValueError"
  ELSE IF \E f \in features : Coerced(flow[f]) = "OverflowError" THEN "OverflowError"
  ELSE IF \E f \in features : Coerced(flow[f]) = "ValueError" THEN "ValueError"
  ELSE "returned"

\* The first of the most probable among some classes.
MostProbable(p, S) ==
  CHOOSE i \in S : \A j \in S : p[j] < p[i] \/ (p[j] = p[i] /\ i <= j)

\* detect_network_attack: the multiclass model and the bot specialist.
Override(p, classes, bot, threshold) ==
  classes[MostProbable(p, DOMAIN classes)] = "Bot" /\ bot < threshold
FinalIndex(p, classes, bot, threshold) ==
  IF Override(p, classes, bot, threshold)
  THEN MostProbable(p, {i \in DOMAIN classes : classes[i] # "Bot"})
  ELSE MostProbable(p, DOMAIN classes)
NetworkResult(p, classes, bot, threshold) ==
  LET i == FinalIndex(p, classes, bot, threshold)
  IN [attack_type |-> classes[i], model_score |-> p[i], bot_specialist_score |-> bot,
      bot_override |-> Override(p, classes, bot, threshold),
      is_attack |-> classes[i] # "BENIGN"]
===============================================================================
