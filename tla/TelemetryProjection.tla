-------------------------- MODULE TelemetryProjection --------------------------
(***************************************************************************)
(* services/telemetry.py: what the API and the agent make of a user's      *)
(* telemetry record.  A record's anomaly score is in hundredths; its       *)
(* addresses are a number where only their number counts.  Pure operators. *)
(***************************************************************************)
EXTENDS Integers, FiniteSets, Sequences

Record(failed, success, ips, anom, dev, geo) ==
  [failed |-> failed, success |-> success, ips |-> ips, anom |-> anom, dev |-> dev, geo |-> geo]

Records == [failed : Nat, success : Nat, ips : Nat, anom : 0 .. 100, dev : Nat, geo : BOOLEAN]

\* _MOCK_RECORDS, in their order.
DemoRecords == <<
  Record(47, 1, 3, 93, 4, TRUE),    Record(38, 0, 1, 96, 0, FALSE),
  Record(29, 0, 4, 88, 2, FALSE),   Record(12, 2, 1, 68, 1, FALSE),
  Record(14, 1, 2, 74, 3, FALSE),   Record(8, 1, 3, 58, 1, FALSE),
  Record(4, 1, 2, 44, 1, TRUE),     Record(1, 1, 1, 12, 0, FALSE),
  Record(0, 4, 1, 8, 0, FALSE),     Record(2, 3, 2, 19, 1, FALSE)>>

-------------------------------------------------------------------------------
(* The store *)

\* list_suspicious of the demo store: a stable sort, cut off.
Before(rs, i, j) == rs[i].anom > rs[j].anom \/ (rs[i].anom = rs[j].anom /\ i < j)
Suspicious(rs, limit) ==
  {i \in DOMAIN rs : Cardinality({j \in DOMAIN rs : Before(rs, j, i)}) < limit}

Flagged(r) == r.anom >= 60
Severe(r) == r.anom >= 85

\* summary of the demo store.
Summary(rs) ==
  LET flagged == {i \in DOMAIN rs : Flagged(rs[i])}
  IN [monitored |-> Len(rs), flagged |-> Cardinality(flagged),
      severe |-> Cardinality({i \in DOMAIN rs : Severe(rs[i])}),
      status |-> IF flagged = {} THEN "NOMINAL" ELSE "ELEVATED_RISK"]

\* ExternalTelemetryStore._get and list_suspicious: what an answer of the upstream
\* service becomes.
Fetched(status, body) ==
  IF status = 404 THEN [result |-> "none"]
  ELSE IF status \in 200 .. 399 THEN [result |-> "record", body |-> body]
  ELSE [result |-> "raised"]
CutOff(rows, limit) == SubSeq(rows, 1, IF limit < Len(rows) THEN limit ELSE Len(rows))

\* check_store_health: any failure, and a summary that takes too long, is not healthy.
Healthy(backend, answer, waited, timeout) ==
  backend = "mock" \/ (answer.result # "raised" /\ waited < timeout)

-------------------------------------------------------------------------------
(* Masking.  Text is a sequence of characters. *)

Stars(n) == [i \in 1 .. n |-> "*"]

\* mask_username
MaskLocal(local) ==
  IF Len(local) <= 2 THEN <<local[1], "*">>
  ELSE <<local[1]>> \o Stars(3) \o <<local[Len(local)]>>
MaskUsername(name) ==
  IF name.local = <<>> THEN [local |-> Stars(3), domain |-> <<>>]
  ELSE [local |-> MaskLocal(name.local), domain |-> name.domain]

\* mask_ip: of IPv6 the first group, of a dotted quad the first number.
MaskIp(ip) ==
  IF ip.v6 THEN <<IF ip.parts[1] = "" THEN "x" ELSE ip.parts[1], "x">>
  ELSE <<IF Len(ip.parts) = 4 /\ ip.parts[1] # "" THEN ip.parts[1] ELSE "x", "x", "x", "x">>

MaskedIpSample == 3

\* project_user: the fields the API may give away of a user with these addresses.
ProjectedIps(addresses) ==
  [unique_ip_count |-> Len(addresses),
   unique_ips_masked |->
     [i \in 1 .. Len(CutOff(addresses, MaskedIpSample)) |-> MaskIp(addresses[i])]]

-------------------------------------------------------------------------------
(* Evidence, risk and class of a record *)

\* contributing_factors
Elevated(r) ==
  (IF r.failed > 0 THEN {"failed logins"} ELSE {})
    \cup (IF r.success > 0 /\ r.failed >= 10 THEN {"success beside failures"} ELSE {})
    \cup (IF r.ips > 1 THEN {"several addresses"} ELSE {})
    \cup (IF r.geo THEN {"impossible travel"} ELSE {})
    \cup (IF r.dev > 0 THEN {"device changes"} ELSE {})
    \cup (IF r.anom >= 50 THEN {"anomaly score"} ELSE {})
Factors(r) == IF Elevated(r) = {} THEN {"no elevated indicators"} ELSE Elevated(r)

\* _risk_from_record
RiskLevel(r) == IF r.anom >= 80 THEN "CRITICAL" ELSE IF r.anom >= 60 THEN "HIGH" ELSE "MEDIUM"

\* classify_pattern
TakenOver(r) == r.success >= 1 /\ r.geo /\ (r.failed >= 10 \/ r.dev >= 3)
Forced(r) == r.failed >= 20 /\ r.success = 0 /\ r.ips <= 2
Stuffed(r) == r.ips >= 3 /\ r.failed >= 10
Nominal(r) == r.failed <= 3 /\ r.anom < 40
Pattern(r) ==
  IF TakenOver(r) THEN "Account Takeover (ATO)"
  ELSE IF Forced(r) THEN "Brute Force"
  ELSE IF Stuffed(r) THEN "Credential Stuffing"
  ELSE IF Nominal(r) THEN "Normal"
  ELSE "Suspicious Authentication Activity"
AttackDetected(r) == Pattern(r) # "Normal"

\* Its confidence, in hundredths.
Confidence(r) ==
  IF Pattern(r) = "Brute Force" THEN IF 50 + r.failed < 97 THEN 50 + r.failed ELSE 97
  ELSE IF Pattern(r) = "Credential Stuffing"
    THEN IF 40 + 10 * r.ips < 95 THEN 40 + 10 * r.ips ELSE 95
  ELSE IF Pattern(r) = "Normal" THEN 100 - r.anom
  ELSE r.anom

-------------------------------------------------------------------------------
(* What the agent reports (services/agent_controller.py) *)

\* _severity_from
Severity(level, attack) == IF attack /\ level = "MEDIUM" THEN "HIGH" ELSE level

\* _recommendations, in kinds.
Recommendations(pattern, geo, score) ==
  {CASE pattern = "Account Takeover (ATO)" -> "revoke sessions"
     [] pattern = "Brute Force" -> "rate limit the address"
     [] pattern = "Credential Stuffing" -> "check breached passwords"
     [] OTHER -> "keep monitoring"}
    \cup (IF geo THEN {"conditional access"} ELSE {})
    \cup (IF score >= 80 THEN {"page the on-call lead"} ELSE {})

\* _origin_note
OriginNote(n, geo) ==
  IF n > 1 THEN {"multiple origins"} \cup (IF geo THEN {"impossible travel"} ELSE {})
  ELSE IF geo THEN {"impossible travel"} ELSE {"single origin"}

\* _run_investigation reads the record twice: the class, the projection and the
\* recommendations come from the first reading, the risk from the second.
Assessment(first, second) ==
  [threat |-> Pattern(first), confidence |-> Confidence(first),
   severity |-> Severity(RiskLevel(second), AttackDetected(first)),
   actions |-> Recommendations(Pattern(first), first.geo, second.anom)]

\* generate_incident_report
IncidentReport(id, user, threat, severity, actions) ==
  [incident_id |-> id, status |-> "LOGGED", target_entity |-> user, severity |-> severity,
   threat_type |-> threat, recommended_actions |-> actions]
===============================================================================
