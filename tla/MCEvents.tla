------------------------------- MODULE MCEvents -------------------------------
(***************************************************************************)
(* Instances of TelemetryPipeline and of SoarEngine, the two parts of      *)
(* layer 5, for TLC, side by side: they share no variable, so each part is *)
(* explored with the other at rest.                                        *)
(***************************************************************************)
EXTENDS TelemetryPipeline, SoarEngine, TLC

CONSTANT Parts
VARIABLE part

TwoEndpoints == <<"siem", "splunk">>

\* _init_default_rules: the six rules in their order.  Their thresholds 5, 10 and 3 are
\* brought down to 2, 3 and 2, so that few events reach them; the others are 1.
DefaultRules == <<
  [by |-> "ip_address", types |-> {"login_failure", "rate_limit_exceeded"}, min |-> 2,
   actions |-> <<"block_ip", "notify_soc">>],
  [by |-> "asn", types |-> {"credential_stuffing"}, min |-> 3,
   actions |-> <<"block_asn", "rate_limit_cidr", "notify_soc">>],
  [by |-> "ip_address", types |-> {"bot_detected"}, min |-> 2,
   actions |-> <<"rate_limit_ip", "require_mfa">>],
  [by |-> "user_id", types |-> {"impossible_travel"}, min |-> 1,
   actions |-> <<"require_mfa", "revoke_sessions", "notify_user">>],
  [by |-> "user_id", types |-> {"account_quarantined", "session_revoked_all"}, min |-> 1,
   actions |-> <<"quarantine_account", "revoke_sessions", "notify_soc", "create_ticket">>],
  [by |-> "user_id", types |-> {"breached_credential"}, min |-> 1,
   actions |-> <<"require_mfa", "notify_user">>]>>

Event(type, ip, user) ==
  [type |-> type, ip_address |-> ip, user_id |-> user, asn |-> ""]

\* A bot that names no user: nor has the event an ASN, so the keys of the bot rule's group
\* and of the one looked at are the same, and its playbook runs.
Mixed == {Event("impossible_travel", "ip1", "ann"), Event("bot_detected", "ip1", "")}
Failures == {Event("login_failure", "ip1", "ann"), Event("login_failure", "ip1", "bob")}

\* The default handlers (_register_default_actions) that take the three arguments they are
\* called with and return what can be awaited.
DefaultWorks ==
  [a \in UNION {Range(DefaultRules[i].actions) : i \in DOMAIN DefaultRules} |->
     a \in {"block_ip", "rate_limit_ip", "require_mfa", "revoke_sessions"}]

MCInit == Init /\ SoarInit /\ part \in Parts
MCNext ==
  \/ part = "telemetry" /\ Next /\ UNCHANGED <<soarVars, part>>
  \/ part = "soar" /\ SoarNext /\ UNCHANGED <<vars, part>>

MCSpec == /\ MCInit /\ [][MCNext]_<<vars, soarVars, part>>
          /\ part = "telemetry" => Fairness
          /\ part = "soar" => SoarFairness

-------------------------------------------------------------------------------
\* Types of both parts.
TypesOK == TypeOK /\ SoarTypeOK

\* The log's events are delivered to every endpoint, each once and in the log's order, and
\* the processing of every event ends, whatever its playbooks' handlers do.
AllOffered == ImplementsDelivery /\ (part = "soar" => ProcessingEnds)
===============================================================================
