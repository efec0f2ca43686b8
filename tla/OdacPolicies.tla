------------------------------ MODULE OdacPolicies ------------------------------
(***************************************************************************)
(* layer1_identity: what the ODAC engine and the policy engine decide.  A  *)
(* subject is its role, clearance and consent; an entity its type, its     *)
(* markings and the markings of its properties.  In a policy the set AnyOf *)
(* stands for an attribute it does not ask for.                            *)
(***************************************************************************)
EXTENDS Integers, FiniteSets

AnyOf == {"any"}
Cleared == {"confidential", "secret", "top_secret"}
HighlyCleared == {"secret", "top_secret"}

Policy(allow, roles, clearances, types, markings, action, priority) ==
  [allow |-> allow, roles |-> roles, clearances |-> clearances, types |-> types,
   markings |-> markings, action |-> action, priority |-> priority, consent |-> FALSE]

\* _initialize_default_policies
Policies == {
  Policy(TRUE, {"analyst"}, Cleared, {"user_telemetry"}, AnyOf, "read", 100),
  Policy(TRUE, {"senior_analyst"}, HighlyCleared, AnyOf, {"executive"}, "read", 200),
  [Policy(FALSE, AnyOf, AnyOf, AnyOf, {"pii"}, "read", 300) EXCEPT !.consent = TRUE],
  Policy(TRUE, AnyOf, Cleared, {"model_inference"}, AnyOf, "execute", 100),
  Policy(TRUE, {"analyst", "senior_analyst", "soc_manager"}, AnyOf, {"incident_report"}, AnyOf,
         "read", 150),
  Policy(TRUE, {"soc_manager", "auditor", "compliance"}, HighlyCleared, {"audit_log"}, AnyOf,
         "read", 250)}

\* _matches_policy.  The path of the consent condition begins with the name of the
\* attribute map, which is no attribute of the subject: the condition is never met.
Matches(p, subject, entity) ==
  /\ p.roles = AnyOf \/ subject.role \in p.roles
  /\ p.clearances = AnyOf \/ subject.clearance \in p.clearances
  /\ p.types = AnyOf \/ entity.type \in p.types
  /\ p.markings = AnyOf \/ p.markings \cap entity.markings # {}
  /\ ~p.consent

Matching(subject, entity, action) ==
  {p \in Policies : p.action = action /\ Matches(p, subject, entity)}

\* evaluate: the matching policy of the highest priority decides, and none denies.
Permitted(subject, entity, action) ==
  \E p \in Matching(subject, entity, action) :
    /\ p.allow
    /\ \A q \in Matching(subject, entity, action) : q.priority <= p.priority

\* CyberGuardPolicyEngine.evaluate.  A token carries neither role nor consent, so every
\* subject is an analyst without; the session's risk is in hundredths.
Subject(context) == [role |-> "analyst", clearance |-> context.clearance]

Decision(context, entity, action) ==
  IF ~Permitted(Subject(context), entity, action) THEN "deny"
  ELSE IF \/ "executive" \in entity.markings /\ context.clearance \notin HighlyCleared
          \/ context.risk > 70
  THEN "challenge" ELSE "allow"
===============================================================================
