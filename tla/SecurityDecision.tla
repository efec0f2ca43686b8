---------------------------- MODULE SecurityDecision --------------------------
(***************************************************************************)
(* services/security_decision_engine.py: login risk decisions, incidents,  *)
(* demo containment of users and the audit log.  Every operation runs      *)
(* under one lock and is one step here.  The signals and weights of a      *)
(* login are abstracted to the score they produce; the band a score falls  *)
(* into is the code's.  Operations that raise change nothing and are not   *)
(* steps.                                                                  *)
(***************************************************************************)
EXTENDS Integers, Sequences, FiniteSets

CONSTANTS Users,      \* user ids
          Scores,     \* risk scores logins may have
          MaxLogins   \* bound on the number of login events

ASSUME DecisionAssumption ==
  /\ Scores \subseteq 0 .. 100
  /\ MaxLogins \in Nat

VARIABLES
  incidents,   \* _incidents: in creation order, an incident's id is its position
  access,      \* _access_state: per user; "NONE" where the dict has no entry
  events,      \* _login_events: whose login, and what was decided
  audit        \* _audit_log

vars == <<incidents, access, events, audit>>

NoIncident == 0
AccessStatus == {"NONE", "ACTIVE", "REVIEW_REQUIRED", "DEMO_CONTAINED"}
EventType == {"LOGIN_DETECTED", "LOGIN_ALLOWED", "LOGIN_FLAGGED",
              "INCIDENT_CREATED", "ACCESS_DENIED_DEMO", "INCIDENT_RESOLVED"}

Entry(type, u, i) == [event_type |-> type, user |-> u, incident |-> i]

Contained(u) == access[u].status = "DEMO_CONTAINED"

IncidentsOf(u) == {i \in DOMAIN incidents : incidents[i].user = u}
ActiveOf(u)    == {i \in IncidentsOf(u) : incidents[i].status = "ACTIVE"}
HeldOf(u)      == {i \in IncidentsOf(u) : incidents[i].containment = "DEMO_CONTAINED"}

\* next(... for item in _incidents.values() ...): the oldest one.
Oldest(S) == CHOOSE i \in S : \A j \in S : i <= j

\* _status: what a score alone decides.
Band(score) ==
  CASE score >= 80 -> [status |-> "HIGH_RISK",  access |-> "REQUIRE_ADMIN_REVIEW"]
    [] score \in 30 .. 79 -> [status |-> "SUSPICIOUS", access |-> "PENDING_REVIEW"]
    [] score < 30  -> [status |-> "SAFE", access |-> "ALLOWED"]

\* Slip: the score decides although the user is contained.
ScoreOnlyVerdict(u, score) == Band(score)

Verdict(u, score) ==
  IF Contained(u)
  THEN [status |-> "HIGH_RISK", access |-> "DENIED_DEMO_CONTAINED"]
  ELSE Band(score)

Init ==
  /\ incidents = <<>>
  /\ access = [u \in Users |-> [status |-> "NONE", incident |-> NoIncident]]
  /\ events = <<>>
  /\ audit = <<>>

-------------------------------------------------------------------------------
\* Slip: the incident is announced but never stored.
CreateIncidentUnstored(u, score, log) ==
  LET review == IF score >= 30 THEN "REVIEW_REQUIRED" ELSE "ACTIVE"
  IN /\ access' = IF access[u].status = "NONE"
                  THEN [access EXCEPT ![u] = [status |-> review, incident |-> NoIncident]]
                  ELSE access
     /\ audit' = log \o <<Entry("INCIDENT_CREATED", u, Len(incidents) + 1)>>
     /\ UNCHANGED incidents

\* create_incident after the entries `log`: setdefault leaves an existing access
\* state alone.
CreateIncident(u, score, log) ==
  LET id == Len(incidents) + 1
      review == IF score >= 30 THEN "REVIEW_REQUIRED" ELSE "ACTIVE"
  IN /\ incidents' = Append(incidents, [user |-> u, status |-> "ACTIVE",
                                        containment |-> "NOT_CONTAINED"])
     /\ access' = IF access[u].status = "NONE"
                  THEN [access EXCEPT ![u] = [status |-> review, incident |-> NoIncident]]
                  ELSE access
     /\ audit' = log \o <<Entry("INCIDENT_CREATED", u, id)>>

\* A login is detected, decided, and allowed, flagged against the incident its
\* user is held for, or turned into a new incident.
AssessLogin(u, score) ==
  LET verdict == Verdict(u, score)
      log == Append(audit, Entry("LOGIN_DETECTED", u, NoIncident))
      flagged == Contained(u) /\ HeldOf(u) # {}
  IN /\ Len(events) < MaxLogins
     /\ events' = Append(events, [user |-> u, verdict |-> verdict])
     /\ \/ /\ verdict.status = "SAFE"
           /\ audit' = Append(log, Entry("LOGIN_ALLOWED", u, NoIncident))
           /\ UNCHANGED <<incidents, access>>
        \/ /\ verdict.status # "SAFE" /\ flagged
           /\ audit' = Append(log, Entry("LOGIN_FLAGGED", u, Oldest(HeldOf(u))))
           /\ UNCHANGED <<incidents, access>>
        \/ /\ verdict.status # "SAFE" /\ ~flagged
           /\ CreateIncident(u, score, log)

\* Slip: the incident is looked up whatever its status.
DenyAccessAny(u) ==
  LET i == Oldest(IncidentsOf(u))
  IN /\ IncidentsOf(u) # {} /\ ~Contained(u)
     /\ access' = [access EXCEPT ![u] = [status |-> "DEMO_CONTAINED", incident |-> i]]
     /\ incidents' = [incidents EXCEPT ![i].status = "CONTAINED",
                                       ![i].containment = "DEMO_CONTAINED"]
     /\ audit' = Append(audit, Entry("ACCESS_DENIED_DEMO", u, i))
     /\ UNCHANGED events

\* Slip: only the user's access is changed, not the incident.
DenyAccessKeepsIncident(u) ==
  LET i == Oldest(ActiveOf(u))
  IN /\ ActiveOf(u) # {} /\ ~Contained(u)
     /\ access' = [access EXCEPT ![u] = [status |-> "DEMO_CONTAINED", incident |-> i]]
     /\ audit' = Append(audit, Entry("ACCESS_DENIED_DEMO", u, i))
     /\ UNCHANGED <<incidents, events>>

\* deny_access: the oldest active incident of a user not yet contained.
DenyAccess(u) ==
  LET i == Oldest(ActiveOf(u))
  IN /\ ActiveOf(u) # {}
     /\ ~Contained(u)
     /\ access' = [access EXCEPT ![u] = [status |-> "DEMO_CONTAINED", incident |-> i]]
     /\ incidents' = [incidents EXCEPT ![i].status = "CONTAINED",
                                       ![i].containment = "DEMO_CONTAINED"]
     /\ audit' = Append(audit, Entry("ACCESS_DENIED_DEMO", u, i))
     /\ UNCHANGED events

\* Slip: restoring needs no containment, only a known user.
RestoreAccessAny(u) ==
  /\ access[u].status # "NONE"
  /\ access' = [access EXCEPT ![u] = [status |-> "ACTIVE", incident |-> NoIncident]]
  /\ audit' = Append(audit, Entry("INCIDENT_RESOLVED", u, NoIncident))
  /\ Len(audit) < 3 * MaxLogins
  /\ UNCHANGED <<incidents, events>>

\* restore_access: the incident itself keeps its CONTAINED status.
RestoreAccess(u) ==
  /\ Contained(u)
  /\ access' = [access EXCEPT ![u] = [status |-> "ACTIVE", incident |-> NoIncident]]
  /\ audit' = Append(audit, Entry("INCIDENT_RESOLVED", u, NoIncident))
  /\ UNCHANGED <<incidents, events>>

Next ==
  \E u \in Users :
    \/ \E score \in Scores : AssessLogin(u, score)
    \/ DenyAccess(u)
    \/ RestoreAccess(u)

Spec == Init /\ [][Next]_vars

-------------------------------------------------------------------------------
(* Properties *)

\* The stores keep their shape, and whatever names an incident names one that
\* exists.
TypeOK ==
  /\ incidents \in Seq([user : Users, status : {"ACTIVE", "CONTAINED"},
                        containment : {"NOT_CONTAINED", "DEMO_CONTAINED"}])
  /\ access \in [Users -> [status : AccessStatus, incident : 0 .. Len(incidents)]]
  /\ events \in Seq([user : Users,
                     verdict : [status : {"SAFE", "SUSPICIOUS", "HIGH_RISK"},
                                access : {"ALLOWED", "PENDING_REVIEW", "REQUIRE_ADMIN_REVIEW",
                                          "DENIED_DEMO_CONTAINED"}]])
  /\ audit \in Seq([event_type : EventType, user : Users, incident : 0 .. Len(incidents)])

\* A contained user is held for one of the user's own incidents, which is
\* itself marked contained; so a denied login always finds an incident to be
\* flagged against.
ContainmentBacked ==
  \A u \in Users : Contained(u) => access[u].incident \in HeldOf(u)

Entries(type, u) ==
  {n \in DOMAIN audit : audit[n].event_type = type /\ audit[n].user = u}

Between(type, u, n, m) == \E k \in Entries(type, u) : n < k /\ k < m

\* The audit log alone tells who is contained: denials and resolutions of a
\* user alternate, and the last one is a denial exactly for a contained user.
AuditTellsContainment ==
  \A u \in Users :
    LET D == Entries("ACCESS_DENIED_DEMO", u)
        R == Entries("INCIDENT_RESOLVED", u)
    IN /\ \A n, m \in D : n < m => Between("INCIDENT_RESOLVED", u, n, m)
       /\ \A n, m \in R : n < m => Between("ACCESS_DENIED_DEMO", u, n, m)
       /\ \A n \in R : \E m \in D : m < n
       /\ Contained(u) <=> \E n \in D : \A m \in R : m < n

\* An incident is created once and denied at most once, in that order, and it is
\* marked contained exactly when the log has its denial.
IncidentLifecycle ==
  \A i \in DOMAIN incidents :
    LET C == {n \in DOMAIN audit : audit[n].event_type = "INCIDENT_CREATED"
                                   /\ audit[n].incident = i}
        D == {n \in DOMAIN audit : audit[n].event_type = "ACCESS_DENIED_DEMO"
                                   /\ audit[n].incident = i}
    IN /\ Cardinality(C) = 1 /\ Cardinality(D) <= 1
       /\ \A c \in C, d \in D : c < d
       /\ incidents[i].status = "CONTAINED" <=> D # {}

\* While a user is contained no login of that user is allowed and none opens a
\* new incident.
QuietWhileContained ==
  \A u \in Users :
    \A n \in Entries("ACCESS_DENIED_DEMO", u),
       m \in Entries("LOGIN_ALLOWED", u) \cup Entries("INCIDENT_CREATED", u) :
      n < m => Between("INCIDENT_RESOLVED", u, n, m)
===============================================================================
