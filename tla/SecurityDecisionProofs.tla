------------------------- MODULE SecurityDecisionProofs -----------------------
(***************************************************************************)
(* Proofs about SecurityDecision for all users, scores and numbers of      *)
(* logins: typing with referential integrity, and that a contained user is *)
(* always held for an incident of the user's own that is marked contained; *)
(* and about SecurityConsole for every number of consoles: no toast claims *)
(* a denial another request made.                                          *)
(***************************************************************************)
EXTENDS SecurityConsole, WellFoundedInduction, SequenceTheorems, FiniteSetTheorems,
        TLAPS

IInv == TypeOK /\ ContainmentBacked

Incident == [user : Users, status : {"ACTIVE", "CONTAINED"},
             containment : {"NOT_CONTAINED", "DEMO_CONTAINED"}]

-------------------------------------------------------------------------------
\* The less-than relation on the naturals is well founded.
Less == {p \in Nat \X Nat : p[1] < p[2]}

LEMMA LessWellFounded == IsWellFoundedOn(Less, Nat)
BY Zenon, NatLessThanWellFounded DEF OpToRel, Less

\* A nonempty set of positions has an oldest member.
LEMMA OldestMember ==
  ASSUME NEW S \in SUBSET Nat, S # {}
  PROVE  Oldest(S) \in S
<1>1. PICK m \in S : \A k \in S : ~ (<<k, m>> \in Less)
  BY LessWellFounded, WFMin
<1>2. ASSUME NEW k \in S  PROVE m <= k
  <2>1. k \in Nat /\ m \in Nat
    OBVIOUS
  <2>2. k < m => <<k, m>> \in Less
    BY <2>1 DEF Less
  <2>. QED  BY <1>1, <2>1, <2>2
<1>. QED  BY <1>2 DEF Oldest

\* The oldest active incident of a user is one of the user's active incidents.
LEMMA OldestActive ==
  ASSUME TypeOK, NEW u \in Users, ActiveOf(u) # {}
  PROVE  /\ Oldest(ActiveOf(u)) \in DOMAIN incidents
         /\ Oldest(ActiveOf(u)) \in 1 .. Len(incidents)
         /\ incidents[Oldest(ActiveOf(u))].user = u
         /\ incidents[Oldest(ActiveOf(u))].status = "ACTIVE"
<1>1. DOMAIN incidents = 1 .. Len(incidents) /\ Len(incidents) \in Nat
  BY LenProperties DEF TypeOK
<1>2. ActiveOf(u) \in SUBSET Nat
  BY <1>1 DEF ActiveOf, IncidentsOf
<1>3. Oldest(ActiveOf(u)) \in ActiveOf(u)
  BY <1>2, OldestMember
<1>. QED  BY <1>1, <1>3 DEF ActiveOf, IncidentsOf

\* A contained user's held incidents are nonempty, and their oldest is one.
LEMMA OldestHeld ==
  ASSUME TypeOK, NEW u \in Users, HeldOf(u) # {}
  PROVE  Oldest(HeldOf(u)) \in 1 .. Len(incidents)
<1>1. DOMAIN incidents = 1 .. Len(incidents) /\ Len(incidents) \in Nat
  BY LenProperties DEF TypeOK
<1>2. HeldOf(u) \in SUBSET Nat
  BY <1>1 DEF HeldOf, IncidentsOf
<1>3. Oldest(HeldOf(u)) \in HeldOf(u)
  BY <1>2, OldestMember
<1>. QED  BY <1>1, <1>3 DEF HeldOf, IncidentsOf

\* The verdict of a login is one of the four the code returns.
LEMMA VerdictTyped ==
  ASSUME NEW u \in Users, NEW score \in Scores
  PROVE  Verdict(u, score) \in
           [status : {"SAFE", "SUSPICIOUS", "HIGH_RISK"},
            access : {"ALLOWED", "PENDING_REVIEW", "REQUIRE_ADMIN_REVIEW",
                      "DENIED_DEMO_CONTAINED"}]
<1>1. score \in 0 .. 100
  BY DecisionAssumption
<1>. QED  BY <1>1 DEF Verdict, Band

-------------------------------------------------------------------------------
(* The stores' types, one lemma per operation. *)

AuditEntry(n) == [event_type : EventType, user : Users, incident : 0 .. n]
AccessEntry(n) == [status : AccessStatus, incident : 0 .. n]

\* References stay valid while the incident store grows.
LEMMA AuditGrows ==
  ASSUME NEW n \in Nat, NEW s \in Seq(AuditEntry(n))
  PROVE  s \in Seq(AuditEntry(n + 1))
<1>1. AuditEntry(n) \subseteq AuditEntry(n + 1)
  BY DEF AuditEntry
<1>. QED  BY <1>1, SeqMonotonic

\* Appending one well-formed entry keeps the log well formed.
LEMMA AuditAppend ==
  ASSUME NEW n \in Nat, NEW s \in Seq(AuditEntry(n)),
         NEW type \in EventType, NEW u \in Users, NEW i \in 0 .. n
  PROVE  Append(s, Entry(type, u, i)) \in Seq(AuditEntry(n))
<1>1. Entry(type, u, i) \in AuditEntry(n)
  BY DEF Entry, AuditEntry
<1>. QED  BY <1>1, AppendProperties

LEMMA Lengths ==
  ASSUME TypeOK
  PROVE  /\ Len(incidents) \in Nat
         /\ DOMAIN incidents = 1 .. Len(incidents)
         /\ audit \in Seq(AuditEntry(Len(incidents)))
         /\ access \in [Users -> AccessEntry(Len(incidents))]
BY LenProperties DEF TypeOK, AuditEntry, AccessEntry

\* A new incident: the other incidents keep their positions.
LEMMA CreateStep ==
  ASSUME TypeOK, NEW u \in Users, NEW score \in Scores,
         NEW log \in Seq(AuditEntry(Len(incidents))),
         CreateIncident(u, score, log)
  PROVE  /\ incidents' \in Seq(Incident)
         /\ Len(incidents') = Len(incidents) + 1
         /\ \A i \in DOMAIN incidents : i \in DOMAIN incidents' /\ incidents'[i] = incidents[i]
         /\ incidents'[Len(incidents) + 1].status = "ACTIVE"
         /\ incidents'[Len(incidents) + 1].containment = "NOT_CONTAINED"
         /\ DOMAIN incidents' = 1 .. Len(incidents) + 1
         /\ access' \in [Users -> AccessEntry(Len(incidents'))]
         /\ audit' \in Seq(AuditEntry(Len(incidents')))
<1>. DEFINE n == Len(incidents)
            new == [user |-> u, status |-> "ACTIVE", containment |-> "NOT_CONTAINED"]
<1>1. n \in Nat /\ DOMAIN incidents = 1 .. n /\ incidents \in Seq(Incident)
  BY Lengths DEF TypeOK, Incident
<1>2. new \in Incident
  BY DEF Incident
<1>3. incidents' = Append(incidents, new)
  BY DEF CreateIncident
<1>4. /\ incidents' \in Seq(Incident)
      /\ Len(incidents') = n + 1
      /\ \A i \in 1 .. n : incidents'[i] = incidents[i]
      /\ incidents'[n + 1] = new
  BY <1>1, <1>2, <1>3, AppendProperties
<1>5. DOMAIN incidents' = 1 .. n + 1
  BY <1>4, LenProperties
<1>6. access' \in [Users -> AccessEntry(n + 1)]
  BY <1>1, Lengths DEF CreateIncident, AccessEntry, AccessStatus, NoIncident
<1>7. log \in Seq(AuditEntry(n + 1))
  BY <1>1, AuditGrows
<1>8. Entry("INCIDENT_CREATED", u, n + 1) \in AuditEntry(n + 1)
  BY <1>1 DEF Entry, AuditEntry, EventType
<1>9. audit' = log \o <<Entry("INCIDENT_CREATED", u, n + 1)>>
  BY DEF CreateIncident
<1>10. audit' \in Seq(AuditEntry(n + 1))
  BY <1>7, <1>8, <1>9
<1>. QED  BY <1>1, <1>4, <1>5, <1>6, <1>10

LEMMA AssessStep ==
  ASSUME IInv, NEW u \in Users, NEW score \in Scores, AssessLogin(u, score)
  PROVE  IInv'
<1>. DEFINE n == Len(incidents)
            log == Append(audit, Entry("LOGIN_DETECTED", u, NoIncident))
<1>1. n \in Nat /\ DOMAIN incidents = 1 .. n
  BY Lengths DEF IInv
<1>2. log \in Seq(AuditEntry(n))
  BY <1>1, Lengths, AuditAppend DEF IInv, EventType, NoIncident
<1>3. events' \in Seq([user : Users,
                      verdict : [status : {"SAFE", "SUSPICIOUS", "HIGH_RISK"},
                                 access : {"ALLOWED", "PENDING_REVIEW", "REQUIRE_ADMIN_REVIEW",
                                           "DENIED_DEMO_CONTAINED"}]])
  <2>1. events' = Append(events, [user |-> u, verdict |-> Verdict(u, score)])
    BY DEF AssessLogin
  <2>. QED  BY <2>1, VerdictTyped DEF IInv, TypeOK
<1>4. CASE UNCHANGED <<incidents, access>> /\ audit' \in Seq(AuditEntry(n))
  <2>1. TypeOK'
    BY <1>3, <1>4 DEF IInv, TypeOK, AuditEntry
  <2>2. ContainmentBacked'
    BY <1>4 DEF IInv, ContainmentBacked, Contained, HeldOf, IncidentsOf
  <2>. QED  BY <2>1, <2>2 DEF IInv
<1>5. CASE CreateIncident(u, score, log)
  <2>1. /\ incidents' \in Seq(Incident)
        /\ Len(incidents') = n + 1
        /\ \A i \in 1 .. n : i \in DOMAIN incidents' /\ incidents'[i] = incidents[i]
        /\ incidents'[n + 1].status = "ACTIVE"
        /\ incidents'[n + 1].containment = "NOT_CONTAINED"
        /\ DOMAIN incidents' = 1 .. n + 1
        /\ access' \in [Users -> AccessEntry(Len(incidents'))]
        /\ audit' \in Seq(AuditEntry(Len(incidents')))
    BY <1>1, <1>2, <1>5, CreateStep DEF IInv
  <2>2. TypeOK'
    BY <1>3, <2>1 DEF TypeOK, Incident, AccessEntry, AuditEntry
  <2>3. ContainmentBacked'
    <3>. SUFFICES ASSUME NEW v \in Users, Contained(v)'
                  PROVE  (access[v].incident)' \in (HeldOf(v))'
      BY DEF ContainmentBacked
    <3>1. Contained(v) /\ access'[v] = access[v]
      BY <1>5 DEF CreateIncident, Contained, IInv, TypeOK
    <3>2. access[v].incident \in HeldOf(v)
      BY <3>1 DEF IInv, ContainmentBacked
    <3>. QED  BY <1>1, <2>1, <3>1, <3>2 DEF HeldOf, IncidentsOf
  <2>. QED  BY <2>2, <2>3 DEF IInv
<1>6. ASSUME Verdict(u, score).status = "SAFE",
             audit' = Append(log, Entry("LOGIN_ALLOWED", u, NoIncident))
      PROVE  audit' \in Seq(AuditEntry(n))
  BY <1>1, <1>2, <1>6, AuditAppend DEF EventType, NoIncident
<1>7. ASSUME HeldOf(u) # {},
             audit' = Append(log, Entry("LOGIN_FLAGGED", u, Oldest(HeldOf(u))))
      PROVE  audit' \in Seq(AuditEntry(n))
  <2>1. Oldest(HeldOf(u)) \in 0 .. n
    BY <1>1, <1>7, OldestHeld DEF IInv
  <2>. QED  BY <1>1, <1>2, <1>7, <2>1, AuditAppend DEF EventType
<1>. QED  BY <1>4, <1>5, <1>6, <1>7 DEF AssessLogin

\* A denial marks the oldest active incident and leaves the others alone.
LEMMA DenyMarks ==
  ASSUME IInv, NEW u \in Users, DenyAccess(u)
  PROVE  LET n == Len(incidents)
             i == Oldest(ActiveOf(u))
         IN /\ i \in 1 .. n /\ incidents[i].user = u /\ incidents[i].status = "ACTIVE"
            /\ incidents' \in Seq(Incident) /\ Len(incidents') = n
            /\ DOMAIN incidents' = 1 .. n
            /\ incidents'[i].user = u /\ incidents'[i].status = "CONTAINED"
            /\ incidents'[i].containment = "DEMO_CONTAINED"
            /\ \A j \in 1 .. n : j # i => incidents'[j] = incidents[j]
<1>. DEFINE n == Len(incidents)
            i == Oldest(ActiveOf(u))
            closed == [incidents[i] EXCEPT !.status = "CONTAINED",
                                           !.containment = "DEMO_CONTAINED"]
<1>1. n \in Nat /\ DOMAIN incidents = 1 .. n /\ incidents \in Seq(Incident)
  BY Lengths DEF IInv, TypeOK, Incident
<1>2. /\ i \in 1 .. n /\ incidents[i].user = u /\ incidents[i].status = "ACTIVE"
      /\ incidents[i] \in Incident
  <2>1. ActiveOf(u) # {}
    BY DEF DenyAccess
  <2>2. i \in 1 .. n /\ incidents[i].user = u /\ incidents[i].status = "ACTIVE"
    BY <2>1, OldestActive DEF IInv
  <2>. QED  BY <1>1, <2>2, ElementOfSeq
<1>3. /\ closed \in Incident
      /\ closed.user = u
      /\ closed.status = "CONTAINED"
      /\ closed.containment = "DEMO_CONTAINED"
  BY <1>2 DEF Incident
<1>4. incidents' = [incidents EXCEPT ![i] = closed]
  BY DEF DenyAccess
<1>. HIDE DEF closed
<1>5. /\ incidents' \in Seq(Incident)
      /\ Len(incidents') = n
      /\ DOMAIN incidents' = 1 .. n
      /\ incidents'[i] = closed
      /\ \A j \in 1 .. n : j # i => incidents'[j] = incidents[j]
  BY <1>1, <1>2, <1>3, <1>4, ExceptSeq, LenProperties
<1>. QED  BY <1>2, <1>3, <1>5

LEMMA DenyStep ==
  ASSUME IInv, NEW u \in Users, DenyAccess(u)
  PROVE  IInv'
<1>. DEFINE n == Len(incidents)
            i == Oldest(ActiveOf(u))
<1>1. n \in Nat /\ DOMAIN incidents = 1 .. n
  BY Lengths DEF IInv
<1>2. /\ i \in 1 .. n /\ incidents[i].user = u
      /\ incidents' \in Seq(Incident) /\ Len(incidents') = n
      /\ DOMAIN incidents' = 1 .. n
      /\ incidents'[i].user = u /\ incidents'[i].containment = "DEMO_CONTAINED"
      /\ \A j \in 1 .. n : j # i => incidents'[j] = incidents[j]
  BY DenyMarks
<1>3. access' = [access EXCEPT ![u] = [status |-> "DEMO_CONTAINED", incident |-> i]]
  BY DEF DenyAccess
<1>4. /\ access \in [Users -> AccessEntry(n)]
      /\ audit \in Seq(AuditEntry(n))
  BY Lengths DEF IInv
<1>5. TypeOK'
  <2>1. access' \in [Users -> AccessEntry(n)]
    BY <1>2, <1>3, <1>4 DEF AccessEntry, AccessStatus
  <2>2. audit' \in Seq(AuditEntry(n))
    <3>1. audit' = Append(audit, Entry("ACCESS_DENIED_DEMO", u, i))
      BY DEF DenyAccess
    <3>. QED  BY <1>1, <1>2, <1>4, <3>1, AuditAppend DEF EventType
  <2>3. UNCHANGED events
    BY DEF DenyAccess
  <2>. QED  BY <1>2, <2>1, <2>2, <2>3 DEF IInv, TypeOK, Incident, AccessEntry, AuditEntry
<1>6. ContainmentBacked'
  <2>. SUFFICES ASSUME NEW v \in Users, Contained(v)'
                PROVE  (access[v].incident)' \in (HeldOf(v))'
    BY DEF ContainmentBacked
  <2>1. CASE v = u
    BY <1>2, <1>3, <1>4, <2>1 DEF HeldOf, IncidentsOf
  <2>2. CASE v # u
    <3>1. access'[v] = access[v] /\ Contained(v)
      BY <1>3, <1>4, <2>2 DEF Contained
    <3>2. access[v].incident \in HeldOf(v)
      BY <3>1 DEF IInv, ContainmentBacked
    <3>3. access[v].incident # i
      BY <1>2, <2>2, <3>2 DEF HeldOf, IncidentsOf
    <3>. QED  BY <1>1, <1>2, <3>1, <3>2, <3>3 DEF HeldOf, IncidentsOf
  <2>. QED  BY <2>1, <2>2
<1>. QED  BY <1>5, <1>6 DEF IInv

LEMMA RestoreStep ==
  ASSUME IInv, NEW u \in Users, RestoreAccess(u)
  PROVE  IInv'
<1>. DEFINE n == Len(incidents)
<1>1. /\ n \in Nat
      /\ access \in [Users -> AccessEntry(n)]
      /\ audit \in Seq(AuditEntry(n))
  BY Lengths DEF IInv
<1>2. /\ access' = [access EXCEPT ![u] = [status |-> "ACTIVE", incident |-> NoIncident]]
      /\ audit' = Append(audit, Entry("INCIDENT_RESOLVED", u, NoIncident))
      /\ UNCHANGED <<incidents, events>>
  BY DEF RestoreAccess
<1>3. TypeOK'
  <2>1. access' \in [Users -> AccessEntry(n)]
    BY <1>1, <1>2 DEF AccessEntry, AccessStatus, NoIncident
  <2>2. audit' \in Seq(AuditEntry(n))
    BY <1>1, <1>2, AuditAppend DEF EventType, NoIncident
  <2>. QED  BY <1>2, <2>1, <2>2 DEF IInv, TypeOK, AccessEntry, AuditEntry
<1>4. ContainmentBacked'
  <2>. SUFFICES ASSUME NEW v \in Users, Contained(v)'
                PROVE  (access[v].incident)' \in (HeldOf(v))'
    BY DEF ContainmentBacked
  <2>1. access'[v] = access[v] /\ Contained(v)
    BY <1>1, <1>2 DEF Contained
  <2>. QED  BY <1>2, <2>1 DEF IInv, ContainmentBacked, HeldOf, IncidentsOf
<1>. QED  BY <1>3, <1>4 DEF IInv

-------------------------------------------------------------------------------
LEMMA InitInv == Init => IInv
BY EmptySeq DEF Init, IInv, TypeOK, ContainmentBacked, Contained,
       AccessStatus, NoIncident

LEMMA Inductive == IInv /\ [Next]_vars => IInv'
<1>. SUFFICES ASSUME IInv, [Next]_vars
              PROVE  IInv'
  OBVIOUS
<1>1. CASE Next
  BY <1>1, AssessStep, DenyStep, RestoreStep DEF Next
<1>2. CASE UNCHANGED vars
  BY <1>2 DEF vars, IInv, TypeOK, ContainmentBacked, Contained,
         HeldOf, IncidentsOf
<1>. QED  BY <1>1, <1>2

\* Every reachable state satisfies the inductive invariant.
THEOREM Invariance == Spec => []IInv
BY InitInv, Inductive, PTL DEF Spec

\* The stores keep their shape, and every incident named in the access state or
\* the audit log exists.
THEOREM TypeCorrect == Spec => []TypeOK
BY Invariance, PTL DEF IInv

\* A contained user is held for an own incident that is marked contained, so a
\* denied login never falls through to create_incident.
THEOREM ContainmentHeld == Spec => []ContainmentBacked
BY Invariance, PTL DEF IInv

-------------------------------------------------------------------------------
(* The audit log's story, told by the positions of a user's entries: D those of *)
(* denials, R of resolutions, L of logins allowed and incidents created.        *)

Alternate(D, R) ==
  /\ \A n, m \in D : n < m => \E k \in R : n < k /\ k < m
  /\ \A n, m \in R : n < m => \E k \in D : n < k /\ k < m
  /\ \A n \in R : \E m \in D : m < n

DeniedLast(D, R) == \E n \in D : \A m \in R : m < n

QuietAfter(D, R, L) == \A n \in D, m \in L : n < m => \E k \in R : n < k /\ k < m

Quiets(u) == Entries("LOGIN_ALLOWED", u) \cup Entries("INCIDENT_CREATED", u)

IncidentStory(u) ==
  /\ Alternate(Entries("ACCESS_DENIED_DEMO", u), Entries("INCIDENT_RESOLVED", u))
  /\ Contained(u) <=>
       DeniedLast(Entries("ACCESS_DENIED_DEMO", u), Entries("INCIDENT_RESOLVED", u))
  /\ QuietAfter(Entries("ACCESS_DENIED_DEMO", u), Entries("INCIDENT_RESOLVED", u), Quiets(u))

StoryInv == IInv /\ \A u \in Users : IncidentStory(u)

\* A denial of a user whose last entry is no denial.
LEMMA DeniedAgain ==
  ASSUME NEW n \in Nat, NEW D \in SUBSET (1 .. n), NEW R \in SUBSET (1 .. n),
         NEW L \in SUBSET (1 .. n),
         D \cap R = {}, Alternate(D, R), ~DeniedLast(D, R), QuietAfter(D, R, L)
  PROVE  /\ Alternate(D \cup {n + 1}, R) /\ DeniedLast(D \cup {n + 1}, R)
         /\ QuietAfter(D \cup {n + 1}, R, L)
<1>1. \A d \in D : \E m \in R : d < m /\ m < n + 1
  BY DEF DeniedLast
<1>2. Alternate(D \cup {n + 1}, R)
  BY <1>1 DEF Alternate
<1>3. DeniedLast(D \cup {n + 1}, R)
  BY DEF DeniedLast
<1>4. QuietAfter(D \cup {n + 1}, R, L)
  BY DEF QuietAfter
<1>. QED  BY <1>2, <1>3, <1>4

\* A resolution of a user whose last entry is a denial.
LEMMA ResolvedAgain ==
  ASSUME NEW n \in Nat, NEW D \in SUBSET (1 .. n), NEW R \in SUBSET (1 .. n),
         NEW L \in SUBSET (1 .. n),
         Alternate(D, R), DeniedLast(D, R), QuietAfter(D, R, L)
  PROVE  /\ Alternate(D, R \cup {n + 1}) /\ ~DeniedLast(D, R \cup {n + 1})
         /\ QuietAfter(D, R \cup {n + 1}, L)
<1>1. PICK d \in D : \A m \in R : m < d
  BY DEF DeniedLast
<1>2. Alternate(D, R \cup {n + 1})
  BY <1>1 DEF Alternate
<1>3. ~DeniedLast(D, R \cup {n + 1})
  BY DEF DeniedLast
<1>4. QuietAfter(D, R \cup {n + 1}, L)
  BY DEF QuietAfter
<1>. QED  BY <1>2, <1>3, <1>4

\* A login allowed, or an incident created, for a user whose last entry is no denial.
LEMMA AllowedAgain ==
  ASSUME NEW n \in Nat, NEW D \in SUBSET (1 .. n), NEW R \in SUBSET (1 .. n),
         NEW L \in SUBSET (1 .. n),
         D \cap R = {}, ~DeniedLast(D, R), QuietAfter(D, R, L)
  PROVE  QuietAfter(D, R, L \cup {n + 2})
<1>1. \A d \in D : \E m \in R : d < m /\ m < n + 2
  BY DEF DeniedLast
<1>. QED  BY <1>1 DEF QuietAfter

\* The entries of a user in a log that grows.
LEMMA EntriesGrow ==
  ASSUME NEW n \in Nat, NEW m \in Nat, n <= m, DOMAIN audit = 1 .. n, DOMAIN audit' = 1 .. m,
         \A k \in 1 .. n : audit'[k] = audit[k], NEW type, NEW u
  PROVE  /\ Entries(type, u) \in SUBSET (1 .. n)
         /\ Entries(type, u)' = Entries(type, u)
              \cup {k \in n + 1 .. m : audit'[k].event_type = type /\ audit'[k].user = u}
<1>1. 1 .. m = (1 .. n) \cup (n + 1 .. m)
  OBVIOUS
<1>. QED  BY <1>1 DEF Entries

\* One more entry.
LEMMA OneEntry ==
  ASSUME IInv, NEW e, audit' = Append(audit, e)
  PROVE  LET n == Len(audit)
         IN /\ n \in Nat /\ DOMAIN audit = 1 .. n /\ DOMAIN audit' = 1 .. n + 1
            /\ \A k \in 1 .. n : audit'[k] = audit[k]
            /\ audit'[n + 1] = e
<1>1. audit \in Seq(AuditEntry(Len(incidents)) \cup {e})
  <2>1. audit \in Seq(AuditEntry(Len(incidents)))
    BY Lengths DEF IInv
  <2>. QED  BY <2>1, SeqMonotonic
<1>. QED  BY <1>1, AppendProperties, LenProperties

\* Two more entries: a login and what became of it.
LEMMA TwoEntries ==
  ASSUME IInv, NEW e, NEW f,
         \/ audit' = Append(Append(audit, e), f)
         \/ audit' = Append(audit, e) \o <<f>>
  PROVE  LET n == Len(audit)
         IN /\ n \in Nat /\ DOMAIN audit = 1 .. n /\ DOMAIN audit' = 1 .. n + 2
            /\ \A k \in 1 .. n : audit'[k] = audit[k]
            /\ audit'[n + 1] = e /\ audit'[n + 2] = f
<1>. DEFINE S == AuditEntry(Len(incidents)) \cup {e, f}
            one == Append(audit, e)
            n == Len(audit)
<1>1. audit \in Seq(S)
  <2>1. audit \in Seq(AuditEntry(Len(incidents)))
    BY Lengths DEF IInv
  <2>. QED  BY <2>1, SeqMonotonic
<1>2. /\ one \in Seq(S) /\ Len(one) = n + 1 /\ n \in Nat /\ DOMAIN audit = 1 .. n
      /\ \A k \in 1 .. n : one[k] = audit[k]
      /\ one[n + 1] = e
  BY <1>1, AppendProperties, LenProperties
<1>. HIDE DEF one
<1>3. audit' = Append(one, f)
  BY <1>2, AppendIsConcat DEF one
<1>4. /\ audit' \in Seq(S) /\ Len(audit') = n + 2
      /\ \A k \in 1 .. n + 1 : audit'[k] = one[k]
      /\ audit'[n + 2] = f
  BY <1>2, <1>3, AppendProperties
<1>5. DOMAIN audit' = 1 .. n + 2
  BY <1>4, LenProperties
<1>. QED  BY <1>2, <1>4, <1>5

\* Entries of different types are at different positions.
LEMMA EntriesApart ==
  ASSUME NEW u
  PROVE  Entries("ACCESS_DENIED_DEMO", u) \cap Entries("INCIDENT_RESOLVED", u) = {}
BY DEF Entries

\* A denial and a resolution each add their own entry to the user's story.
LEMMA DenialTold ==
  ASSUME StoryInv, NEW u \in Users, DenyAccess(u), NEW v \in Users
  PROVE  IncidentStory(v)'
<1>. DEFINE n == Len(audit)
            i == Oldest(ActiveOf(u))
            D == Entries("ACCESS_DENIED_DEMO", v)
            R == Entries("INCIDENT_RESOLVED", v)
            L == Quiets(v)
<1>1. /\ audit' = Append(audit, Entry("ACCESS_DENIED_DEMO", u, i)) /\ ~Contained(u)
      /\ access' = [access EXCEPT ![u] = [status |-> "DEMO_CONTAINED", incident |-> i]]
  BY DEF DenyAccess
<1>2. /\ n \in Nat /\ DOMAIN audit = 1 .. n /\ DOMAIN audit' = 1 .. n + 1
      /\ \A k \in 1 .. n : audit'[k] = audit[k]
      /\ audit'[n + 1] = Entry("ACCESS_DENIED_DEMO", u, i)
  BY <1>1, OneEntry DEF StoryInv
<1>3. /\ audit'[n + 1].event_type = "ACCESS_DENIED_DEMO" /\ audit'[n + 1].user = u
      /\ n + 1 .. n + 1 = {n + 1}
  BY <1>2 DEF Entry
<1>. HIDE DEF n
<1>4. ASSUME NEW type \in EventType
      PROVE  /\ Entries(type, v) \in SUBSET (1 .. n)
             /\ Entries(type, v)' = Entries(type, v)
                  \cup {k \in n + 1 .. n + 1 :
                          audit'[k].event_type = type /\ audit'[k].user = v}
  <2>1. n + 1 \in Nat /\ n <= n + 1
    BY <1>2
  <2>. QED  BY <1>2, <2>1, EntriesGrow
<1>5. /\ D \in SUBSET (1 .. n) /\ R \in SUBSET (1 .. n) /\ L \in SUBSET (1 .. n)
      /\ R' = R /\ L' = L
      /\ D' = IF u = v THEN D \cup {n + 1} ELSE D
  BY <1>3, <1>4 DEF Quiets, EventType
<1>6. /\ Alternate(D, R) /\ QuietAfter(D, R, L) /\ (Contained(v) <=> DeniedLast(D, R))
      /\ D \cap R = {}
  BY EntriesApart DEF StoryInv, IncidentStory
<1>7. Contained(v)' <=> u = v \/ Contained(v)
  BY <1>1, Lengths DEF Contained, StoryInv, IInv, AccessEntry
<1>. HIDE DEF D, R, L
<1>8. /\ Alternate(D', R') /\ QuietAfter(D', R', L')
      /\ Contained(v)' <=> DeniedLast(D', R')
  <2>1. CASE u = v
    <3>1. ~DeniedLast(D, R)
      BY <1>1, <1>6, <2>1
    <3>2. D' = D \cup {n + 1} /\ Contained(v)'
      BY <1>5, <1>7, <2>1
    <3>. QED  BY <1>2, <1>5, <1>6, <3>1, <3>2, DeniedAgain
  <2>2. CASE u # v
    BY <1>5, <1>6, <1>7, <2>2
  <2>. QED  BY <2>1, <2>2
<1>. QED  BY <1>8 DEF IncidentStory, Alternate, DeniedLast, QuietAfter, D, R, L

LEMMA ResolutionTold ==
  ASSUME StoryInv, NEW u \in Users, RestoreAccess(u), NEW v \in Users
  PROVE  IncidentStory(v)'
<1>. DEFINE n == Len(audit)
            D == Entries("ACCESS_DENIED_DEMO", v)
            R == Entries("INCIDENT_RESOLVED", v)
            L == Quiets(v)
<1>1. /\ audit' = Append(audit, Entry("INCIDENT_RESOLVED", u, NoIncident)) /\ Contained(u)
      /\ access' = [access EXCEPT ![u] = [status |-> "ACTIVE", incident |-> NoIncident]]
  BY DEF RestoreAccess
<1>2. /\ n \in Nat /\ DOMAIN audit = 1 .. n /\ DOMAIN audit' = 1 .. n + 1
      /\ \A k \in 1 .. n : audit'[k] = audit[k]
      /\ audit'[n + 1] = Entry("INCIDENT_RESOLVED", u, NoIncident)
  BY <1>1, OneEntry DEF StoryInv
<1>3. /\ audit'[n + 1].event_type = "INCIDENT_RESOLVED" /\ audit'[n + 1].user = u
      /\ n + 1 .. n + 1 = {n + 1}
  BY <1>2 DEF Entry
<1>. HIDE DEF n
<1>4. ASSUME NEW type \in EventType
      PROVE  /\ Entries(type, v) \in SUBSET (1 .. n)
             /\ Entries(type, v)' = Entries(type, v)
                  \cup {k \in n + 1 .. n + 1 :
                          audit'[k].event_type = type /\ audit'[k].user = v}
  <2>1. n + 1 \in Nat /\ n <= n + 1
    BY <1>2
  <2>. QED  BY <1>2, <2>1, EntriesGrow
<1>5. /\ D \in SUBSET (1 .. n) /\ R \in SUBSET (1 .. n) /\ L \in SUBSET (1 .. n)
      /\ D' = D /\ L' = L
      /\ R' = IF u = v THEN R \cup {n + 1} ELSE R
  BY <1>3, <1>4 DEF Quiets, EventType
<1>6. Alternate(D, R) /\ QuietAfter(D, R, L) /\ (Contained(v) <=> DeniedLast(D, R))
  BY DEF StoryInv, IncidentStory
<1>7. Contained(v)' <=> u # v /\ Contained(v)
  BY <1>1, Lengths DEF Contained, StoryInv, IInv, AccessEntry
<1>. HIDE DEF D, R, L
<1>8. /\ Alternate(D', R') /\ QuietAfter(D', R', L')
      /\ Contained(v)' <=> DeniedLast(D', R')
  <2>1. CASE u = v
    <3>1. DeniedLast(D, R)
      BY <1>1, <1>6, <2>1
    <3>2. R' = R \cup {n + 1} /\ ~Contained(v)'
      BY <1>5, <1>7, <2>1
    <3>. QED  BY <1>2, <1>5, <1>6, <3>1, <3>2, ResolvedAgain
  <2>2. CASE u # v
    BY <1>5, <1>6, <1>7, <2>2
  <2>. QED  BY <2>1, <2>2
<1>. QED  BY <1>8 DEF IncidentStory, Alternate, DeniedLast, QuietAfter, D, R, L

\* A login adds two entries, and is only allowed, or turned into an incident, for a user
\* who is not contained.
LEMMA LoginTold ==
  ASSUME StoryInv, NEW u \in Users, NEW score \in Scores, AssessLogin(u, score),
         NEW v \in Users
  PROVE  IncidentStory(v)'
<1>. DEFINE n == Len(audit)
            D == Entries("ACCESS_DENIED_DEMO", v)
            R == Entries("INCIDENT_RESOLVED", v)
            L == Quiets(v)
            log == Append(audit, Entry("LOGIN_DETECTED", u, NoIncident))
<1>1. Contained(u) => HeldOf(u) # {} /\ Verdict(u, score).status # "SAFE"
  BY DEF StoryInv, IInv, ContainmentBacked, Verdict
<1>2. \E type \in {"LOGIN_ALLOWED", "LOGIN_FLAGGED", "INCIDENT_CREATED"}, k \in Int :
        /\ audit' = Append(log, Entry(type, u, k)) \/ audit' = log \o <<Entry(type, u, k)>>
        /\ type = "LOGIN_FLAGGED" \/ ~Contained(u)
  <2>1. CASE Verdict(u, score).status = "SAFE"
    <3>1. audit' = Append(log, Entry("LOGIN_ALLOWED", u, NoIncident))
      BY <2>1 DEF AssessLogin
    <3>. QED  BY <1>1, <2>1, <3>1 DEF NoIncident
  <2>2. CASE Verdict(u, score).status # "SAFE" /\ Contained(u) /\ HeldOf(u) # {}
    <3>1. audit' = Append(log, Entry("LOGIN_FLAGGED", u, Oldest(HeldOf(u))))
      BY <2>2 DEF AssessLogin
    <3>2. Oldest(HeldOf(u)) \in Int
      BY <2>2, OldestHeld, Lengths DEF StoryInv, IInv
    <3>. QED  BY <3>1, <3>2
  <2>3. CASE Verdict(u, score).status # "SAFE" /\ ~(Contained(u) /\ HeldOf(u) # {})
    <3>1. audit' = log \o <<Entry("INCIDENT_CREATED", u, Len(incidents) + 1)>>
      BY <2>3 DEF AssessLogin, CreateIncident
    <3>2. Len(incidents) + 1 \in Int
      BY Lengths DEF StoryInv, IInv
    <3>. QED  BY <1>1, <2>3, <3>1, <3>2
  <2>. QED  BY <2>1, <2>2, <2>3
<1>3. PICK type \in {"LOGIN_ALLOWED", "LOGIN_FLAGGED", "INCIDENT_CREATED"}, k \in Int :
        /\ audit' = Append(log, Entry(type, u, k)) \/ audit' = log \o <<Entry(type, u, k)>>
        /\ type = "LOGIN_FLAGGED" \/ ~Contained(u)
  BY <1>2
<1>4. /\ n \in Nat /\ DOMAIN audit = 1 .. n /\ DOMAIN audit' = 1 .. n + 2
      /\ \A j \in 1 .. n : audit'[j] = audit[j]
      /\ audit'[n + 1] = Entry("LOGIN_DETECTED", u, NoIncident)
      /\ audit'[n + 2] = Entry(type, u, k)
  BY <1>3, TwoEntries DEF StoryInv
<1>5. /\ audit'[n + 1].event_type = "LOGIN_DETECTED"
      /\ audit'[n + 2].event_type = type /\ audit'[n + 2].user = u
      /\ n + 1 .. n + 2 = {n + 1, n + 2}
  BY <1>4 DEF Entry
<1>. HIDE DEF n
<1>6. ASSUME NEW t \in EventType
      PROVE  /\ Entries(t, v) \in SUBSET (1 .. n)
             /\ Entries(t, v)' = Entries(t, v)
                  \cup {j \in n + 1 .. n + 2 :
                          audit'[j].event_type = t /\ audit'[j].user = v}
  <2>1. n + 2 \in Nat /\ n <= n + 2
    BY <1>4
  <2>. QED  BY <1>4, <2>1, EntriesGrow
<1>7. /\ D \in SUBSET (1 .. n) /\ R \in SUBSET (1 .. n) /\ L \in SUBSET (1 .. n)
      /\ D' = D /\ R' = R
      /\ L' = L \/ (L' = L \cup {n + 2} /\ type # "LOGIN_FLAGGED" /\ u = v)
  BY <1>5, <1>6 DEF Quiets, EventType
<1>8. /\ Alternate(D, R) /\ QuietAfter(D, R, L) /\ (Contained(v) <=> DeniedLast(D, R))
      /\ D \cap R = {}
  BY EntriesApart DEF StoryInv, IncidentStory
<1>9. Contained(v)' <=> Contained(v)
  <2>1. \/ access' = access
        \/ /\ access[u].status = "NONE"
           /\ \E review \in {"REVIEW_REQUIRED", "ACTIVE"} :
                access' = [access EXCEPT ![u] = [status |-> review, incident |-> NoIncident]]
    BY DEF AssessLogin, CreateIncident
  <2>. QED  BY <2>1, Lengths DEF Contained, StoryInv, IInv
<1>. HIDE DEF D, R, L
<1>10. QuietAfter(D', R', L')
  <2>1. CASE L' = L
    BY <1>7, <1>8, <2>1
  <2>2. CASE L' = L \cup {n + 2} /\ type # "LOGIN_FLAGGED" /\ u = v
    <3>1. ~DeniedLast(D, R)
      BY <1>3, <1>8, <2>2
    <3>. QED  BY <1>4, <1>7, <1>8, <2>2, <3>1, AllowedAgain
  <2>. QED  BY <1>7, <2>1, <2>2
<1>. QED  BY <1>7, <1>8, <1>9, <1>10 DEF IncidentStory, Alternate, DeniedLast, QuietAfter, D, R, L

LEMMA StoryStep == StoryInv /\ [Next]_vars => StoryInv'
<1>. SUFFICES ASSUME StoryInv, [Next]_vars
              PROVE  StoryInv'
  OBVIOUS
<1>1. IInv'
  BY Inductive DEF StoryInv
<1>2. CASE Next
  BY <1>1, <1>2, LoginTold, DenialTold, ResolutionTold DEF Next, StoryInv
<1>3. CASE UNCHANGED vars
  BY <1>1, <1>3 DEF vars, StoryInv, IncidentStory, Quiets, Entries, Contained
<1>. QED  BY <1>2, <1>3

LEMMA StoryInvariance == Spec => []StoryInv
<1>1. Init => StoryInv
  BY InitInv DEF Init, StoryInv, IncidentStory, Quiets, Entries, Contained, Alternate, DeniedLast,
         QuietAfter
<1>. QED  BY <1>1, StoryStep, PTL DEF Spec

\* The audit log alone tells who is contained: denials and resolutions of a user
\* alternate, and the last one is a denial exactly for a contained user.
THEOREM AuditTells == Spec => []AuditTellsContainment
<1>1. StoryInv => AuditTellsContainment
  BY DEF StoryInv, IncidentStory, AuditTellsContainment, Alternate, DeniedLast, Between
<1>. QED  BY <1>1, StoryInvariance, PTL

\* While a user is contained no login of the user is allowed and none opens a new
\* incident.
THEOREM ContainedIsQuiet == Spec => []QuietWhileContained
<1>1. StoryInv => QuietWhileContained
  BY DEF StoryInv, IncidentStory, QuietWhileContained, QuietAfter, Quiets, Between
<1>. QED  BY <1>1, StoryInvariance, PTL

-------------------------------------------------------------------------------
(* An incident's own entries. *)

About(type, i) == {k \in DOMAIN audit : audit[k].event_type = type /\ audit[k].incident = i}

\* An incident was created by one entry; it is active without a denial, or contained
\* with one, later than its creation.
Life(i) ==
  \E c \in Nat :
    /\ About("INCIDENT_CREATED", i) = {c}
    /\ \/ About("ACCESS_DENIED_DEMO", i) = {} /\ incidents[i].status = "ACTIVE"
       \/ \E d \in Nat : /\ c < d /\ About("ACCESS_DENIED_DEMO", i) = {d}
                         /\ incidents[i].status = "CONTAINED"

LifeInv == IInv /\ \A i \in DOMAIN incidents : Life(i)

\* The entries about an incident in a log that grows.
LEMMA AboutGrows ==
  ASSUME NEW n \in Nat, NEW m \in Nat, n <= m, DOMAIN audit = 1 .. n, DOMAIN audit' = 1 .. m,
         \A k \in 1 .. n : audit'[k] = audit[k], NEW type, NEW i
  PROVE  /\ About(type, i) \in SUBSET (1 .. n)
         /\ About(type, i)' = About(type, i)
              \cup {k \in n + 1 .. m : audit'[k].event_type = type /\ audit'[k].incident = i}
<1>1. 1 .. m = (1 .. n) \cup (n + 1 .. m)
  OBVIOUS
<1>. QED  BY <1>1 DEF About

\* Entries that neither create nor deny leave every incident's life as it was.
LEMMA UntoldLife ==
  ASSUME LifeInv, UNCHANGED incidents, NEW i \in DOMAIN incidents,
         About("INCIDENT_CREATED", i)' = About("INCIDENT_CREATED", i),
         About("ACCESS_DENIED_DEMO", i)' = About("ACCESS_DENIED_DEMO", i)
  PROVE  Life(i)'
<1>1. Life(i)
  BY DEF LifeInv
<1>. QED  BY <1>1 DEF Life

LEMMA RestoreLives ==
  ASSUME LifeInv, NEW u \in Users, RestoreAccess(u), NEW i \in DOMAIN incidents
  PROVE  Life(i)'
<1>. DEFINE n == Len(audit)
<1>1. /\ audit' = Append(audit, Entry("INCIDENT_RESOLVED", u, NoIncident))
      /\ UNCHANGED incidents
  BY DEF RestoreAccess
<1>2. /\ n \in Nat /\ DOMAIN audit = 1 .. n /\ DOMAIN audit' = 1 .. n + 1
      /\ \A k \in 1 .. n : audit'[k] = audit[k]
      /\ audit'[n + 1] = Entry("INCIDENT_RESOLVED", u, NoIncident)
  BY <1>1, OneEntry DEF LifeInv
<1>. HIDE DEF n
<1>3. ASSUME NEW type \in {"INCIDENT_CREATED", "ACCESS_DENIED_DEMO"}
      PROVE  About(type, i)' = About(type, i)
  <2>1. n + 1 \in Nat /\ n <= n + 1 /\ n + 1 .. n + 1 = {n + 1}
    BY <1>2
  <2>2. About(type, i)' = About(type, i)
          \cup {k \in n + 1 .. n + 1 : audit'[k].event_type = type /\ audit'[k].incident = i}
    BY <1>2, <2>1, AboutGrows
  <2>. QED  BY <1>2, <2>1, <2>2 DEF Entry
<1>. QED  BY <1>1, <1>3, UntoldLife

LEMMA DenyLives ==
  ASSUME LifeInv, NEW u \in Users, DenyAccess(u), NEW j \in DOMAIN incidents
  PROVE  Life(j)'
<1>. DEFINE n == Len(audit)
            i == Oldest(ActiveOf(u))
<1>1. audit' = Append(audit, Entry("ACCESS_DENIED_DEMO", u, i))
  BY DEF DenyAccess
<1>2. /\ n \in Nat /\ DOMAIN audit = 1 .. n /\ DOMAIN audit' = 1 .. n + 1
      /\ \A k \in 1 .. n : audit'[k] = audit[k]
      /\ audit'[n + 1] = Entry("ACCESS_DENIED_DEMO", u, i)
  BY <1>1, OneEntry DEF LifeInv
<1>3. /\ i \in DOMAIN incidents /\ incidents[i].status = "ACTIVE"
      /\ incidents'[i].status = "CONTAINED"
      /\ j # i => incidents'[j] = incidents[j]
  BY DenyMarks, Lengths DEF LifeInv, IInv
<1>. HIDE DEF n, i
<1>4. ASSUME NEW type \in {"INCIDENT_CREATED", "ACCESS_DENIED_DEMO"}
      PROVE  /\ About(type, j) \in SUBSET (1 .. n)
             /\ About(type, j)' = IF type = "ACCESS_DENIED_DEMO" /\ j = i
                                  THEN About(type, j) \cup {n + 1} ELSE About(type, j)
  <2>1. n + 1 \in Nat /\ n <= n + 1 /\ n + 1 .. n + 1 = {n + 1}
    BY <1>2
  <2>2. /\ About(type, j) \in SUBSET (1 .. n)
        /\ About(type, j)' = About(type, j)
             \cup {k \in n + 1 .. n + 1 : audit'[k].event_type = type /\ audit'[k].incident = j}
    BY <1>2, <2>1, AboutGrows
  <2>. QED  BY <1>2, <2>1, <2>2 DEF Entry
<1>5. Life(j)
  BY DEF LifeInv
<1>6. CASE j = i
  <2>1. PICK c \in Nat : /\ About("INCIDENT_CREATED", j) = {c}
                         /\ About("ACCESS_DENIED_DEMO", j) = {}
    BY <1>3, <1>5, <1>6 DEF Life
  <2>2. /\ About("INCIDENT_CREATED", j)' = {c} /\ About("ACCESS_DENIED_DEMO", j)' = {n + 1}
        /\ c < n + 1 /\ n + 1 \in Nat
    BY <1>2, <1>4, <1>6, <2>1
  <2>. QED  BY <1>3, <1>6, <2>2 DEF Life
<1>7. CASE j # i
  BY <1>3, <1>4, <1>5, <1>7 DEF Life
<1>. QED  BY <1>6, <1>7

\* A login that opens no incident.
LEMMA LoginLives ==
  ASSUME LifeInv, NEW u \in Users, UNCHANGED incidents,
         NEW type \in {"LOGIN_ALLOWED", "LOGIN_FLAGGED"}, NEW k \in Int,
         audit' = Append(Append(audit, Entry("LOGIN_DETECTED", u, NoIncident)),
                         Entry(type, u, k)),
         NEW i \in DOMAIN incidents
  PROVE  Life(i)'
<1>. DEFINE n == Len(audit)
<1>1. /\ n \in Nat /\ DOMAIN audit = 1 .. n /\ DOMAIN audit' = 1 .. n + 2
      /\ \A j \in 1 .. n : audit'[j] = audit[j]
      /\ audit'[n + 1] = Entry("LOGIN_DETECTED", u, NoIncident)
      /\ audit'[n + 2] = Entry(type, u, k)
  BY TwoEntries DEF LifeInv
<1>. HIDE DEF n
<1>2. /\ audit'[n + 1].event_type = "LOGIN_DETECTED" /\ audit'[n + 2].event_type = type
      /\ n + 1 .. n + 2 = {n + 1, n + 2} /\ n + 2 \in Nat /\ n <= n + 2
  BY <1>1 DEF Entry
<1>3. ASSUME NEW t \in {"INCIDENT_CREATED", "ACCESS_DENIED_DEMO"}
      PROVE  About(t, i)' = About(t, i)
  <2>1. About(t, i)' = About(t, i)
          \cup {j \in n + 1 .. n + 2 : audit'[j].event_type = t /\ audit'[j].incident = i}
    BY <1>1, <1>2, AboutGrows
  <2>. QED  BY <1>2, <2>1
<1>. QED  BY <1>3, UntoldLife

\* A login that opens one: its entry is the only one about the new incident.
LEMMA CreateLives ==
  ASSUME LifeInv, NEW u \in Users, NEW score \in Scores,
         CreateIncident(u, score, Append(audit, Entry("LOGIN_DETECTED", u, NoIncident))),
         NEW i \in DOMAIN incidents'
  PROVE  Life(i)'
<1>. DEFINE n == Len(audit)
            new == Len(incidents) + 1
            log == Append(audit, Entry("LOGIN_DETECTED", u, NoIncident))
<1>1. audit' = log \o <<Entry("INCIDENT_CREATED", u, new)>>
  BY DEF CreateIncident
<1>2. /\ n \in Nat /\ DOMAIN audit = 1 .. n /\ DOMAIN audit' = 1 .. n + 2
      /\ \A j \in 1 .. n : audit'[j] = audit[j]
      /\ audit'[n + 1] = Entry("LOGIN_DETECTED", u, NoIncident)
      /\ audit'[n + 2] = Entry("INCIDENT_CREATED", u, new)
  BY <1>1, TwoEntries DEF LifeInv
<1>3. /\ Len(incidents) \in Nat /\ DOMAIN incidents = 1 .. Len(incidents)
      /\ audit \in Seq(AuditEntry(Len(incidents)))
      /\ log \in Seq(AuditEntry(Len(incidents)))
  <2>1. audit \in Seq(AuditEntry(Len(incidents))) /\ Len(incidents) \in Nat
    BY Lengths DEF LifeInv, IInv
  <2>. QED  BY <2>1, Lengths, AuditAppend DEF LifeInv, IInv, EventType, NoIncident
<1>4. /\ DOMAIN incidents' = 1 .. new /\ incidents'[new].status = "ACTIVE"
      /\ \A j \in DOMAIN incidents : incidents'[j] = incidents[j]
  BY <1>3, CreateStep DEF LifeInv, IInv
<1>5. ASSUME NEW k \in 1 .. n  PROVE audit[k].incident <= Len(incidents)
  <2>1. audit[k] \in AuditEntry(Len(incidents))
    BY <1>2, <1>3, ElementOfSeq
  <2>. QED  BY <2>1, <1>3 DEF AuditEntry
<1>. HIDE DEF n, new
<1>6. /\ audit'[n + 1].event_type = "LOGIN_DETECTED"
      /\ audit'[n + 2].event_type = "INCIDENT_CREATED" /\ audit'[n + 2].incident = new
      /\ n + 1 .. n + 2 = {n + 1, n + 2} /\ n + 2 \in Nat /\ n <= n + 2
  BY <1>2 DEF Entry
<1>7. ASSUME NEW t \in {"INCIDENT_CREATED", "ACCESS_DENIED_DEMO"}
      PROVE  About(t, i)' = IF t = "INCIDENT_CREATED" /\ i = new
                            THEN About(t, i) \cup {n + 2} ELSE About(t, i)
  <2>1. About(t, i)' = About(t, i)
          \cup {j \in n + 1 .. n + 2 : audit'[j].event_type = t /\ audit'[j].incident = i}
    BY <1>2, <1>6, AboutGrows
  <2>. QED  BY <1>6, <2>1
<1>8. CASE i = new
  <2>1. \A t \in {"INCIDENT_CREATED", "ACCESS_DENIED_DEMO"} : About(t, i) = {}
    BY <1>2, <1>3, <1>5, <1>8 DEF About, new
  <2>2. About("INCIDENT_CREATED", i)' = {n + 2} /\ About("ACCESS_DENIED_DEMO", i)' = {}
    BY <1>7, <1>8, <2>1
  <2>. QED  BY <1>4, <1>6, <1>8, <2>2 DEF Life
<1>9. CASE i # new
  <2>1. i \in DOMAIN incidents /\ incidents'[i] = incidents[i]
    BY <1>3, <1>4, <1>9 DEF new
  <2>2. /\ About("INCIDENT_CREATED", i)' = About("INCIDENT_CREATED", i)
        /\ About("ACCESS_DENIED_DEMO", i)' = About("ACCESS_DENIED_DEMO", i)
    BY <1>7, <1>9
  <2>3. Life(i)
    BY <2>1 DEF LifeInv
  <2>. QED  BY <2>1, <2>2, <2>3 DEF Life
<1>. QED  BY <1>8, <1>9

LEMMA LifeStep == LifeInv /\ [Next]_vars => LifeInv'
<1>. SUFFICES ASSUME LifeInv, [Next]_vars
              PROVE  LifeInv'
  OBVIOUS
<1>1. IInv'
  BY Inductive DEF LifeInv
<1>2. ASSUME NEW u \in Users, NEW score \in Scores, AssessLogin(u, score),
             NEW i \in DOMAIN incidents'
      PROVE  Life(i)'
  <2>. DEFINE log == Append(audit, Entry("LOGIN_DETECTED", u, NoIncident))
  <2>1. CASE UNCHANGED incidents /\ audit' = Append(log, Entry("LOGIN_ALLOWED", u, NoIncident))
    BY <1>2, <2>1, LoginLives DEF NoIncident
  <2>2. CASE /\ UNCHANGED incidents /\ HeldOf(u) # {}
             /\ audit' = Append(log, Entry("LOGIN_FLAGGED", u, Oldest(HeldOf(u))))
    <3>1. Oldest(HeldOf(u)) \in Int
      BY <2>2, OldestHeld, Lengths DEF LifeInv, IInv
    <3>. QED  BY <1>2, <2>2, <3>1, LoginLives
  <2>3. CASE CreateIncident(u, score, log)
    BY <1>2, <2>3, CreateLives
  <2>. QED  BY <1>2, <2>1, <2>2, <2>3 DEF AssessLogin
<1>3. ASSUME NEW u \in Users, DenyAccess(u) \/ RestoreAccess(u), NEW i \in DOMAIN incidents'
      PROVE  Life(i)'
  <2>1. DOMAIN incidents' = DOMAIN incidents
    BY <1>3, DenyMarks, Lengths DEF LifeInv, IInv, RestoreAccess
  <2>. QED  BY <1>3, <2>1, DenyLives, RestoreLives
<1>4. CASE UNCHANGED vars
  BY <1>1, <1>4, SMTT(30) DEF vars, LifeInv, Life, About
<1>. QED  BY <1>1, <1>2, <1>3, <1>4 DEF Next, LifeInv

\* An incident is created once and denied at most once, in that order, and it is marked
\* contained exactly when the log has its denial.
THEOREM IncidentsLive == Spec => []IncidentLifecycle
<1>1. Init => LifeInv
  BY InitInv DEF Init, LifeInv
<1>2. LifeInv => IncidentLifecycle
  <2>. SUFFICES ASSUME LifeInv, NEW i \in DOMAIN incidents
                PROVE  LET C == About("INCIDENT_CREATED", i)
                           D == About("ACCESS_DENIED_DEMO", i)
                       IN /\ Cardinality(C) = 1 /\ Cardinality(D) <= 1
                          /\ \A c \in C, d \in D : c < d
                          /\ incidents[i].status = "CONTAINED" <=> D # {}
    BY DEF IncidentLifecycle, About
  <2>1. \A c \in Nat : Cardinality({c}) = 1
    BY FS_Singleton
  <2>2. Cardinality({}) = 0
    BY FS_EmptySet
  <2>3. Life(i)
    BY DEF LifeInv
  <2>. QED  BY <2>1, <2>2, <2>3 DEF Life
<1>. QED  BY <1>1, <1>2, LifeStep, PTL DEF Spec

-------------------------------------------------------------------------------
(* The console *)

Posts == [incident : 0 .. Len(incidents), state : {"idle", "sent", "granted", "refused"}]

\* What a console shows or waits for is an incident that exists.
ConsoleShape ==
  /\ dialog \in [Consoles -> 0 .. Len(incidents)]
  /\ post \in [Consoles -> Posts]
  /\ \A c \in Consoles : post[c].state # "idle" => post[c].incident # NoIncident
  /\ toasts \in Seq(1 .. Len(incidents))

ConsoleInv == IInv /\ ConsoleShape /\ OneDenialPerToast

Denials(u) == Entries("ACCESS_DENIED_DEMO", u)

\* The engine's log only grows, and its incidents keep their users.
Onward ==
  /\ Len(incidents) <= Len(incidents') /\ Len(incidents') \in Nat
  /\ \A i \in 1 .. Len(incidents) : incidents'[i].user = incidents[i].user
  /\ \A v \in Users : Denials(v) \subseteq Denials(v)'

LEMMA MoreEntries ==
  ASSUME NEW n \in Nat, NEW m \in Nat, n <= m, DOMAIN audit = 1 .. n, DOMAIN audit' = 1 .. m,
         \A k \in 1 .. n : audit'[k] = audit[k]
  PROVE  \A v \in Users : Denials(v) \subseteq Denials(v)'
<1>1. \A v \in Users :
        Entries("ACCESS_DENIED_DEMO", v)' =
          Entries("ACCESS_DENIED_DEMO", v)
            \cup {k \in n + 1 .. m : audit'[k].event_type = "ACCESS_DENIED_DEMO"
                                     /\ audit'[k].user = v}
  BY EntriesGrow
<1>. QED  BY <1>1 DEF Denials

LEMMA LoginOnward ==
  ASSUME IInv, NEW u \in Users, NEW score \in Scores, AssessLogin(u, score)
  PROVE  Onward
<1>. DEFINE log == Append(audit, Entry("LOGIN_DETECTED", u, NoIncident))
<1>1. Len(incidents) \in Nat /\ DOMAIN incidents = 1 .. Len(incidents)
  BY Lengths DEF IInv
<1>2. log \in Seq(AuditEntry(Len(incidents)))
  BY <1>1, Lengths, AuditAppend DEF IInv, EventType, NoIncident
<1>3. \E e : audit' = Append(log, e) \/ audit' = log \o <<e>>
  <2>1. CASE Verdict(u, score).status = "SAFE"
    BY <2>1 DEF AssessLogin
  <2>2. CASE Verdict(u, score).status # "SAFE" /\ Contained(u) /\ HeldOf(u) # {}
    BY <2>2 DEF AssessLogin
  <2>3. CASE Verdict(u, score).status # "SAFE" /\ ~(Contained(u) /\ HeldOf(u) # {})
    BY <2>3 DEF AssessLogin, CreateIncident
  <2>. QED  BY <2>1, <2>2, <2>3
<1>4. \A v \in Users : Denials(v) \subseteq Denials(v)'
  <2>1. PICK e : audit' = Append(log, e) \/ audit' = log \o <<e>>
    BY <1>3
  <2>. DEFINE n == Len(audit)
  <2>2. /\ n \in Nat /\ DOMAIN audit = 1 .. n /\ DOMAIN audit' = 1 .. n + 2
        /\ \A k \in 1 .. n : audit'[k] = audit[k]
    BY <2>1, TwoEntries
  <2>. HIDE DEF n
  <2>3. n + 2 \in Nat /\ n <= n + 2
    BY <2>2
  <2>. QED  BY <2>2, <2>3, MoreEntries
<1>5. \/ incidents' = incidents
      \/ CreateIncident(u, score, log)
  BY DEF AssessLogin
<1>6. CASE incidents' = incidents
  BY <1>1, <1>4, <1>6 DEF Onward
<1>7. CASE CreateIncident(u, score, log)
  <2>1. /\ Len(incidents') = Len(incidents) + 1
        /\ \A i \in DOMAIN incidents : i \in DOMAIN incidents' /\ incidents'[i] = incidents[i]
    BY <1>2, <1>7, CreateStep DEF IInv
  <2>. QED  BY <1>1, <1>4, <2>1 DEF Onward
<1>. QED  BY <1>5, <1>6, <1>7

\* A denial adds its entry to the user's denials.
LEMMA DenyOnward ==
  ASSUME IInv, NEW u \in Users, DenyAccess(u)
  PROVE  Onward /\ \E n \in Nat : n \notin Denials(u) /\ n \in Denials(u)'
<1>. DEFINE i == Oldest(ActiveOf(u))
            n == Len(audit)
<1>1. /\ Len(incidents) \in Nat /\ i \in 1 .. Len(incidents) /\ incidents[i].user = u
      /\ Len(incidents') = Len(incidents) /\ incidents'[i].user = u
      /\ \A j \in 1 .. Len(incidents) : j # i => incidents'[j] = incidents[j]
  BY DenyMarks, Lengths DEF IInv
<1>2. audit' = Append(audit, Entry("ACCESS_DENIED_DEMO", u, i))
  BY DEF DenyAccess
<1>3. /\ n \in Nat /\ DOMAIN audit = 1 .. n /\ DOMAIN audit' = 1 .. n + 1
      /\ \A k \in 1 .. n : audit'[k] = audit[k]
      /\ audit'[n + 1] = Entry("ACCESS_DENIED_DEMO", u, i)
  BY <1>2, OneEntry
<1>. HIDE DEF i, n
<1>4. n + 1 \in Nat /\ n <= n + 1
  BY <1>3
<1>5. \A v \in Users : Denials(v) \subseteq Denials(v)'
  BY <1>3, <1>4, MoreEntries
<1>6. n + 1 \notin Denials(u) /\ n + 1 \in Denials(u)'
  BY <1>3 DEF Denials, Entries, Entry
<1>7. \A j \in 1 .. Len(incidents) : incidents'[j].user = incidents[j].user
  BY <1>1
<1>8. Onward
  BY <1>1, <1>5, <1>7 DEF Onward
<1>. QED  BY <1>4, <1>6, <1>8

LEMMA EngineOnward ==
  ASSUME IInv, [Next]_vars
  PROVE  Onward
<1>1. Len(incidents) \in Nat
  BY Lengths DEF IInv
<1>2. ASSUME NEW u \in Users, RestoreAccess(u)  PROVE Onward
  <2>. DEFINE n == Len(audit)
  <2>1. audit' = Append(audit, Entry("INCIDENT_RESOLVED", u, NoIncident)) /\ incidents' = incidents
    BY <1>2 DEF RestoreAccess
  <2>2. /\ n \in Nat /\ DOMAIN audit = 1 .. n /\ DOMAIN audit' = 1 .. n + 1
        /\ \A k \in 1 .. n : audit'[k] = audit[k]
    BY <2>1, OneEntry
  <2>. HIDE DEF n
  <2>3. n + 1 \in Nat /\ n <= n + 1
    BY <2>2
  <2>4. \A v \in Users : Denials(v) \subseteq Denials(v)'
    BY <2>2, <2>3, MoreEntries
  <2>. QED  BY <1>1, <2>1, <2>4 DEF Onward
<1>3. CASE UNCHANGED vars
  BY <1>1, <1>3 DEF vars, Onward, Denials, Entries
<1>. QED  BY <1>2, <1>3, LoginOnward, DenyOnward DEF Next

\* The sets the property counts are finite.
LEMMA Countable ==
  ASSUME ConsoleInv, IsFiniteSet(Consoles), NEW u \in Users
  PROVE  /\ IsFiniteSet(Denials(u)) /\ IsFiniteSet(ToastsOf(u)) /\ IsFiniteSet(GrantedTo(u))
         /\ Cardinality(Denials(u)) \in Nat /\ Cardinality(ToastsOf(u)) \in Nat
         /\ Cardinality(GrantedTo(u)) \in Nat
         /\ DOMAIN toasts = 1 .. Len(toasts) /\ Len(toasts) \in Nat
         /\ Cardinality(ToastsOf(u)) + Cardinality(GrantedTo(u)) <= Cardinality(Denials(u))
<1>1. Len(audit) \in Nat /\ DOMAIN audit = 1 .. Len(audit)
  BY LenProperties DEF ConsoleInv, IInv, TypeOK
<1>2. Len(toasts) \in Nat /\ DOMAIN toasts = 1 .. Len(toasts)
  BY LenProperties DEF ConsoleInv, ConsoleShape
<1>3. IsFiniteSet(1 .. Len(audit)) /\ IsFiniteSet(1 .. Len(toasts))
  BY <1>1, <1>2, FS_Interval
<1>4. Denials(u) \in SUBSET (1 .. Len(audit)) /\ ToastsOf(u) \in SUBSET (1 .. Len(toasts))
      /\ GrantedTo(u) \in SUBSET Consoles
  BY <1>1, <1>2 DEF Denials, Entries, ToastsOf, GrantedTo
<1>5. IsFiniteSet(Denials(u)) /\ IsFiniteSet(ToastsOf(u)) /\ IsFiniteSet(GrantedTo(u))
  BY <1>3, <1>4, FS_Subset
<1>6. Cardinality(ToastsOf(u)) + Cardinality(GrantedTo(u)) <= Cardinality(Denials(u))
  BY DEF ConsoleInv, OneDenialPerToast, Denials
<1>. QED  BY <1>2, <1>5, <1>6, FS_CardinalityType

\* ... and after a step, too.
LEMMA LaterFinite ==
  ASSUME IInv', NEW u \in Users
  PROVE  IsFiniteSet(Denials(u)')
<1>1. Len(audit') \in Nat /\ DOMAIN audit' = 1 .. Len(audit')
  BY LenProperties DEF IInv, TypeOK
<1>2. IsFiniteSet(1 .. Len(audit'))
  BY <1>1, FS_Interval
<1>3. Denials(u)' \in SUBSET (1 .. Len(audit'))
  BY <1>1 DEF Denials, Entries
<1>. QED  BY <1>2, <1>3, FS_Subset

\* A toast's incident keeps its user.
LEMMA ToastsStay ==
  ASSUME ConsoleInv, Onward, NEW u \in Users, toasts' = toasts
  PROVE  ToastsOf(u)' = ToastsOf(u)
<1>1. toasts \in Seq(1 .. Len(incidents))
  BY DEF ConsoleInv, ConsoleShape
<1>2. \A n \in DOMAIN toasts : toasts[n] \in 1 .. Len(incidents)
  BY <1>1
<1>3. \A n \in DOMAIN toasts : incidents'[toasts[n]].user = incidents[toasts[n]].user
  BY <1>2 DEF Onward
<1>. QED  BY <1>3 DEF ToastsOf

\* Who waits with a granted denial waits for an incident that exists.
LEMMA GrantedExists ==
  ASSUME ConsoleInv, NEW c \in Consoles, post[c].state # "idle"
  PROVE  post[c].incident \in 1 .. Len(incidents) /\ incidents[post[c].incident].user \in Users
<1>1. Len(incidents) \in Nat /\ DOMAIN incidents = 1 .. Len(incidents)
  BY Lengths DEF ConsoleInv, IInv
<1>2. post[c] \in Posts /\ post[c].incident # 0
  BY DEF ConsoleInv, ConsoleShape, NoIncident
<1>3. post[c].incident \in 1 .. Len(incidents)
  BY <1>1, <1>2 DEF Posts
<1>4. incidents \in Seq(Incident)
  BY DEF ConsoleInv, IInv, TypeOK, Incident
<1>5. \A k \in 1 .. Len(incidents) : incidents[k] \in Incident
  BY <1>4
<1>. QED  BY <1>3, <1>5 DEF Incident

\* A step of the engine or of a console that claims nothing new.
LEMMA NoNewClaim ==
  ASSUME ConsoleInv, IsFiniteSet(Consoles), IInv', Onward, toasts' = toasts, ConsoleShape',
         \A c \in Consoles : post'[c].state = "granted" => post'[c] = post[c]
  PROVE  ConsoleInv'
<1>. SUFFICES ASSUME NEW u \in Users
              PROVE  Cardinality(ToastsOf(u)') + Cardinality(GrantedTo(u)')
                       <= Cardinality(Denials(u)')
  BY DEF ConsoleInv, OneDenialPerToast, Denials
<1>1. ToastsOf(u)' = ToastsOf(u)
  BY ToastsStay
<1>2. GrantedTo(u)' \subseteq GrantedTo(u)
  <2>. SUFFICES ASSUME NEW c \in GrantedTo(u)'  PROVE c \in GrantedTo(u)
    OBVIOUS
  <2>1. /\ c \in Consoles /\ post'[c].state = "granted" /\ post'[c] = post[c]
        /\ incidents'[post'[c].incident].user = u
    BY DEF GrantedTo
  <2>2. post[c].incident \in 1 .. Len(incidents)
    BY <2>1, GrantedExists
  <2>. QED  BY <2>1, <2>2 DEF Onward, GrantedTo
<1>3. Denials(u) \subseteq Denials(u)'
  BY DEF Onward
<1>4. Cardinality(GrantedTo(u)') <= Cardinality(GrantedTo(u)) /\ Cardinality(GrantedTo(u)') \in Nat
  BY <1>2, Countable, FS_Subset, FS_CardinalityType
<1>5. IsFiniteSet(Denials(u)')
  BY LaterFinite
<1>6. Cardinality(Denials(u)) <= Cardinality(Denials(u)') /\ Cardinality(Denials(u)') \in Nat
  BY <1>3, <1>5, FS_Subset, FS_CardinalityType
<1>. QED  BY <1>1, <1>4, <1>6, Countable

LEMMA GrantStep ==
  ASSUME ConsoleInv, IsFiniteSet(Consoles), NEW c \in Consoles, post[c].state = "sent",
         NEW i, i = post[c].incident, NEW u, u = incidents[i].user, DenyAccess(u),
         post' = [post EXCEPT ![c].state = "granted"], UNCHANGED <<shown, dialog, late, toasts>>
  PROVE  ConsoleInv'
<1>1. i \in 1 .. Len(incidents) /\ u \in Users
  BY GrantedExists
<1>2. IInv /\ IInv' /\ Onward
  BY <1>1, DenyStep, DenyOnward DEF ConsoleInv
<1>3. PICK n \in Nat : n \notin Denials(u) /\ n \in Denials(u)'
  BY <1>1, <1>2, DenyOnward
<1>4. Len(incidents') = Len(incidents)
  BY <1>1, <1>2, DenyMarks
<1>5. /\ post'[c].state = "granted" /\ post'[c].incident = i
      /\ \A d \in Consoles : d # c => post'[d] = post[d]
      /\ post' \in [Consoles -> Posts]
  BY DEF ConsoleInv, ConsoleShape, Posts
<1>6. ConsoleShape'
  <2>1. Posts' = Posts
    BY <1>4 DEF Posts
  <2>2. \A d \in Consoles : post'[d].state # "idle" => post'[d].incident # NoIncident
    BY <1>1, <1>5 DEF ConsoleInv, ConsoleShape, NoIncident
  <2>. QED  BY <1>4, <1>5, <2>1, <2>2 DEF ConsoleInv, ConsoleShape
<1>7. incidents'[i].user = u
  BY <1>1, <1>2 DEF Onward
<1>. SUFFICES ASSUME NEW v \in Users
              PROVE  Cardinality(ToastsOf(v)') + Cardinality(GrantedTo(v)')
                       <= Cardinality(Denials(v)')
  BY <1>2, <1>6 DEF ConsoleInv, OneDenialPerToast, Denials
<1>8. ToastsOf(v)' = ToastsOf(v)
  BY <1>2, ToastsStay
<1>9. IsFiniteSet(Denials(v)') /\ Denials(v) \subseteq Denials(v)'
  BY <1>2, LaterFinite DEF Onward
<1>10. \A d \in Consoles : d # c => (d \in GrantedTo(v)' <=> d \in GrantedTo(v))
  <2>. TAKE d \in Consoles
  <2>. HAVE d # c
  <2>1. CASE post[d].state = "granted"
    <3>1. post[d].incident \in 1 .. Len(incidents)
      BY <2>1, GrantedExists
    <3>. QED  BY <1>2, <1>5, <3>1 DEF Onward, GrantedTo
  <2>2. CASE post[d].state # "granted"
    BY <1>5, <2>2 DEF GrantedTo
  <2>. QED  BY <2>1, <2>2
<1>11. CASE v = u
  <2>1. c \in GrantedTo(v)' /\ c \notin GrantedTo(v)
    BY <1>5, <1>7, <1>11 DEF GrantedTo
  <2>2. GrantedTo(v)' = GrantedTo(v) \cup {c}
    BY <1>10, <2>1 DEF GrantedTo
  <2>3. Cardinality(GrantedTo(v)') = Cardinality(GrantedTo(v)) + 1
    BY <2>1, <2>2, Countable, FS_AddElement
  <2>4. Denials(v) \cup {n} \subseteq Denials(v)'
    BY <1>3, <1>9, <1>11
  <2>5. Cardinality(Denials(v) \cup {n}) = Cardinality(Denials(v)) + 1
    BY <1>3, <1>11, Countable, FS_AddElement
  <2>6. Cardinality(Denials(v) \cup {n})
       <= Cardinality(Denials(v)') /\ Cardinality(Denials(v)') \in Nat
    BY <1>9, <2>4, FS_Subset, FS_CardinalityType
  <2>. QED  BY <1>8, <2>3, <2>5, <2>6, Countable
<1>12. CASE v # u
  <2>1. c \notin GrantedTo(v)' /\ c \notin GrantedTo(v)
    BY <1>5, <1>7, <1>12 DEF GrantedTo
  <2>2. GrantedTo(v)' = GrantedTo(v)
    BY <1>10, <2>1 DEF GrantedTo
  <2>3. Cardinality(Denials(v)) <= Cardinality(Denials(v)') /\ Cardinality(Denials(v)') \in Nat
    BY <1>9, FS_Subset, FS_CardinalityType
  <2>. QED  BY <1>8, <2>2, <2>3, Countable
<1>. QED  BY <1>11, <1>12

LEMMA ToastStep ==
  ASSUME ConsoleInv, IsFiniteSet(Consoles), NEW c \in Consoles, post[c].state = "granted",
         post' = [post EXCEPT ![c] = Idle], dialog' = [dialog EXCEPT ![c] = NoIncident],
         toasts' = Append(toasts, post[c].incident), UNCHANGED vars
  PROVE  ConsoleInv'
<1>. DEFINE i == post[c].incident
            u == incidents[post[c].incident].user
            n == Len(toasts) + 1
<1>1. i \in 1 .. Len(incidents) /\ u \in Users
  BY GrantedExists
<1>2. UNCHANGED <<incidents, access, events, audit>>
  BY DEF vars
<1>3. IInv /\ IInv'
  BY Inductive DEF ConsoleInv
<1>4. /\ toasts \in Seq(1 .. Len(incidents)) /\ DOMAIN toasts = 1 .. n - 1 /\ n \in Nat
      /\ toasts' \in Seq(1 .. Len(incidents)) /\ DOMAIN toasts' = 1 .. n
      /\ \A k \in 1 .. n - 1 : toasts'[k] = toasts[k]
      /\ toasts'[n] = i
  <2>1. toasts \in Seq(1 .. Len(incidents))
    BY DEF ConsoleInv, ConsoleShape
  <2>2. /\ Len(toasts) \in Nat /\ DOMAIN toasts = 1 .. Len(toasts)
        /\ toasts' \in Seq(1 .. Len(incidents)) /\ Len(toasts') = Len(toasts) + 1
        /\ \A k \in 1 .. Len(toasts) : toasts'[k] = toasts[k]
        /\ toasts'[Len(toasts) + 1] = i
    BY <1>1, <2>1, AppendProperties, LenProperties
  <2>3. DOMAIN toasts' = 1 .. n /\ n - 1 = Len(toasts)
    BY <2>2, LenProperties
  <2>. QED  BY <2>1, <2>2, <2>3
<1>5. /\ post'[c] = Idle /\ \A d \in Consoles : d # c => post'[d] = post[d]
  BY DEF ConsoleInv, ConsoleShape
<1>6. ConsoleShape'
  <2>1. Posts' = Posts
    BY <1>2 DEF Posts
  <2>2. Len(incidents) \in Nat
    BY Lengths DEF ConsoleInv, IInv
  <2>3. Idle \in Posts /\ NoIncident \in 0 .. Len(incidents)
    BY <2>2 DEF Idle, Posts, NoIncident
  <2>4. post' \in [Consoles -> Posts] /\ dialog' \in [Consoles -> 0 .. Len(incidents)]
    BY <2>3 DEF ConsoleInv, ConsoleShape
  <2>5. \A d \in Consoles : post'[d].state # "idle" => post'[d].incident # NoIncident
    BY <1>5 DEF ConsoleInv, ConsoleShape, Idle
  <2>. QED  BY <1>2, <1>4, <2>1, <2>4, <2>5 DEF ConsoleShape
<1>. HIDE DEF i, u, n
<1>. SUFFICES ASSUME NEW v \in Users
              PROVE  Cardinality(ToastsOf(v)') + Cardinality(GrantedTo(v)')
                       <= Cardinality(Denials(v)')
  BY <1>3, <1>6 DEF ConsoleInv, OneDenialPerToast, Denials
<1>7. Denials(v)' = Denials(v)
  BY <1>2 DEF Denials, Entries
<1>8. GrantedTo(v)' = GrantedTo(v) \ {c}
  BY <1>2, <1>5 DEF GrantedTo, Idle
<1>9. CASE v = u
  <2>1. c \in GrantedTo(v)
    BY <1>9 DEF GrantedTo, u
  <2>2. Cardinality(GrantedTo(v)') = Cardinality(GrantedTo(v)) - 1
    BY <1>8, <2>1, Countable, FS_RemoveElement
  <2>3. ToastsOf(v)' = ToastsOf(v) \cup {n} /\ n \notin ToastsOf(v)
    <3>1. 1 .. n = (1 .. n - 1) \cup {n} /\ n \notin 1 .. n - 1
      BY <1>4
    <3>2. incidents'[toasts'[n]].user = v
      BY <1>2, <1>4, <1>9 DEF i, u
    <3>. QED  BY <1>2, <1>4, <3>1, <3>2 DEF ToastsOf
  <2>4. Cardinality(ToastsOf(v)') = Cardinality(ToastsOf(v)) + 1
    BY <2>3, Countable, FS_AddElement
  <2>. QED  BY <1>7, <2>2, <2>4, Countable
<1>10. CASE v # u
  <2>1. c \notin GrantedTo(v)
    BY <1>10 DEF GrantedTo, u
  <2>2. GrantedTo(v)' = GrantedTo(v)
    BY <1>8, <2>1
  <2>3. ToastsOf(v)' = ToastsOf(v)
    <3>1. 1 .. n = (1 .. n - 1) \cup {n} /\ n \notin 1 .. n - 1
      BY <1>4
    <3>2. incidents'[toasts'[n]].user # v
      BY <1>2, <1>4, <1>10 DEF i, u
    <3>. QED  BY <1>2, <1>4, <3>1, <3>2 DEF ToastsOf
  <2>. QED  BY <1>7, <2>2, <2>3, Countable
<1>. QED  BY <1>9, <1>10

LEMMA ShapeStays ==
  ASSUME ConsoleInv, Onward, toasts' = toasts,
         dialog' \in [Consoles -> 0 .. Len(incidents)], post' \in [Consoles -> Posts],
         \A c \in Consoles : post'[c].state # "idle" => post'[c].incident # NoIncident
  PROVE  ConsoleShape'
<1>1. Len(incidents) \in Nat /\ Len(incidents') \in Nat /\ Len(incidents) <= Len(incidents')
  BY Lengths DEF ConsoleInv, IInv, Onward
<1>2. 0 .. Len(incidents) \subseteq 0 .. Len(incidents')
      /\ 1 .. Len(incidents) \subseteq 1 .. Len(incidents')
  BY <1>1
<1>3. Posts \subseteq Posts'
  BY <1>2 DEF Posts
<1>4. toasts' \in Seq(1 .. Len(incidents'))
  BY <1>2, SeqMonotonic DEF ConsoleInv, ConsoleShape
<1>. QED  BY <1>2, <1>3, <1>4 DEF ConsoleShape

\* Steps that leave the engine and the toasts alone.
LEMMA QuietStep ==
  ASSUME ConsoleInv, IsFiniteSet(Consoles), UNCHANGED <<vars, toasts>>,
         dialog' \in [Consoles -> 0 .. Len(incidents)], post' \in [Consoles -> Posts],
         \A c \in Consoles : post'[c].state # "idle" => post'[c].incident # NoIncident,
         \A c \in Consoles : post'[c].state = "granted" => post'[c] = post[c]
  PROVE  ConsoleInv'
<1>1. [Next]_vars /\ toasts' = toasts /\ IInv
  BY DEF ConsoleInv
<1>2. IInv' /\ Onward
  BY <1>1, Inductive, EngineOnward
<1>3. ConsoleShape'
  BY <1>1, <1>2, ShapeStays
<1>. QED  BY <1>1, <1>2, <1>3, NoNewClaim

\* Steps of the engine that no console waits for.
LEMMA EngineStep ==
  ASSUME ConsoleInv, IsFiniteSet(Consoles), [Next]_vars, UNCHANGED console
  PROVE  ConsoleInv'
<1>1. UNCHANGED <<shown, dialog, post, toasts>> /\ IInv
  BY DEF console, ConsoleInv
<1>2. IInv' /\ Onward
  BY <1>1, Inductive, EngineOnward
<1>3. ConsoleShape'
  BY <1>1, <1>2, ShapeStays DEF ConsoleInv, ConsoleShape
<1>. QED  BY <1>1, <1>2, <1>3, NoNewClaim

LEMMA ConsoleStep ==
  ASSUME ConsoleInv, IsFiniteSet(Consoles), [ConsoleNext]_cvars
  PROVE  ConsoleInv'
<1>1. /\ dialog \in [Consoles -> 0 .. Len(incidents)] /\ post \in [Consoles -> Posts]
      /\ \A c \in Consoles : post[c].state # "idle" => post[c].incident # NoIncident
      /\ Len(incidents) \in Nat /\ DOMAIN incidents = 1 .. Len(incidents)
  BY Lengths DEF ConsoleInv, ConsoleShape, IInv
<1>2. Idle \in Posts /\ NoIncident \in 0 .. Len(incidents) /\ Idle.state = "idle"
  BY <1>1 DEF Idle, Posts, NoIncident
<1>3. ASSUME NEW c \in Consoles, NEW i \in DOMAIN incidents, OpenDialog(c, i)
      PROVE  ConsoleInv'
  <2>1. UNCHANGED <<vars, toasts>> /\ post' = post /\ dialog' = [dialog EXCEPT ![c] = i]
    BY <1>3 DEF OpenDialog
  <2>2. dialog' \in [Consoles -> 0 .. Len(incidents)]
    BY <1>1, <2>1
  <2>. QED  BY <1>1, <2>1, <2>2, QuietStep
<1>4. ASSUME NEW c \in Consoles, Poll(c)  PROVE ConsoleInv'
  <2>1. UNCHANGED <<vars, toasts>> /\ post' = post /\ dialog' = dialog
    BY <1>4 DEF Poll
  <2>. QED  BY <1>1, <2>1, QuietStep
<1>5. ASSUME NEW c \in Consoles, CloseDialog(c)  PROVE ConsoleInv'
  <2>1. UNCHANGED <<vars, toasts>> /\ post' = post /\ dialog' = [dialog EXCEPT ![c] = NoIncident]
    BY <1>5 DEF CloseDialog
  <2>2. dialog' \in [Consoles -> 0 .. Len(incidents)]
    BY <1>1, <1>2, <2>1
  <2>. QED  BY <1>1, <2>1, <2>2, QuietStep
<1>6. ASSUME NEW c \in Consoles, Confirm(c)  PROVE ConsoleInv'
  <2>. DEFINE sent == [incident |-> dialog[c], state |-> "sent"]
  <2>1. UNCHANGED <<vars, toasts>> /\ dialog' = dialog /\ post' = [post EXCEPT ![c] = sent]
        /\ dialog[c] # NoIncident
    BY <1>6 DEF Confirm
  <2>2. sent \in Posts /\ sent.incident # NoIncident /\ sent.state = "sent"
    BY <1>1, <2>1 DEF Posts
  <2>. HIDE DEF sent
  <2>3. post' \in [Consoles -> Posts]
       /\ \A d \in Consoles : post'[d] = IF d = c THEN sent ELSE post[d]
    BY <1>1, <2>1, <2>2
  <2>4. \A d \in Consoles : post'[d].state # "idle" => post'[d].incident # NoIncident
    BY <1>1, <2>2, <2>3
  <2>5. \A d \in Consoles : post'[d].state = "granted" => post'[d] = post[d]
    BY <2>2, <2>3
  <2>. QED  BY <1>1, <2>1, <2>3, <2>4, <2>5, QuietStep
<1>7. ASSUME NEW c \in Consoles, HandleDeny(c)  PROVE ConsoleInv'
  <2>1. /\ post[c].state = "sent" /\ UNCHANGED <<shown, dialog, late, toasts>>
        /\ \/ /\ DenyAccess(incidents[post[c].incident].user)
              /\ post' = [post EXCEPT ![c].state = "granted"]
           \/ post' = [post EXCEPT ![c].state = "refused"] /\ UNCHANGED vars
    BY <1>7 DEF HandleDeny
  <2>2. CASE /\ DenyAccess(incidents[post[c].incident].user)
             /\ post' = [post EXCEPT ![c].state = "granted"]
    BY <2>1, <2>2, GrantStep
  <2>3. CASE post' = [post EXCEPT ![c].state = "refused"] /\ UNCHANGED vars
    <3>1. post' \in [Consoles -> Posts]
      BY <1>1, <2>3 DEF Posts
    <3>2. /\ post'[c].state = "refused" /\ post'[c].incident = post[c].incident
          /\ \A d \in Consoles : d # c => post'[d] = post[d]
      BY <1>1, <2>3 DEF Posts
    <3>3. \A d \in Consoles : post'[d].state # "idle" => post'[d].incident # NoIncident
      BY <1>1, <2>1, <3>2
    <3>4. \A d \in Consoles : post'[d].state = "granted" => post'[d] = post[d]
      BY <3>2
    <3>. QED  BY <1>1, <2>1, <2>3, <3>1, <3>3, <3>4, QuietStep
  <2>. QED  BY <2>1, <2>2, <2>3
<1>8. ASSUME NEW c \in Consoles, post' = [post EXCEPT ![c] = Idle],
            UNCHANGED <<vars, toasts, dialog>>
      PROVE  ConsoleInv'
  <2>1. post' \in [Consoles -> Posts]
       /\ \A d \in Consoles : post'[d] = IF d = c THEN Idle ELSE post[d]
    BY <1>1, <1>2, <1>8
  <2>2. \A d \in Consoles : post'[d].state # "idle" => post'[d].incident # NoIncident
    BY <1>1, <1>2, <2>1
  <2>3. \A d \in Consoles : post'[d].state = "granted" => post'[d] = post[d]
    BY <1>2, <2>1
  <2>. QED  BY <1>1, <1>8, <2>1, <2>2, <2>3, QuietStep
<1>9. ASSUME NEW c \in Consoles, Answer(c)  PROVE ConsoleInv'
  <2>1. /\ post' = [post EXCEPT ![c] = Idle] /\ UNCHANGED vars
        /\ \/ /\ post[c].state = "granted" /\ dialog' = [dialog EXCEPT ![c] = NoIncident]
              /\ toasts' = Append(toasts, post[c].incident)
           \/ UNCHANGED <<toasts, dialog>>
    BY <1>9 DEF Answer
  <2>. QED  BY <1>8, <2>1, ToastStep
<1>10. ASSUME NEW c \in Consoles, Abort(c)  PROVE ConsoleInv'
  <2>1. post' = [post EXCEPT ![c] = Idle] /\ UNCHANGED <<vars, toasts, dialog>>
    BY <1>10 DEF Abort
  <2>. QED  BY <1>8, <2>1
<1>11. ASSUME NEW u \in Users, HandleLate(u)  PROVE ConsoleInv'
  <2>1. [Next]_vars /\ UNCHANGED console
    BY <1>11 DEF HandleLate, Next
  <2>. QED  BY <2>1, EngineStep
<1>12. CASE /\ \E u \in Users : \/ \E score \in Scores : AssessLogin(u, score)
                                \/ RestoreAccess(u)
            /\ UNCHANGED <<console, late>>
  <2>1. [Next]_vars /\ UNCHANGED console
    BY <1>12 DEF Next
  <2>. QED  BY <2>1, EngineStep
<1>13. CASE UNCHANGED cvars
  <2>1. [Next]_vars /\ UNCHANGED console
    BY <1>13 DEF cvars
  <2>. QED  BY <2>1, EngineStep
<1>. QED
  BY <1>3, <1>4, <1>5, <1>6, <1>7, <1>9, <1>10, <1>11, <1>12, <1>13 DEF ConsoleNext

\* However many consoles are open, however old what they show, and whoever handles an
\* abandoned request: no toast claims a denial another request made.
THEOREM ToastsAreOwn == ASSUME IsFiniteSet(Consoles) PROVE ConsoleSpec => []OneDenialPerToast
<1>1. ConsoleInit => ConsoleInv
  <2>. SUFFICES ASSUME ConsoleInit  PROVE ConsoleInv
    OBVIOUS
  <2>1. IInv
    BY InitInv DEF ConsoleInit
  <2>2. /\ incidents = <<>> /\ toasts = <<>>
        /\ dialog = [c \in Consoles |-> NoIncident] /\ post = [c \in Consoles |-> Idle]
    BY DEF ConsoleInit, Init
  <2>3. ConsoleShape
    BY <2>2 DEF ConsoleShape, Posts, Idle, NoIncident
  <2>4. OneDenialPerToast
    <3>. SUFFICES ASSUME NEW u \in Users
                  PROVE  Cardinality(ToastsOf(u)) + Cardinality(GrantedTo(u))
                           <= Cardinality(Denials(u))
      BY DEF OneDenialPerToast, Denials
    <3>1. ToastsOf(u) = {} /\ GrantedTo(u) = {}
      BY <2>2 DEF ToastsOf, GrantedTo, Idle
    <3>2. Denials(u) = {}
      BY DEF ConsoleInit, Init, Denials, Entries
    <3>3. Cardinality({}) = 0
      BY FS_EmptySet
    <3>4. Cardinality(ToastsOf(u)) = 0 /\ Cardinality(GrantedTo(u)) = 0
         /\ Cardinality(Denials(u)) = 0
      BY <3>1, <3>2, <3>3, Zenon
    <3>. QED  BY <3>4
  <2>. QED  BY <2>1, <2>3, <2>4 DEF ConsoleInv
<1>2. ConsoleInv /\ [ConsoleNext]_cvars => ConsoleInv'
  BY ConsoleStep
<1>3. ConsoleInv => OneDenialPerToast
  BY DEF ConsoleInv
<1>. QED  BY <1>1, <1>2, <1>3, PTL DEF ConsoleSpec
===============================================================================
