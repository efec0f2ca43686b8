------------------------------- MODULE ZeroTrust -------------------------------
(***************************************************************************)
(* The security registry with what layers 1 and 5 register with it:        *)
(* security/core/registry.py, layer1_identity and layer5_siem.  A secured  *)
(* operation validates a token, asks the policy engine, and tells the      *)
(* audit log how it went.  No step of it gives way to others: the locks    *)
(* are never held across an await.  Hashes are numbers of their records.   *)
(*                                                                         *)
(* The application registers the collector of layer 2 and no audit log     *)
(* (init_security.py:90); register_audit_log is there for a process that   *)
(* has one.  Nothing is authorized before anything is registered.          *)
(***************************************************************************)
EXTENDS OdacPolicies, Sequences

CONSTANTS
  Tokens,      \* ids of the tokens that are issued
  Resources,
  Contexts,    \* what tokens are issued for: clearance, mfa, risk
  Kinds,       \* what is said of a resource: its type and markings
  Operations,  \* secured operations, each run once
  Registrations,  \* what processes register, of "audit log" and "collector"
  TokenTtl,    \* token_ttl, in ticks
  MaxMemory    \* max_memory_events

ASSUME MemoryAssumption == MaxMemory \in Nat
ASSUME RegistrationAssumption ==
  \A s \in Registrations : "audit log" \in s \/ "collector" \in s

VARIABLES
  token,      \* each token: its context and time left
  revoked,    \* _revoked_tokens
  entities,   \* _entities
  chain,      \* _provenance_chain
  log,        \* EnterpriseAuditLog._events
  lastHash,   \* _last_hash
  registered, \* which of the audit log and the collector the process registered
  operation,  \* each operation: where it is and what it does
  delivered   \* calls of subscribers (not in the code)

trustVars ==
  <<token, revoked, entities, chain, log, lastHash, registered, operation, delivered>>

NoToken == [left |-> -1]
NoEntity == [type |-> "none", markings |-> {}]

TrustInit ==
  /\ token = [t \in Tokens |-> NoToken]
  /\ revoked = {}
  /\ entities = [r \in Resources |-> NoEntity]
  /\ chain = [r \in Resources |-> <<>>]
  /\ registered \in Registrations
  /\ log = <<>> /\ lastHash = 0
  /\ operation = [o \in Operations |-> [stage |-> "new"]]
  /\ delivered = 0

-------------------------------------------------------------------------------
(* Tokens *)

\* issue_token
IssueToken(t, context) ==
  /\ token[t] = NoToken
  /\ token' = [token EXCEPT ![t] = [left |-> TokenTtl, context |-> context]]
  /\ UNCHANGED <<revoked, entities, chain, log, lastHash, registered, operation, delivered>>

\* revoke_token of the exchange, of an expired token too; the provider's revoke_token
\* answers True and does nothing.
RevokeToken(t) ==
  /\ token[t] # NoToken /\ t \notin revoked
  /\ revoked' = revoked \cup {t}
  /\ UNCHANGED <<token, entities, chain, log, lastHash, registered, operation, delivered>>

TokenTick ==
  /\ token' = [t \in Tokens |-> IF token[t].left > 0 THEN [token[t] EXCEPT !.left = @ - 1]
                                ELSE token[t]]
  /\ UNCHANGED <<revoked, entities, chain, log, lastHash, registered, operation, delivered>>

\* validate_token: signed, in time, not revoked, and with its second factor.
ValidToken(t) == token[t].left > 0 /\ t \notin revoked /\ token[t].context.mfa

-------------------------------------------------------------------------------
(* The registry *)

\* A registered collector has no method `collect`: whoever emits raises.
EmitRaises == "collector" \in registered

Event(o, action, outcome, previous) ==
  [operation |-> o, action |-> action, outcome |-> outcome, previous |-> previous]

\* emit, of one event or of several in a row: EnterpriseAuditLog.append, which forgets
\* the oldest event, the collector, and then the subscribers, whose errors do not count.
Emit(o, told) ==
  /\ LET new == [i \in DOMAIN told |-> Event(o, told[i][1], told[i][2], lastHash + i - 1)]
         all == log \o new
     IN IF "audit log" \in registered
        THEN /\ log' = SubSeq(all, 1 + (IF Len(all) > MaxMemory THEN Len(all) - MaxMemory
                                        ELSE 0), Len(all))
             /\ lastHash' = lastHash + Len(told)
        ELSE UNCHANGED <<log, lastHash>>
  /\ delivered' = IF EmitRaises THEN delivered ELSE delivered + Len(told)

\* Slip: what emit raises is swallowed.
BecameRegardless(o, stage) == operation' = [operation EXCEPT ![o].stage = stage]

\* The operation goes on, or ends with what emit raised.
Became(o, stage) ==
  operation' = [operation EXCEPT ![o].stage = IF EmitRaises THEN "raised" ELSE stage]

\* authenticate_and_authorize with a token that is not valid.
RefuseToken(o, t) ==
  /\ operation[o].stage = "new"
  /\ ~ValidToken(t)
  /\ Emit(o, <<<<"AUTHENTICATE", "deny">>>>)
  /\ Became(o, "unknown")
  /\ UNCHANGED <<token, revoked, entities, chain, registered>>

\* The policy engine keeps what the first request says of a resource for good.
EntityOf(r, kind) == IF entities[r] = NoEntity THEN kind ELSE entities[r]

\* record_provenance
WithRecord(c, decision) ==
  Append(c, [allowed |-> decision # "deny", previous |-> Len(c)])

\* ... and with a valid one: the policy engine's evaluation, its provenance record, the
\* event; anything but "allow" ends the operation.
Authorize(o, t, r, kind, action) ==
  /\ operation[o].stage = "new"
  /\ ValidToken(t)
  /\ LET decision == Decision(token[t].context, EntityOf(r, kind), action)
     IN /\ entities' = [entities EXCEPT ![r] = EntityOf(r, kind)]
        /\ chain' = [chain EXCEPT ![r] = WithRecord(@, decision)]
        /\ Emit(o, <<<<"AUTHORIZE", decision>>>>)
        /\ Became(o, IF decision = "allow" THEN "inside" ELSE decision)
  /\ UNCHANGED <<token, revoked, registered>>

\* secured_operation ends; its token may have ended before.
Complete(o) ==
  /\ operation[o].stage = "inside"
  /\ Emit(o, <<<<"DATA", "allow">>>>)
  /\ Became(o, "completed")
  /\ UNCHANGED <<token, revoked, entities, chain, registered>>

\* It raises: the violation is told, and in the finally clause the access all the same.
Fail(o) ==
  /\ operation[o].stage = "inside"
  /\ Emit(o, <<<<"SECURITY_VIOLATION", "deny">>, <<"DATA", "allow">>>>)
  /\ Became(o, "failed")
  /\ UNCHANGED <<token, revoked, entities, chain, registered>>

TrustNext ==
  \/ \E t \in Tokens : RevokeToken(t) \/ \E context \in Contexts : IssueToken(t, context)
  \/ TokenTick
  \/ \E o \in Operations :
       \/ \E t \in Tokens :
            \/ RefuseToken(o, t)
            \/ \E r \in Resources, kind \in Kinds, action \in {"read", "execute"} :
                 Authorize(o, t, r, kind, action)
       \/ Complete(o) \/ Fail(o)

TrustSpec == TrustInit /\ [][TrustNext]_trustVars

-------------------------------------------------------------------------------
(* Properties *)

Stages == {"new", "unknown", "deny", "challenge", "inside", "completed", "failed", "raised"}

\* Types of the registry's state.
TrustTypeOK ==
  /\ \A t \in Tokens : token[t].left \in -1 .. TokenTtl
  /\ revoked \subseteq Tokens
  /\ \A r \in Resources : entities[r] \in Kinds \cup {NoEntity}
  /\ \A r \in Resources : chain[r] \in Seq([allowed : BOOLEAN, previous : Nat])
  /\ Len(log) <= MaxMemory /\ lastHash \in Nat /\ delivered \in Nat
  /\ registered \in Registrations
  /\ \A o \in Operations : operation[o].stage \in Stages

\* What an operation that came this far has to tell.
Story(stage) ==
  CASE stage = "unknown" -> <<<<"AUTHENTICATE", "deny">>>>
    [] stage \in {"deny", "challenge"} -> <<<<"AUTHORIZE", stage>>>>
    [] stage = "inside" -> <<<<"AUTHORIZE", "allow">>>>
    [] stage = "completed" -> <<<<"AUTHORIZE", "allow">>, <<"DATA", "allow">>>>
    [] stage = "failed" -> <<<<"AUTHORIZE", "allow">>, <<"SECURITY_VIOLATION", "deny">>,
                             <<"DATA", "allow">>>>
    [] OTHER -> <<>>

EventsOf(o) == {i \in DOMAIN log : log[i].operation = o}
After(o, i) == Cardinality({j \in EventsOf(o) : j > i})

\* The log's events of an operation are the end of its story, in this order, and all of
\* it while the log forgets nothing.
StoryTold(o) ==
  LET story == Story(operation[o].stage)
  IN /\ \A i \in EventsOf(o) :
          /\ After(o, i) < Len(story)
          /\ <<log[i].action, log[i].outcome>> = story[Len(story) - After(o, i)]
     /\ Len(log) < MaxMemory => Cardinality(EventsOf(o)) = Len(story)

\* Nothing acts unrecorded, however operations overlap and tokens end meanwhile.  Where an
\* audit log is registered it keeps the end of every operation's story; where none is, as
\* in the application, emit raises and no operation gets in (secured_operation).
TrailComplete ==
  \A o \in Operations :
    /\ operation[o].stage \in {"inside", "completed", "failed"} => "audit log" \in registered
    /\ "audit log" \in registered /\ operation[o].stage # "raised" => StoryTold(o)

\* "Emit event to all layers and audit log" (registry.py:156): an operation that was
\* authorized or refused has been told to the subscribers.
EmitDelivers ==
  delivered >= Cardinality({o \in Operations : operation[o].stage # "new"})
===============================================================================
