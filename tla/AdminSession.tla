------------------------------ MODULE AdminSession -----------------------------
(***************************************************************************)
(* gateway.py and the auth routes of main.py: who is let in.  An           *)
(* administrator's login creates a session, its cookie comes back with     *)
(* later requests, and a session ends by logout, of any window that shares *)
(* the cookie, or by its time.  API routes take a session or an API key.   *)
(***************************************************************************)
EXTENDS Integers, Sequences, FiniteSets

CONSTANTS
  Sessions,    \* session ids, each used once
  Browsers,
  SessionTtl,  \* max(60, auth_session_ttl_seconds), in ticks
  Settings     \* the settings a process may have


VARIABLES
  settings,   \* get_settings(), the same for the process's life
  table,      \* _AUTH_SESSIONS: the time each session has left
  cookie,     \* the session each browser holds a cookie of
  warned,     \* _AUTH_BYPASS_WARNED
  used,       \* sessions ever created (not in the code)
  ended,      \* sessions logged out, or past their time (not in the code)
  passed      \* the session that let the latest request through (not in the code)

sessionVars == <<settings, table, cookie, warned, used, ended, passed>>

None == -1
NoCookie == "none"

\* A session id is never empty.
ASSUME SessionAssumption == NoCookie \notin Sessions /\ SessionTtl \in Nat \ {0}

\* Settings: an environment, whether an administrator's hash and API keys are configured.
Configured == settings.hash
Fallback == ~settings.production /\ ~settings.hash

SessionInit ==
  /\ settings \in Settings
  /\ table = [s \in Sessions |-> None]
  /\ cookie = [b \in Browsers |-> NoCookie]
  /\ warned = FALSE
  /\ used = {} /\ ended = {} /\ passed = NoCookie

-------------------------------------------------------------------------------
(* The administrator's routes *)

\* admin_login with the right credentials, the configured ones or the demo's: a new
\* session; the cookie of an older one is replaced, its session lives on.
Login(b, s) ==
  /\ Configured \/ Fallback
  /\ s \notin used
  /\ table' = [table EXCEPT ![s] = SessionTtl]
  /\ cookie' = [cookie EXCEPT ![b] = s]
  /\ used' = used \cup {s}
  /\ passed' = NoCookie
  /\ UNCHANGED <<settings, warned, ended>>

\* valid_session: unknown, expired or alive.
Live(s) == s # NoCookie /\ table[s] > 0

\* It forgets an expired session, and only one it is asked about.
Asked(s) ==
  table' = IF s # NoCookie /\ table[s] = 0 THEN [table EXCEPT ![s] = None] ELSE table

Let(s, through) == passed' = IF through THEN s ELSE NoCookie

\* admin_session
Me(b) ==
  /\ Asked(cookie[b])
  /\ Let(cookie[b], Live(cookie[b]))
  /\ UNCHANGED <<settings, cookie, warned, used, ended>>

\* Slip: the session survives its logout.
LogoutKeeps(b) ==
  /\ cookie' = [cookie EXCEPT ![b] = NoCookie]
  /\ ended' = IF cookie[b] = NoCookie THEN ended ELSE ended \cup {cookie[b]}
  /\ passed' = NoCookie
  /\ UNCHANGED <<settings, table, warned, used>>

\* admin_logout: revoke_session and the cookie's deletion.
Logout(b) ==
  /\ table' = IF cookie[b] = NoCookie THEN table ELSE [table EXCEPT ![cookie[b]] = None]
  /\ cookie' = [cookie EXCEPT ![b] = NoCookie]
  /\ ended' = IF cookie[b] = NoCookie THEN ended ELSE ended \cup {cookie[b]}
  /\ passed' = NoCookie
  /\ UNCHANGED <<settings, warned, used>>

\* Another window or browser profile gets a copy of the cookie.
Share(b, other) ==
  /\ cookie[b] # NoCookie
  /\ cookie' = [cookie EXCEPT ![other] = cookie[b]]
  /\ passed' = NoCookie
  /\ UNCHANGED <<settings, table, warned, used, ended>>

-------------------------------------------------------------------------------
(* require_api_key *)

\* With keys configured, a live session or a matching key is let through.
CallWithKeys(b) ==
  /\ settings.keys
  /\ Asked(cookie[b])
  /\ Let(cookie[b], Live(cookie[b]))
  /\ UNCHANGED <<settings, cookie, warned, used, ended>>

\* Without keys a production process answers 503, any other lets everybody through and
\* warns once; neither looks at the session.
CallWithoutKeys ==
  /\ ~settings.keys
  /\ warned' = (warned \/ ~settings.production)
  /\ passed' = NoCookie
  /\ UNCHANGED <<settings, table, cookie, used, ended>>

SessionTick ==
  /\ table' = [s \in Sessions |-> IF table[s] > 0 THEN table[s] - 1 ELSE table[s]]
  /\ ended' = ended \cup {s \in Sessions : table[s] = 1}
  /\ passed' = NoCookie
  /\ UNCHANGED <<settings, cookie, warned, used>>

SessionNext ==
  \/ \E b \in Browsers :
       \/ \E s \in Sessions : Login(b, s)
       \/ Me(b) \/ Logout(b) \/ CallWithKeys(b)
       \/ \E other \in Browsers \ {b} : Share(b, other)
  \/ CallWithoutKeys
  \/ SessionTick

SessionSpec == SessionInit /\ [][SessionNext]_sessionVars

-------------------------------------------------------------------------------
(* client_ip and create_limiter *)

Rightmost(s) == CHOOSE i \in s : \A j \in s : j <= i

\* client_ip: with a trusted peer, the last hop of X-Forwarded-For that is not a trusted
\* proxy; if all are, the first; without a header, the peer.
ClientIp(peer, chain, trusted) ==
  LET outside == {i \in 1 .. Len(chain) : chain[i] \notin trusted}
  IN IF peer \notin trusted \/ chain = <<>> THEN peer
     ELSE IF outside = {} THEN chain[1] ELSE chain[Rightmost(outside)]

\* create_limiter: what becomes of the limiter at startup.
LimiterOutcome(production, enabled, library, workers, redis) ==
  IF ~enabled \/ ~library THEN (IF production THEN "refuses to start" ELSE "off")
  ELSE IF (production \/ workers > 1) /\ ~redis THEN "refuses to start"
  ELSE "on"

-------------------------------------------------------------------------------
(* Properties *)

\* Types of the session table.
SessionTypeOK ==
  /\ settings \in Settings
  /\ table \in [Sessions -> None .. SessionTtl]
  /\ cookie \in [Browsers -> Sessions \cup {NoCookie}]
  /\ warned \in BOOLEAN
  /\ used \subseteq Sessions /\ ended \subseteq used /\ passed \in used \cup {NoCookie}

\* Once a session is logged out in one window or has run out of time, no request is let
\* through with it, from whichever window its cookie still comes.
EndedStaysEnded == passed \notin ended
===============================================================================
