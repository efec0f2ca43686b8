---------------------------- MODULE CredentialIntel ----------------------------
(***************************************************************************)
(* auth_defense/layer3_credintel: the assessment of a login from the       *)
(* password's breaches, the address, the journey and the device, and the   *)
(* cache of breach verdicts.  A range of the breach corpus is fetched over *)
(* the network; other logins come in between.  Risks are in hundredths.    *)
(* What a verdict says is that its password was in the corpus when the     *)
(* service read it, and how long ago that was.                             *)
(***************************************************************************)
EXTENDS Integers, FiniteSets, Functions

CONSTANTS
  Logins,     \* logins that may be assessed at once
  Passwords,
  Prefix,     \* the five characters of each password's hash that are sent
  Ttl,        \* cache_ttl, in ticks
  LongestFetch  \* the longest a fetch takes, in ticks: the client's timeout bounds its
                \* connection and each of its reads only, so this is assumed of the service

VARIABLES
  leaked,   \* the passwords in the breach corpus (the service's state)
  cache,    \* _cache: by prefix, a verdict and the time since it was stored
  login     \* where each login's check_password is

intelVars == <<leaked, cache, login>>

Missing == [state |-> "none"]
NoCheck == [state |-> "idle"]

\* BreachedCredentialCheck: whose password it is about (not in the code), its verdict
\* and the age of the corpus it was drawn from.
BreachVerdict(p, breached, age) == [of |-> p, breached |-> breached, age |-> age]

-------------------------------------------------------------------------------
(* Breach checks *)

IntelInit ==
  /\ leaked = {}
  /\ cache = [x \in Range(Prefix) |-> Missing]
  /\ login = [l \in Logins |-> NoCheck]

\* Slip: an entry is used however old it is.
FreshForEver(x) == cache[x] # Missing

Fresh(x) == cache[x] # Missing /\ cache[x].stored < Ttl

Answered(l, verdict) ==
  login' = [login EXCEPT ![l] = [state |-> "assessed", password |-> login[l].password,
                                 verdict |-> verdict]]

\* check_password: the cache is keyed by the prefix alone, and what it holds is the
\* verdict on the password that was looked up first.
CheckCached(l, p) ==
  /\ login[l] = NoCheck
  /\ Fresh(Prefix[p])
  /\ login' = [login EXCEPT ![l] = [state |-> "assessed", password |-> p,
                                    verdict |-> cache[Prefix[p]].verdict]]
  /\ UNCHANGED <<leaked, cache>>

Ask(l, p) ==
  /\ login[l] = NoCheck
  /\ ~Fresh(Prefix[p])
  /\ login' = [login EXCEPT ![l] = [state |-> "asked", password |-> p, waited |-> 0]]
  /\ UNCHANGED <<leaked, cache>>

\* The service answers with the range, as the corpus is now.
ServiceReads(l) ==
  /\ login[l].state = "asked"
  /\ login' = [login EXCEPT ![l] =
       [state |-> "read", password |-> login[l].password, waited |-> login[l].waited,
        verdict |-> BreachVerdict(login[l].password, login[l].password \in leaked, 0)]]
  /\ UNCHANGED <<leaked, cache>>

Store(l, verdict) ==
  cache' = [cache EXCEPT ![Prefix[login[l].password]] =
              [state |-> "cached", verdict |-> verdict, stored |-> 0]]

\* The range arrives, is searched for the rest of the hash, and cached.
Arrives(l) ==
  /\ login[l].state = "read"
  /\ Store(l, login[l].verdict) /\ Answered(l, login[l].verdict)
  /\ UNCHANGED leaked

\* The fetch fails or times out: the password counts as checked and not breached, and
\* that is cached as well.
Unavailable(l) ==
  /\ login[l].state \in {"asked", "read"}
  /\ LET verdict == BreachVerdict(login[l].password, FALSE, 0)
     IN Store(l, verdict) /\ Answered(l, verdict)
  /\ UNCHANGED leaked

\* The login goes on with its assessment.
Done(l) ==
  /\ login[l].state = "assessed"
  /\ login' = [login EXCEPT ![l] = NoCheck]
  /\ UNCHANGED <<leaked, cache>>

\* Another breach becomes known.
Leak(p) ==
  /\ p \notin leaked
  /\ leaked' = leaked \cup {p}
  /\ UNCHANGED <<cache, login>>

Older(verdict) == [verdict EXCEPT !.age = @ + 1]

\* Time passes, as long as no fetch takes longer than assumed and no assessment is behind;
\* what is past its Ttl is never read again, so its ages are kept where they are.
IntelTick ==
  /\ \A l \in Logins :
       /\ login[l].state # "assessed"
       /\ login[l].state \in {"asked", "read"} => login[l].waited < LongestFetch
  /\ cache' = [x \in DOMAIN cache |->
       IF Fresh(x) THEN [cache[x] EXCEPT !.verdict = Older(@), !.stored = @ + 1]
       ELSE cache[x]]
  /\ login' = [l \in Logins |->
       CASE login[l].state = "asked" -> [login[l] EXCEPT !.waited = @ + 1]
         [] login[l].state = "read" ->
              [login[l] EXCEPT !.waited = @ + 1, !.verdict = Older(@)]
         [] OTHER -> login[l]]
  /\ UNCHANGED leaked

IntelNext ==
  \/ \E l \in Logins, p \in Passwords : CheckCached(l, p) \/ Ask(l, p)
  \/ \E l \in Logins : ServiceReads(l) \/ Arrives(l) \/ Unavailable(l) \/ Done(l)
  \/ \E p \in Passwords : Leak(p)
  \/ IntelTick

IntelSpec == IntelInit /\ [][IntelNext]_intelVars

-------------------------------------------------------------------------------
(* Addresses, journeys and devices *)

Greatest(s) == CHOOSE x \in s : \A y \in s : y <= x

\* check_ip.  An address is the set of the lists it is on; "invalid" and "private"
\* are what the parser says of it.  The last list that matches names the category.
Reputation(ip) ==
  IF "invalid" \in ip THEN [category |-> "malicious", risk |-> 100, tor |-> FALSE]
  ELSE IF "private" \in ip THEN [category |-> "clean", risk |-> 0, tor |-> FALSE]
  ELSE [category |->
          IF "scanner" \in ip THEN "scanner"
          ELSE IF "malicious" \in ip THEN "malicious"
          ELSE IF "vpn" \in ip THEN "vpn_proxy"
          ELSE IF "tor" \in ip THEN "tor_exit"
          ELSE IF "hosting" \in ip THEN "hosting_provider" ELSE "clean",
        risk |-> Greatest({0} \cup {CASE l = "tor" -> 90 [] l = "vpn" -> 70
                                      [] l = "malicious" -> 95 [] l = "scanner" -> 80
                                      [] OTHER -> 40 : l \in ip}),
        tor |-> "tor" \in ip]

MaxSpeed == 900

\* check_impossible_travel: hours since the last recorded place and its distance in km.
\* Nothing is concluded without a place, or from one that is not in the past.
Journey(hours, km) ==
  LET impossible == hours > 0 /\ km > MaxSpeed * hours
  IN [impossible |-> impossible,
      risk |-> IF ~impossible THEN 0
               ELSE IF km >= 2 * MaxSpeed * hours THEN 100
               ELSE (100 * km) \div (2 * MaxSpeed * hours)]

\* check_device against the devices registered for the user.
DeviceCheck(known, device, agent, platform) ==
  IF DOMAIN known = {} THEN [new |-> TRUE, risk |-> 20]
  ELSE IF device \notin DOMAIN known THEN [new |-> TRUE, risk |-> 60]
  ELSE [new |-> FALSE,
        risk |-> (IF known[device].agent # agent THEN 30 ELSE 0)
                 + (IF known[device].platform # platform THEN 40 ELSE 0)]

\* register_device: a device is trusted from its second registration on.
DeviceRegistered(known, device, agent, platform) ==
  [d \in DOMAIN known \cup {device} |->
     IF d = device THEN [agent |-> agent, platform |-> platform,
                         trusted |-> device \in DOMAIN known]
     ELSE known[d]]

\* mark_device_trusted and revoke_device.
WithTrust(known, device, trusted) ==
  IF device \in DOMAIN known THEN [known EXCEPT ![device].trusted = trusted] ELSE known

-------------------------------------------------------------------------------
(* assess_credential_stuffing *)

NotChecked == [risk |-> 0, new |-> FALSE, impossible |-> FALSE, skipped |-> TRUE]

\* The factors that count: a breach only when there is one, the address always.
Factors(breached, ip, journey, device) ==
  [f \in {"ip"} \cup (IF breached THEN {"breach"} ELSE {})
           \cup (IF journey = NotChecked THEN {} ELSE {"journey"})
           \cup (IF device = NotChecked THEN {} ELSE {"device"}) |->
     CASE f = "ip" -> Reputation(ip).risk
       [] f = "breach" -> 80
       [] f = "journey" -> journey.risk
       [] OTHER -> device.risk]

\* overall_risk is their mean; compared without a division.
RiskOver(limit, factors) ==
  FoldFunction(LAMBDA x, y : x + y, 0, factors) > limit * Cardinality(DOMAIN factors)

\* patterns_detected
Patterns(breached, ip, journey, device) ==
  (IF breached THEN {"known_breached_credentials"} ELSE {})
    \cup (IF Reputation(ip).category \in {"tor_exit", "vpn_proxy", "hosting_provider"}
          THEN {"distributed_low_velocity"} ELSE {})
    \cup (IF Reputation(ip).category = "malicious"
          THEN {"high_velocity_single_ip"} ELSE {})
    \cup (IF journey.impossible THEN {"impossible_travel"} ELSE {})
    \cup (IF device.new THEN {"device_farm"} ELSE {})

-------------------------------------------------------------------------------
(* Properties *)

VerdictType(v) ==
  v.of \in Passwords /\ v.breached \in BOOLEAN /\ v.age \in 0 .. Ttl + LongestFetch

\* Types of the cache and of the logins.
IntelTypeOK ==
  /\ leaked \subseteq Passwords
  /\ \A x \in DOMAIN cache :
       cache[x] # Missing => cache[x].stored \in 0 .. Ttl /\ VerdictType(cache[x].verdict)
  /\ \A l \in Logins : login[l].state \in {"read", "assessed"} => VerdictType(login[l].verdict)

\* The verdict a login is assessed with is never older than one cache lifetime and the
\* longest fetch, although fetches of one range overlap and overwrite each other's
\* entries; and it speaks of a breach only if the password it was drawn for is in the
\* corpus.
VerdictFresh ==
  \A l \in Logins : login[l].state = "assessed" =>
    LET verdict == login[l].verdict
    IN /\ verdict.age < Ttl + LongestFetch
       /\ verdict.breached => verdict.of \in leaked
===============================================================================
