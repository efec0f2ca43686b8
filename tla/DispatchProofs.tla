---------------------------- MODULE DispatchProofs -----------------------------
(***************************************************************************)
(* The auth defense middleware, its token buckets and its second and third *)
(* layer, for every number of requests, clients, nodes, challenges and     *)
(* passwords: no bucket grants more than its rate, challenges are solved   *)
(* once, verdicts on passwords are fresh, and the components that count    *)
(* logins agree, as long as the paths it guards are not excluded.          *)
(***************************************************************************)
EXTENDS TokenBuckets, BotDetection, CredentialIntel, AuthDispatch, FiniteSetTheorems, TLAPS

(* Challenges *)

Challenge == [kind : {"pow", "captcha", "behavioral"}, left : Int, verified : BOOLEAN]

\* The inductive invariant: whose response was accepted is not forgotten before the
\* challenge is, and a forgotten challenge is not stored again under its id.
BotInv ==
  /\ challenge \in [Challenges -> {NoChallenge} \cup Challenge]
  /\ solved \in [Challenges -> Nat]
  /\ SolvedOnce

\* NoChallenge is not a challenge.
LEMMA NoneIsNone == \A x \in Challenge : x # NoChallenge
  BY DEF Challenge, NoChallenge

\* An accepted response changes a challenge that was open, and so not solved before.
LEMMA VerifyKeeps ==
  ASSUME BotInv, NEW c \in Challenges, NEW response, Verify(c, response)
  PROVE  BotInv'
<1>1. CASE UNCHANGED botVars
  BY <1>1 DEF BotInv, SolvedOnce, botVars
<1>2. CASE Open(c) /\ Accept(c)
  <2>1. challenge[c] \in Challenge /\ ~challenge[c].verified
    BY <1>2 DEF Open, BotInv
  <2>2. solved[c] = 0
    BY <2>1, NoneIsNone DEF BotInv, SolvedOnce
  <2>3. [challenge[c] EXCEPT !.verified = TRUE] \in Challenge
    BY <2>1 DEF Challenge
  <2>4. /\ challenge' = [challenge EXCEPT ![c] = [challenge[c] EXCEPT !.verified = TRUE]]
        /\ solved' = [solved EXCEPT ![c] = solved[c] + 1]
    BY <1>2 DEF Accept
  <2>5. challenge'[c].verified /\ solved'[c] = 1
    BY <2>1, <2>2, <2>4 DEF BotInv, Challenge
  <2>6. /\ challenge' \in [Challenges -> {NoChallenge} \cup Challenge]
        /\ solved' \in [Challenges -> Nat]
    BY <2>2, <2>3, <2>4 DEF BotInv
  <2>7. SolvedOnce'
    BY <2>4, <2>5 DEF BotInv, SolvedOnce
  <2> QED
    BY <2>6, <2>7 DEF BotInv
<1> QED
  BY <1>1, <1>2 DEF Verify

\* Every step keeps the invariant.
LEMMA BotStep ==
  ASSUME Lifetime \in Int, BotInv, [BotNext]_botVars
  PROVE  BotInv'
<1>1. ASSUME NEW c \in Challenges, NEW fp \in Fingerprints, Generate(c, fp)  PROVE BotInv'
  <2>1. ChallengeFor(fp) \in {"pow", "captcha", "behavioral"}
    BY DEF ChallengeFor
  <2> DEFINE new == [kind |-> ChallengeFor(fp), left |-> Lifetime, verified |-> FALSE]
  <2>2. new \in Challenge
    BY <2>1 DEF Challenge
  <2>3. challenge' = [challenge EXCEPT ![c] = new] /\ solved' = solved /\ solved[c] = 0
    BY <1>1 DEF Generate
  <2> HIDE DEF new
  <2> QED
    BY <2>2, <2>3 DEF BotInv, SolvedOnce
<1>2. ASSUME NEW c \in Challenges, NEW response \in Responses, Verify(c, response)
      PROVE  BotInv'
  BY <1>2, VerifyKeeps
<1>3. CASE Cleanup
  <2>1. \A c \in Challenges : /\ challenge'[c] \in {NoChallenge, challenge[c]}
                              /\ solved'[c] = solved[c]
    BY <1>3 DEF Cleanup
  <2>2. challenge' \in [Challenges -> {NoChallenge} \cup Challenge] /\ solved' = solved
    BY <1>3 DEF Cleanup, BotInv
  <2> QED
    BY <2>1, <2>2 DEF BotInv, SolvedOnce
<1>4. CASE BotTick
  <2>1. ASSUME NEW c \in Challenges, challenge[c] \in Challenge
        PROVE  LET older == [challenge[c] EXCEPT !.left = @ - 1]
               IN older \in Challenge /\ older.verified = challenge[c].verified
    BY <2>1 DEF Challenge
  <2>2. \A c \in Challenges :
          \/ challenge'[c] = challenge[c]
          \/ challenge'[c] \in Challenge /\ challenge[c] \in Challenge
               /\ challenge'[c].verified = challenge[c].verified
    BY <1>4, <2>1 DEF BotTick, BotInv
  <2>3. challenge' \in [Challenges -> {NoChallenge} \cup Challenge] /\ solved' = solved
    BY <1>4, <2>2 DEF BotTick, BotInv
  <2> QED
    BY <2>2, <2>3, NoneIsNone DEF BotInv, SolvedOnce
<1>5. CASE UNCHANGED botVars
  BY <1>5 DEF BotInv, SolvedOnce, botVars
<1> QED
  BY <1>1, <1>2, <1>3, <1>4, <1>5 DEF BotNext

\* However often an answer is sent, a challenge lets its client through once.
THEOREM ChallengesSolvedOnce == ASSUME Lifetime \in Int PROVE BotSpec => []SolvedOnce
<1>1. BotInit => BotInv
  BY DEF BotInit, BotInv, SolvedOnce
<1>2. BotInv /\ [BotNext]_botVars => BotInv'
  BY BotStep
<1>3. BotInv => SolvedOnce
  BY DEF BotInv
<1> QED
  BY <1>1, <1>2, <1>3, PTL DEF BotSpec

\* A challenge stays below its lifetime, whatever is accepted, forgotten or expires.
THEOREM ChallengesTyped == ASSUME Lifetime \in Nat PROVE BotSpec => []BotTypeOK
<1> DEFINE Live == [kind : {"pow", "captcha", "behavioral"}, left : -1 .. Lifetime,
                    verified : BOOLEAN]
<1>1. BotInit => BotTypeOK
  BY DEF BotInit, BotTypeOK
<1>2. BotTypeOK /\ [BotNext]_botVars => BotTypeOK'
  <2> SUFFICES ASSUME BotTypeOK, [BotNext]_botVars  PROVE BotTypeOK'
    OBVIOUS
  <2>0. /\ challenge \in [Challenges -> {NoChallenge} \cup Live]
        /\ solved \in [Challenges -> Nat]
    BY DEF BotTypeOK
  <2>1. ASSUME NEW c \in Challenges, NEW fp \in Fingerprints, Generate(c, fp)
        PROVE  BotTypeOK'
    <3>1. [kind |-> ChallengeFor(fp), left |-> Lifetime, verified |-> FALSE] \in Live
      BY DEF ChallengeFor
    <3> QED
      BY <2>0, <2>1, <3>1 DEF Generate, BotTypeOK
  <2>2. ASSUME NEW c \in Challenges, NEW response \in Responses, Verify(c, response)
        PROVE  BotTypeOK'
    <3>1. CASE UNCHANGED botVars
      BY <2>0, <3>1 DEF botVars, BotTypeOK
    <3>2. CASE Open(c) /\ Accept(c)
      <4>1. challenge[c] \in Live
        BY <2>0, <3>2 DEF Open
      <4>2. [challenge[c] EXCEPT !.verified = TRUE] \in Live
        BY <4>1
      <4>3. /\ challenge' = [challenge EXCEPT ![c] = [challenge[c] EXCEPT !.verified = TRUE]]
            /\ solved' = [solved EXCEPT ![c] = solved[c] + 1]
        BY <3>2 DEF Accept
      <4> QED
        BY <2>0, <4>2, <4>3 DEF BotTypeOK
    <3> QED
      BY <2>2, <3>1, <3>2 DEF Verify
  <2>3. CASE Cleanup
    BY <2>0, <2>3 DEF Cleanup, BotTypeOK
  <2>4. CASE BotTick
    <3>1. \A c \in Challenges :
            challenge[c] \in Live /\ challenge[c].left >= 0 =>
              [challenge[c] EXCEPT !.left = @ - 1] \in Live
      OBVIOUS
    <3>2. /\ \A c \in Challenges : challenge'[c] \in {NoChallenge} \cup Live
          /\ solved' = solved
      BY <2>0, <2>4, <3>1 DEF BotTick
    <3> QED
      BY <2>0, <2>4, <3>2 DEF BotTick, BotTypeOK
  <2>5. CASE UNCHANGED botVars
    BY <2>0, <2>5 DEF botVars, BotTypeOK
  <2> QED
    BY <2>1, <2>2, <2>3, <2>4, <2>5 DEF BotNext
<1> QED
  BY <1>1, <1>2, PTL DEF BotSpec

-------------------------------------------------------------------------------
(* Verdicts on passwords *)

AnyVerdict == [of : Passwords, breached : BOOLEAN, age : Nat]
CachedEntry == [state : {"cached"}, verdict : AnyVerdict, stored : Nat]
Fetching == [state : {"asked"}, password : Passwords, waited : 0 .. LongestFetch]
Reading ==
  [state : {"read"}, password : Passwords, waited : 0 .. LongestFetch, verdict : AnyVerdict]
Assessed == [state : {"assessed"}, password : Passwords, verdict : AnyVerdict]

\* A verdict speaks of a breach only if its password is in the corpus.
Backed(verdict) == verdict.breached => verdict.of \in leaked

IntelTypes ==
  /\ leaked \subseteq Passwords
  /\ cache \in [Range(Prefix) -> {Missing} \cup CachedEntry]
  /\ login \in [Logins -> {NoCheck} \cup Fetching \cup Reading \cup Assessed]

\* The inductive invariant: a cached verdict is older than its entry by one fetch at
\* most, and one that is on its way no older than the wait for it.
IntelInv ==
  /\ IntelTypes
  /\ \A x \in Range(Prefix) : cache[x] \in CachedEntry =>
       cache[x].verdict.age <= cache[x].stored + LongestFetch /\ Backed(cache[x].verdict)
  /\ \A l \in Logins : login[l] \in Reading =>
       login[l].verdict.age <= login[l].waited /\ Backed(login[l].verdict)
  /\ \A l \in Logins : login[l] \in Assessed =>
       login[l].verdict.age < Ttl + LongestFetch /\ Backed(login[l].verdict)

IntelConstants ==
  /\ Ttl \in Nat \ {0} /\ LongestFetch \in Nat
  /\ DOMAIN Prefix = Passwords

\* Where a login is tells what is kept of it.
LEMMA StatesApart ==
  /\ \A x \in Fetching : x.state = "asked" /\ x \notin Reading \cup Assessed \cup {NoCheck}
  /\ \A x \in Reading : x.state = "read" /\ x \notin Fetching \cup Assessed \cup {NoCheck}
  /\ \A x \in Assessed : x.state = "assessed" /\ x \notin Fetching \cup Reading \cup {NoCheck}
  /\ \A x \in CachedEntry : x # Missing
  /\ NoCheck.state = "idle"
  BY DEF Fetching, Reading, Assessed, CachedEntry, NoCheck, Missing

\* Every password has a prefix.
LEMMA PrefixInRange ==
  ASSUME IntelConstants, NEW p \in Passwords
  PROVE  Prefix[p] \in Range(Prefix)
  BY DEF IntelConstants, Range

\* A verdict of at most a fetch's age is stored for, and told to, the login that fetched.
LEMMA FetchEnds ==
  ASSUME IntelConstants, IntelInv, NEW l \in Logins, login[l] \in Fetching \cup Reading,
         NEW verdict \in AnyVerdict, verdict.age <= LongestFetch, Backed(verdict),
         Store(l, verdict), Answered(l, verdict), UNCHANGED leaked
  PROVE  IntelInv'
<1> DEFINE entry == [state |-> "cached", verdict |-> verdict, stored |-> 0]
           told == [state |-> "assessed", password |-> login[l].password, verdict |-> verdict]
           x == Prefix[login[l].password]
<1>1. login[l].password \in Passwords
  BY DEF Fetching, Reading
<1>2. x \in Range(Prefix)
  BY <1>1, PrefixInRange
<1>3. entry \in CachedEntry /\ told \in Assessed
  BY <1>1 DEF CachedEntry, Assessed, AnyVerdict
<1>4. cache' = [cache EXCEPT ![x] = entry] /\ login' = [login EXCEPT ![l] = told]
  BY DEF Store, Answered
<1>5. entry.verdict = verdict /\ entry.stored = 0 /\ told.verdict = verdict
  OBVIOUS
<1>6. verdict.age < Ttl + LongestFetch /\ verdict.age \in Nat /\ LongestFetch \in Nat
  BY DEF IntelConstants, AnyVerdict
<1> HIDE DEF entry, told, x
<1>7. IntelTypes'
  BY <1>2, <1>3, <1>4 DEF IntelInv, IntelTypes
<1>8. told \notin Reading
  BY <1>3, StatesApart
<1>9. \A v : Backed(v)' <=> Backed(v)
  BY DEF Backed
<1> QED
  BY <1>2, <1>4, <1>5, <1>6, <1>7, <1>8, <1>9 DEF IntelInv, IntelTypes, Backed

\* An answer from the cache is fresh, because an entry that is used is within its Ttl.
LEMMA CacheAnswers ==
  ASSUME IntelConstants, IntelInv, NEW l \in Logins, NEW p \in Passwords, CheckCached(l, p)
  PROVE  IntelInv'
<1> DEFINE x == Prefix[p]
           told == [state |-> "assessed", password |-> p, verdict |-> cache[x].verdict]
<1>1. x \in Range(Prefix) /\ cache[x] \in CachedEntry /\ cache[x].stored < Ttl
  BY PrefixInRange DEF CheckCached, Fresh, IntelInv, IntelTypes
<1>2. cache[x].verdict \in AnyVerdict /\ cache[x].stored \in Nat
  BY <1>1 DEF CachedEntry
<1>3. cache[x].verdict.age < Ttl + LongestFetch /\ Backed(cache[x].verdict)
  BY <1>1, <1>2 DEF IntelInv, IntelConstants, AnyVerdict
<1>4. told \in Assessed /\ told.verdict = cache[x].verdict
  BY <1>2 DEF Assessed
<1>5. login' = [login EXCEPT ![l] = told] /\ cache' = cache /\ leaked' = leaked
  BY DEF CheckCached
<1> HIDE DEF told, x
<1>6. told \notin Reading
  BY <1>4, StatesApart
<1> QED
  BY <1>3, <1>4, <1>5, <1>6 DEF IntelInv, IntelTypes, Backed

\* A login that goes on to a state without a verdict.
LEMMA Moves ==
  ASSUME IntelInv, NEW l \in Logins, NEW next \in {NoCheck} \cup Fetching,
         login' = [login EXCEPT ![l] = next], UNCHANGED <<leaked, cache>>
  PROVE  IntelInv'
BY StatesApart DEF IntelInv, IntelTypes, Backed

\* What the service reads is about its corpus at that time.
LEMMA ServiceReading ==
  ASSUME IntelInv, NEW l \in Logins, ServiceReads(l)
  PROVE  IntelInv'
<1> DEFINE p == login[l].password
           verdict == BreachVerdict(p, p \in leaked, 0)
           next == [state |-> "read", password |-> p, waited |-> login[l].waited,
                    verdict |-> verdict]
<1>1. login[l] \in Fetching
  BY StatesApart DEF ServiceReads, IntelInv, IntelTypes
<1>2. p \in Passwords /\ login[l].waited \in 0 .. LongestFetch
  BY <1>1 DEF Fetching
<1>3. verdict \in AnyVerdict /\ verdict.age = 0 /\ Backed(verdict)
  <2> DEFINE breached == p \in leaked
  <2>1. breached \in BOOLEAN
    OBVIOUS
  <2>2. breached => p \in leaked
    OBVIOUS
  <2>3. verdict = [of |-> p, breached |-> breached, age |-> 0]
    BY DEF BreachVerdict
  <2> HIDE DEF breached, verdict, p
  <2> QED
    BY <1>2, <2>1, <2>2, <2>3 DEF AnyVerdict, Backed
<1>4. login' = [login EXCEPT ![l] = next] /\ cache' = cache /\ leaked' = leaked
  BY DEF ServiceReads
<1> HIDE DEF verdict, p
<1>5. next \in Reading /\ next.verdict = verdict /\ next.waited \in 0 .. LongestFetch
  BY <1>2, <1>3 DEF Reading
<1> HIDE DEF next
<1>6. next \notin Assessed
  BY <1>5, StatesApart
<1> QED
  BY <1>3, <1>4, <1>5, <1>6 DEF IntelInv, IntelTypes, Backed

\* Time makes verdicts, entries and waits older together, and past its Ttl nothing.
LEMMA GrowsOlder ==
  ASSUME IntelConstants, IntelInv, IntelTick
  PROVE  IntelInv'
<1>1. ASSUME NEW x \in Range(Prefix), cache[x] \in CachedEntry
      PROVE  /\ cache'[x] \in CachedEntry
             /\ cache'[x].verdict.age <= cache'[x].stored + LongestFetch
             /\ Backed(cache'[x].verdict)
  <2>1. /\ cache[x].verdict \in AnyVerdict /\ cache[x].stored \in Nat
        /\ cache[x].verdict.age <= cache[x].stored + LongestFetch /\ Backed(cache[x].verdict)
    BY <1>1 DEF IntelInv, CachedEntry
  <2> DEFINE older == [cache[x] EXCEPT !.verdict = Older(@), !.stored = @ + 1]
  <2>2. Older(cache[x].verdict) \in AnyVerdict
    BY <2>1 DEF Older, AnyVerdict
  <2>3. /\ older \in CachedEntry /\ older.verdict = Older(cache[x].verdict)
        /\ older.stored = cache[x].stored + 1
    <3> DEFINE e == cache[x]
               v == Older(cache[x].verdict)
               n == cache[x].stored + 1
    <3>1. e \in CachedEntry /\ v \in AnyVerdict /\ n \in Nat
      BY <1>1, <2>1, <2>2
    <3>2. older = [e EXCEPT !.verdict = v, !.stored = n]
      OBVIOUS
    <3> HIDE DEF e, v, n, older
    <3>3. older \in CachedEntry /\ older.verdict = v /\ older.stored = n
      BY <3>1, <3>2 DEF CachedEntry
    <3> QED
      BY <3>3 DEF v, n
  <2>4. /\ Older(cache[x].verdict).age = cache[x].verdict.age + 1
        /\ Older(cache[x].verdict).breached = cache[x].verdict.breached
        /\ Older(cache[x].verdict).of = cache[x].verdict.of
    BY <2>1 DEF Older, AnyVerdict
  <2>5. cache'[x] \in {older, cache[x]}
    BY DEF IntelTick, IntelInv, IntelTypes
  <2> HIDE DEF older
  <2> QED
    BY <1>1, <2>1, <2>2, <2>3, <2>4, <2>5 DEF IntelConstants, Backed, AnyVerdict
<1>2. ASSUME NEW l \in Logins, login[l] \in Fetching  PROVE login'[l] \in Fetching
  <2>1. login'[l] = [login[l] EXCEPT !.waited = @ + 1] /\ login[l].waited < LongestFetch
    BY <1>2, StatesApart DEF IntelTick
  <2> QED
    BY <1>2, <2>1 DEF Fetching, IntelConstants
<1>3. ASSUME NEW l \in Logins, login[l] \in Reading
      PROVE  /\ login'[l] \in Reading
             /\ login'[l].verdict.age <= login'[l].waited /\ Backed(login'[l].verdict)
  <2>1. /\ login'[l] = [login[l] EXCEPT !.waited = @ + 1, !.verdict = Older(@)]
        /\ login[l].waited < LongestFetch
    BY <1>3, StatesApart DEF IntelTick
  <2>2. /\ login[l].verdict \in AnyVerdict /\ login[l].waited \in 0 .. LongestFetch
        /\ login[l].verdict.age <= login[l].waited /\ Backed(login[l].verdict)
    BY <1>3 DEF IntelInv, Reading
  <2>3. /\ Older(login[l].verdict) \in AnyVerdict
        /\ Older(login[l].verdict).age = login[l].verdict.age + 1
        /\ Older(login[l].verdict).breached = login[l].verdict.breached
        /\ Older(login[l].verdict).of = login[l].verdict.of
    BY <2>2 DEF Older, AnyVerdict
  <2>4. /\ login'[l] \in Reading /\ login'[l].waited = login[l].waited + 1
        /\ login'[l].verdict = Older(login[l].verdict)
    <3> DEFINE r == login[l]
               v == Older(login[l].verdict)
               n == login[l].waited + 1
    <3>1. r \in Reading /\ v \in AnyVerdict /\ n \in 0 .. LongestFetch
      BY <1>3, <2>1, <2>2, <2>3 DEF IntelConstants
    <3>2. login'[l] = [r EXCEPT !.waited = n, !.verdict = v]
      BY <2>1
    <3> HIDE DEF r, v, n
    <3>3. login'[l] \in Reading /\ login'[l].waited = n /\ login'[l].verdict = v
      BY <3>1, <3>2 DEF Reading
    <3> QED
      BY <3>3 DEF v, n
  <2>5. leaked' = leaked
    BY DEF IntelTick
  <2>6. login'[l].verdict.age <= login'[l].waited
    BY <2>2, <2>3, <2>4 DEF AnyVerdict
  <2>7. Backed(login'[l].verdict)
    BY <2>2, <2>3, <2>4 DEF Backed
  <2> QED
    BY <2>4, <2>5, <2>6, <2>7 DEF Backed
<1>4. ASSUME NEW l \in Logins, login[l] = NoCheck  PROVE login'[l] = NoCheck
  BY <1>4, StatesApart DEF IntelTick
<1>5. \A l \in Logins : login[l] \notin Assessed
  BY StatesApart DEF IntelTick
<1>6. \A x \in Range(Prefix) : cache[x] = Missing => cache'[x] = Missing
  BY DEF IntelTick, IntelInv, IntelTypes, Fresh
<1>7. DOMAIN cache' = Range(Prefix) /\ DOMAIN login' = Logins /\ leaked' = leaked
        /\ cache' = [x \in Range(Prefix) |-> cache'[x]]
        /\ login' = [l \in Logins |-> login'[l]]
  BY DEF IntelTick, IntelInv, IntelTypes
<1>8. IntelTypes'
  <2>1. \A x \in Range(Prefix) : cache'[x] \in {Missing} \cup CachedEntry
    BY <1>1, <1>6 DEF IntelInv, IntelTypes
  <2>2. \A l \in Logins : login'[l] \in {NoCheck} \cup Fetching \cup Reading \cup Assessed
    BY <1>2, <1>3, <1>4, <1>5 DEF IntelInv, IntelTypes
  <2> QED
    BY <1>7, <2>1, <2>2 DEF IntelInv, IntelTypes
<1>9. \A x \in Range(Prefix) : cache'[x] \in CachedEntry => cache[x] \in CachedEntry
  BY <1>6, StatesApart DEF IntelInv, IntelTypes
<1>10. \A l \in Logins : /\ login'[l] \in Reading => login[l] \in Reading
                         /\ login'[l] \notin Assessed
  BY <1>2, <1>3, <1>4, <1>5, StatesApart DEF IntelInv, IntelTypes
<1> QED
  BY <1>1, <1>3, <1>7, <1>8, <1>9, <1>10 DEF IntelInv, Backed

\* Every step keeps the invariant.
LEMMA IntelStep ==
  ASSUME IntelConstants, IntelInv, [IntelNext]_intelVars
  PROVE  IntelInv'
<1>1. ASSUME NEW l \in Logins, NEW p \in Passwords, CheckCached(l, p)  PROVE IntelInv'
  BY <1>1, CacheAnswers
<1>2. ASSUME NEW l \in Logins, NEW p \in Passwords, Ask(l, p)  PROVE IntelInv'
  <2> DEFINE next == [state |-> "asked", password |-> p, waited |-> 0]
  <2>1. next \in Fetching
    BY DEF Fetching, IntelConstants
  <2>2. login' = [login EXCEPT ![l] = next] /\ UNCHANGED <<leaked, cache>>
    BY <1>2 DEF Ask
  <2> HIDE DEF next
  <2> QED
    BY <2>1, <2>2, Moves
<1>3. ASSUME NEW l \in Logins, ServiceReads(l)  PROVE IntelInv'
  BY <1>3, ServiceReading
<1>4. ASSUME NEW l \in Logins, Arrives(l)  PROVE IntelInv'
  <2>1. login[l] \in Reading
    BY <1>4, StatesApart DEF Arrives, IntelInv, IntelTypes
  <2>2. /\ login[l].verdict \in AnyVerdict /\ Backed(login[l].verdict)
        /\ login[l].verdict.age <= LongestFetch
    BY <2>1 DEF IntelInv, Reading, AnyVerdict, IntelConstants
  <2> QED
    BY <1>4, <2>1, <2>2, FetchEnds DEF Arrives
<1>5. ASSUME NEW l \in Logins, Unavailable(l)  PROVE IntelInv'
  <2> DEFINE verdict == BreachVerdict(login[l].password, FALSE, 0)
  <2>1. login[l] \in Fetching \cup Reading
    BY <1>5, StatesApart DEF Unavailable, IntelInv, IntelTypes
  <2>2. verdict \in AnyVerdict /\ Backed(verdict) /\ verdict.age <= LongestFetch
    BY <2>1 DEF BreachVerdict, AnyVerdict, Backed, Fetching, Reading, IntelConstants
  <2>3. Store(l, verdict) /\ Answered(l, verdict) /\ UNCHANGED leaked
    BY <1>5 DEF Unavailable
  <2> HIDE DEF verdict
  <2> QED
    BY <2>1, <2>2, <2>3, FetchEnds
<1>6. ASSUME NEW l \in Logins, Done(l)  PROVE IntelInv'
  BY <1>6, Moves DEF Done
<1>7. ASSUME NEW p \in Passwords, Leak(p)  PROVE IntelInv'
  <2>1. \A v : Backed(v) => Backed(v)'
    BY <1>7 DEF Leak, Backed
  <2> QED
    BY <1>7, <2>1 DEF Leak, IntelInv, IntelTypes
<1>8. CASE IntelTick
  BY <1>8, GrowsOlder
<1>9. CASE UNCHANGED intelVars
  BY <1>9 DEF intelVars, IntelInv, IntelTypes, Backed
<1> QED
  BY <1>1, <1>2, <1>3, <1>4, <1>5, <1>6, <1>7, <1>8, <1>9 DEF IntelNext

\* However long a fetch may take: no login is assessed with a verdict older than one cache
\* lifetime and the longest fetch, and none with a breach that the corpus does not have.
THEOREM VerdictsAreFresh == ASSUME IntelConstants PROVE IntelSpec => []VerdictFresh
<1>1. IntelInit => IntelInv
  <2>1. \A l \in Logins : NoCheck \notin Reading \cup Assessed
    BY StatesApart
  <2>2. Missing \notin CachedEntry
    BY StatesApart
  <2> QED
    BY <2>1, <2>2 DEF IntelInit, IntelInv, IntelTypes
<1>2. IntelInv /\ [IntelNext]_intelVars => IntelInv'
  BY IntelStep
<1>3. IntelInv => VerdictFresh
  <2> SUFFICES ASSUME IntelInv, NEW l \in Logins, login[l].state = "assessed"
               PROVE  login[l].verdict.age < Ttl + LongestFetch /\ Backed(login[l].verdict)
    BY DEF VerdictFresh, Backed
  <2>1. login[l] \in Assessed
    BY StatesApart DEF IntelInv, IntelTypes
  <2> QED
    BY <2>1 DEF IntelInv
<1> QED
  BY <1>1, <1>2, <1>3, PTL DEF IntelSpec

\* No entry of the cache grows older than its lifetime while it is still read, and no
\* verdict, on its way or told, older than one lifetime and one fetch.
THEOREM EntriesTyped == ASSUME IntelConstants PROVE IntelSpec => []IntelTypeOK
<1> DEFINE Kept == \A x \in Range(Prefix) : cache[x] # Missing => cache[x].stored <= Ttl
<1>1. IntelInit => IntelInv /\ Kept
  <2>1. \A l \in Logins : NoCheck \notin Reading \cup Assessed
    BY StatesApart
  <2>2. Missing \notin CachedEntry
    BY StatesApart
  <2> QED
    BY <2>1, <2>2 DEF IntelInit, IntelInv, IntelTypes
<1>2. IntelInv /\ Kept /\ [IntelNext]_intelVars => Kept'
  <2> SUFFICES ASSUME IntelInv, Kept, [IntelNext]_intelVars  PROVE Kept'
    OBVIOUS
  <2>0. cache \in [Range(Prefix) -> {Missing} \cup CachedEntry] /\ Ttl \in Nat \ {0}
    BY DEF IntelInv, IntelTypes, IntelConstants
  <2>1. ASSUME NEW l \in Logins, Arrives(l) \/ Unavailable(l)  PROVE Kept'
    <3>1. PICK x, v : cache' = [cache EXCEPT ![x] =
                                  [state |-> "cached", verdict |-> v, stored |-> 0]]
      BY <2>1 DEF Arrives, Unavailable, Store
    <3> QED
      BY <2>0, <3>1
  <2>2. CASE IntelTick
    <3> SUFFICES ASSUME NEW x \in Range(Prefix), cache'[x] # Missing
                 PROVE  cache'[x].stored <= Ttl
      OBVIOUS
    <3>1. cache'[x] = IF Fresh(x) THEN [cache[x] EXCEPT !.verdict = Older(@), !.stored = @ + 1]
                      ELSE cache[x]
      BY <2>0, <2>2 DEF IntelTick
    <3>2. CASE Fresh(x)
      <4>1. cache[x] \in CachedEntry /\ cache[x].stored < Ttl
        BY <2>0, <3>2 DEF Fresh
      <4>2. cache'[x].stored = cache[x].stored + 1 /\ cache[x].stored \in Nat
        BY <3>1, <3>2, <4>1 DEF CachedEntry
      <4> QED
        BY <2>0, <4>1, <4>2
    <3>3. CASE ~Fresh(x)
      BY <3>1, <3>3
    <3> QED
      BY <3>2, <3>3
  <2>3. CASE UNCHANGED cache
    BY <2>3
  <2> QED
    BY <2>1, <2>2, <2>3
       DEF IntelNext, intelVars, CheckCached, Ask, ServiceReads, Done, Leak
<1>3. IntelInv /\ Kept => IntelTypeOK
  <2> SUFFICES ASSUME IntelInv, Kept  PROVE IntelTypeOK
    OBVIOUS
  <2>0. Ttl \in Nat \ {0} /\ LongestFetch \in Nat
    BY DEF IntelConstants
  <2>1. cache \in [Range(Prefix) -> {Missing} \cup CachedEntry] /\ leaked \subseteq Passwords
    BY DEF IntelInv, IntelTypes
  <2>2. ASSUME NEW x \in Range(Prefix), cache[x] # Missing
        PROVE  cache[x].stored \in 0 .. Ttl /\ VerdictType(cache[x].verdict)
    <3>1. cache[x] \in CachedEntry /\ cache[x].stored <= Ttl
      BY <2>1, <2>2
    <3>2. cache[x].verdict.age <= cache[x].stored + LongestFetch
      BY <3>1 DEF IntelInv
    <3>3. cache[x].stored \in Nat /\ cache[x].verdict \in AnyVerdict
      BY <3>1 DEF CachedEntry
    <3> QED
      BY <2>0, <3>1, <3>2, <3>3 DEF VerdictType, AnyVerdict
  <2>3. ASSUME NEW l \in Logins, login[l].state \in {"read", "assessed"}
        PROVE  VerdictType(login[l].verdict)
    <3>1. login[l] \in Reading \cup Assessed
      BY <2>3, StatesApart DEF IntelInv, IntelTypes
    <3>2. CASE login[l] \in Reading
      <4>1. login[l].verdict.age <= login[l].waited
        BY <3>2 DEF IntelInv
      <4>2. login[l].waited \in 0 .. LongestFetch /\ login[l].verdict \in AnyVerdict
        BY <3>2 DEF Reading
      <4> QED
        BY <2>0, <4>1, <4>2 DEF VerdictType, AnyVerdict
    <3>3. CASE login[l] \in Assessed
      <4>1. login[l].verdict.age < Ttl + LongestFetch
        BY <3>3 DEF IntelInv
      <4>2. login[l].verdict \in AnyVerdict
        BY <3>3 DEF Assessed
      <4> QED
        BY <2>0, <4>1, <4>2 DEF VerdictType, AnyVerdict
    <3> QED
      BY <3>1, <3>2, <3>3
  <2> QED
    BY <2>1, <2>2, <2>3 DEF IntelTypeOK
<1>4. IntelInv /\ [IntelNext]_intelVars => IntelInv'
  BY IntelStep
<1> HIDE DEF Kept
<1> QED
  BY <1>1, <1>2, <1>3, <1>4, PTL DEF IntelSpec

-------------------------------------------------------------------------------
(* Counting logins *)

StageNames == {"body", "layer1", "layer2", "layer3", "layer4", "handler", "answered", "raised"}
NoRequest == [stage |-> "none"]
Request ==
  [stage : StageNames, path : Paths, client : Origins, user : Accounts \cup {Nobody},
   triggers : SUBSET {"NEW_DEVICE"}, guarded : BOOLEAN, status : {"none", "200", "401", "403"}]

DispatchTypes ==
  /\ request \in [Requests -> {NoRequest} \cup Request]
  /\ limiter \in [Keys -> [checks : Nat, all : Nat, failed : Nat]]
  /\ failures \in [Accounts -> Nat]
  /\ reported \in [EventTypes -> Nat]

\* OutcomesAgree is inductive with the types.
DispatchInv == DispatchTypes /\ OutcomesAgree

DispatchConstants ==
  IsFiniteSet(Requests) /\ Threshold \in Nat /\ Nobody \notin Accounts

\* A request that is counted has not just any record.
LEMMA CountedIsRequest ==
  ASSUME DispatchTypes, NEW r \in Requests, request[r].stage # "none"
  PROVE  request[r] \in Request
  BY DEF DispatchTypes, NoRequest

LEMMA UserIsTier == "user" \in Range(Tiers)
<1>1. 2 \in DOMAIN Tiers /\ Tiers[2] = "user"
  BY DEF Tiers
<1> QED
  BY <1>1 DEF Range

\* A user's key is the one of the requests that name the user.
LEMMA UserKey ==
  ASSUME DispatchConstants, NEW u \in Accounts
  PROVE  /\ <<"user", u>> \in Keys
         /\ \A r \in Requests : <<"user", u>> \in KeysOf(r) <=> request[r].user = u
<1>1. <<"user", u>> \in Keys
  BY DEF Keys
<1>2. ASSUME NEW r \in Requests, request[r].user = u  PROVE <<"user", u>> \in KeysOf(r)
  BY <1>2, UserIsTier DEF KeysOf, Identifier, DispatchConstants
<1>3. ASSUME NEW r \in Requests, <<"user", u>> \in KeysOf(r)  PROVE request[r].user = u
  <2>1. PICK t \in Range(Tiers) : <<"user", u>> = <<t, Identifier(r, t)>>
    BY <1>3 DEF KeysOf
  <2>2. t = "user" /\ Identifier(r, t) = u
    BY <2>1
  <2> QED
    BY <2>2 DEF Identifier
<1> QED
  BY <1>1, <1>2, <1>3

\* The keys of a request do not change on its way.
LEMMA KeysStay ==
  ASSUME NEW r \in Requests,
         request'[r].user = request[r].user, request'[r].client = request[r].client
  PROVE  KeysOf(r)' = KeysOf(r)
  BY DEF KeysOf, Identifier

\* What is counted is a finite set.
LEMMA CountedFinite ==
  ASSUME DispatchConstants, NEW k
  PROVE  /\ IsFiniteSet(AnsweredLogins) /\ IsFiniteSet(AnsweredOf(k))
         /\ IsFiniteSet(RefusedOf(AnsweredOf(k)))
<1>1. AnsweredLogins \subseteq Requests /\ AnsweredOf(k) \subseteq Requests
        /\ RefusedOf(AnsweredOf(k)) \subseteq Requests
  BY DEF AnsweredLogins, AnsweredOf, RefusedOf
<1> QED
  BY <1>1, FS_Subset DEF DispatchConstants

\* A step that answers no login and records nothing leaves the counts in agreement.
LEMMA NothingRecorded ==
  ASSUME DispatchConstants, DispatchInv, DispatchTypes', layers' = layers,
         \A q \in Requests :
           request'[q] = request[q] \/ q \notin AnsweredLogins \cup AnsweredLogins',
         \A k \in Keys : limiter'[k].all = limiter[k].all /\ limiter'[k].failed = limiter[k].failed,
         failures' = failures,
         reported'["LOGIN_SUCCESS"] = reported["LOGIN_SUCCESS"],
         reported'["LOGIN_FAILURE"] = reported["LOGIN_FAILURE"],
         reported'["ACCOUNT_LOCKED"] = reported["ACCOUNT_LOCKED"] \/ \E u \in Accounts : Locked(u)
  PROVE  DispatchInv'
<1>1. AnsweredLogins' = AnsweredLogins
  BY DEF AnsweredLogins, At
<1>2. \A r \in AnsweredLogins : request'[r] = request[r] /\ r \in Requests
  BY DEF AnsweredLogins
<1>3. \A k : AnsweredOf(k)' = AnsweredOf(k)
  BY <1>1, <1>2, KeysStay DEF AnsweredOf
<1>4. \A k : RefusedOf(AnsweredOf(k))' = RefusedOf(AnsweredOf(k))
  BY <1>2, <1>3 DEF RefusedOf, AnsweredOf
<1>5. ASSUME "telemetry" \in layers, NEW u \in Accounts
      PROVE  limiter[<<"user", u>>].failed \in Nat /\ <<"user", u>> \in Keys
                /\ failures[u] <= limiter[<<"user", u>>].failed /\ failures[u] \in Nat
  BY <1>5, UserKey DEF DispatchInv, DispatchTypes, OutcomesAgree
<1>6. ASSUME "telemetry" \in layers, reported'["ACCOUNT_LOCKED"] > 0
      PROVE  \E u \in Accounts : limiter'[<<"user", u>>].failed >= Threshold
  <2>1. CASE reported["ACCOUNT_LOCKED"] > 0
    BY <1>5, <1>6, <2>1 DEF DispatchInv, OutcomesAgree
  <2>2. ASSUME NEW u \in Accounts, Locked(u)
        PROVE  limiter'[<<"user", u>>].failed >= Threshold
    BY <1>5, <1>6, <2>2 DEF Locked, DispatchConstants
  <2> QED
    BY <1>6, <2>1, <2>2
<1>7. OutcomesAgree'
  BY <1>1, <1>3, <1>4, <1>5, <1>6 DEF DispatchInv, OutcomesAgree
<1> QED
  BY <1>7 DEF DispatchInv

\* A request that goes on to another stage before its answer, or is refused, or raises.
LEMMA GoesOn ==
  ASSUME DispatchConstants, DispatchInv, NEW r \in Requests,
         request[r].stage \notin {"none", "answered"},
         NEW next \in Request, next.stage # "answered" \/ next.status = "403",
         request' = [request EXCEPT ![r] = next]
  PROVE  /\ request' \in [Requests -> {NoRequest} \cup Request]
         /\ \A q \in Requests :
              request'[q] = request[q] \/ q \notin AnsweredLogins \cup AnsweredLogins'
<1>1. request' \in [Requests -> {NoRequest} \cup Request]
  BY DEF DispatchInv, DispatchTypes
<1>2. request'[r] = next /\ \A q \in Requests : q # r => request'[q] = request[q]
  BY DEF DispatchInv, DispatchTypes
<1>3. r \notin AnsweredLogins
  BY DEF AnsweredLogins, At
<1>4. r \notin AnsweredLogins'
  BY <1>2 DEF AnsweredLogins, At
<1> QED
  BY <1>1, <1>2, <1>3, <1>4

\* A telemetry event is one more of its type, or none.
LEMMA Reported ==
  ASSUME DispatchTypes, NEW type \in EventTypes, Report(type)
  PROVE  /\ reported' \in [EventTypes -> Nat]
         /\ \A e \in EventTypes : e # type => reported'[e] = reported[e]
         /\ "telemetry" \in layers => reported'[type] = reported[type] + 1
  BY DEF Report, DispatchTypes

\* The recorded answer of a login is counted by all three components.
LEMMA AnswerCounted ==
  ASSUME DispatchConstants, DispatchInv, "telemetry" \in layers, layers' = layers,
         NEW r \in Requests, At(r, "handler"), NEW ok \in BOOLEAN,
         request[r].guarded, IsLogin(request[r].path),
         request'[r] \in Request, At(r, "answered")',
         request'[r].status = IF ok THEN "200" ELSE "401",
         request'[r].user = request[r].user, request'[r].client = request[r].client,
         request'[r].path = request[r].path, request'[r].guarded = request[r].guarded,
         \A q \in Requests \ {r} : request'[q] = request[q],
         DispatchTypes', RecordOutcome(r, ok),
         Report(IF ok THEN "LOGIN_SUCCESS" ELSE "LOGIN_FAILURE")
  PROVE  OutcomesAgree'
<1>1. r \notin AnsweredLogins
  BY DEF AnsweredLogins, At
<1>2. AnsweredLogins' = AnsweredLogins \cup {r}
  BY DEF AnsweredLogins, At
<1>3. \A q \in Requests : KeysOf(q)' = KeysOf(q)
  BY KeysStay
<1>4. ASSUME NEW k \in Keys
      PROVE  /\ limiter'[k].all = Cardinality(AnsweredOf(k)')
             /\ limiter'[k].failed = Cardinality(RefusedOf(AnsweredOf(k))')
  <2>1. /\ limiter[k].all = Cardinality(AnsweredOf(k))
        /\ limiter[k].failed = Cardinality(RefusedOf(AnsweredOf(k)))
        /\ limiter[k].all \in Nat /\ limiter[k].failed \in Nat
    BY DEF DispatchInv, OutcomesAgree, DispatchTypes
  <2>2. IsFiniteSet(AnsweredOf(k)) /\ IsFiniteSet(RefusedOf(AnsweredOf(k)))
    BY CountedFinite
  <2>3. r \notin AnsweredOf(k) /\ r \notin RefusedOf(AnsweredOf(k))
    BY <1>1 DEF AnsweredOf, RefusedOf
  <2>4. CASE k \in KeysOf(r)
    <3>1. AnsweredOf(k)' = AnsweredOf(k) \cup {r}
      BY <1>2, <1>3, <2>4 DEF AnsweredOf, AnsweredLogins
    <3>2. RefusedOf(AnsweredOf(k))' =
            IF ok THEN RefusedOf(AnsweredOf(k)) ELSE RefusedOf(AnsweredOf(k)) \cup {r}
      BY <1>1, <3>1 DEF RefusedOf, AnsweredOf, AnsweredLogins
    <3>3. /\ limiter'[k].all = limiter[k].all + 1
          /\ limiter'[k].failed = limiter[k].failed + (IF ok THEN 0 ELSE 1)
      BY <2>4 DEF RecordOutcome, DispatchInv, DispatchTypes
    <3>4. /\ Cardinality(AnsweredOf(k) \cup {r}) = Cardinality(AnsweredOf(k)) + 1
          /\ Cardinality(RefusedOf(AnsweredOf(k)) \cup {r})
               = Cardinality(RefusedOf(AnsweredOf(k))) + 1
      BY <2>2, <2>3, FS_AddElement
    <3> QED
      BY <2>1, <3>1, <3>2, <3>3, <3>4
  <2>5. CASE k \notin KeysOf(r)
    <3>1. AnsweredOf(k)' = AnsweredOf(k)
      BY <1>2, <1>3, <2>5 DEF AnsweredOf, AnsweredLogins
    <3>2. RefusedOf(AnsweredOf(k))' = RefusedOf(AnsweredOf(k))
      BY <1>1, <3>1 DEF RefusedOf, AnsweredOf, AnsweredLogins
    <3>3. limiter'[k] = limiter[k]
      BY <2>5 DEF RecordOutcome, DispatchInv, DispatchTypes
    <3> QED
      BY <2>1, <3>1, <3>2, <3>3
  <2> QED
    BY <2>4, <2>5
<1>5. ASSUME NEW u \in Accounts
      PROVE  /\ failures'[u] <= limiter'[<<"user", u>>].failed
             /\ limiter'[<<"user", u>>].failed >= limiter[<<"user", u>>].failed
  <2> DEFINE k == <<"user", u>>
  <2>1. k \in Keys /\ (k \in KeysOf(r) <=> request[r].user = u)
    BY UserKey
  <2>2. /\ failures[u] <= limiter[k].failed /\ failures[u] \in Nat
        /\ limiter[k] \in [checks : Nat, all : Nat, failed : Nat]
    BY <2>1 DEF DispatchInv, OutcomesAgree, DispatchTypes
  <2> HIDE DEF k
  <2>3. CASE request[r].user = u
    <3>1. limiter'[k].failed = limiter[k].failed + (IF ok THEN 0 ELSE 1)
      BY <2>1, <2>2, <2>3 DEF RecordOutcome, DispatchInv, DispatchTypes
    <3>2. failures'[u] = IF ok THEN 0 ELSE failures[u] + 1
      BY <2>3 DEF RecordOutcome, Known, DispatchConstants, DispatchInv, DispatchTypes
    <3> QED
      BY <2>2, <3>1, <3>2 DEF k
  <2>4. CASE request[r].user # u
    <3>1. limiter'[k] = limiter[k]
      BY <2>1, <2>4 DEF RecordOutcome, DispatchInv, DispatchTypes
    <3>2. failures'[u] = failures[u]
      BY <2>4 DEF RecordOutcome, DispatchInv, DispatchTypes
    <3> QED
      BY <2>2, <3>1, <3>2 DEF k
  <2> QED
    BY <2>3, <2>4
<1>6. /\ reported'["LOGIN_SUCCESS"] + reported'["LOGIN_FAILURE"] = Cardinality(AnsweredLogins')
      /\ reported'["ACCOUNT_LOCKED"] = reported["ACCOUNT_LOCKED"]
  <2>1. Cardinality(AnsweredLogins \cup {r}) = Cardinality(AnsweredLogins) + 1
    BY <1>1, CountedFinite, FS_AddElement
  <2>2. /\ reported["LOGIN_SUCCESS"] \in Nat /\ reported["LOGIN_FAILURE"] \in Nat
        /\ reported["LOGIN_SUCCESS"] + reported["LOGIN_FAILURE"] = Cardinality(AnsweredLogins)
    BY DEF DispatchInv, OutcomesAgree, DispatchTypes, EventTypes
  <2>3. reported' = [reported EXCEPT ![IF ok THEN "LOGIN_SUCCESS" ELSE "LOGIN_FAILURE"] = @ + 1]
    BY DEF Report
  <2> QED
    BY <1>2, <2>1, <2>2, <2>3 DEF DispatchInv, DispatchTypes, EventTypes
<1>7. reported'["ACCOUNT_LOCKED"] > 0 =>
        \E u \in Accounts : limiter'[<<"user", u>>].failed >= Threshold
  <2> SUFFICES ASSUME reported'["ACCOUNT_LOCKED"] > 0
               PROVE  \E u \in Accounts : limiter'[<<"user", u>>].failed >= Threshold
    OBVIOUS
  <2>1. PICK u \in Accounts : limiter[<<"user", u>>].failed >= Threshold
    BY <1>6 DEF DispatchInv, OutcomesAgree
  <2>2. /\ limiter[<<"user", u>>].failed \in Nat /\ limiter'[<<"user", u>>].failed \in Nat
    BY UserKey DEF DispatchInv, DispatchTypes
  <2> QED
    BY <1>5, <2>1, <2>2 DEF DispatchConstants
<1> QED
  BY <1>4, <1>5, <1>6, <1>7 DEF OutcomesAgree

\* Every step keeps the invariant.
LEMMA DispatchStep ==
  ASSUME DispatchConstants, DispatchInv, [DispatchNext]_dispatchVars
  PROVE  DispatchInv'
<1> USE DEF At, Stage
<1>a. ASSUME NEW r \in Requests, request[r].stage # "none"
      PROVE  request[r] \in Request
  BY <1>a, CountedIsRequest DEF DispatchInv
<1>1. ASSUME NEW r \in Requests, NEW path \in Paths, NEW client \in Origins,
             Arrive(r, path, client)
      PROVE  DispatchInv'
  <2> DEFINE next == [stage |-> IF IsProtected(path) THEN "body" ELSE "handler",
                      path |-> path, client |-> client, user |-> Nobody, triggers |-> {},
                      guarded |-> IsProtected(path), status |-> "none"]
  <2>1. IsProtected(path) \in BOOLEAN
    BY DEF IsProtected, StartsWithAny
  <2>2. next \in Request /\ next.stage # "answered"
    BY <2>1 DEF Request, StageNames
  <2>3. request' = [request EXCEPT ![r] = next] /\ request[r].stage = "none"
          /\ UNCHANGED <<layers, limiter, failures, reported>>
    BY <1>1 DEF Arrive
  <2> HIDE DEF next
  <2>4. request' \in [Requests -> {NoRequest} \cup Request]
    BY <2>2, <2>3 DEF DispatchInv, DispatchTypes
  <2>5. \A q \in Requests :
          request'[q] = request[q] \/ q \notin AnsweredLogins \cup AnsweredLogins'
    BY <2>2, <2>3 DEF DispatchInv, DispatchTypes, AnsweredLogins
  <2>6. DispatchTypes'
    BY <2>3, <2>4 DEF DispatchInv, DispatchTypes, Keys
  <2> QED
    BY <2>3, <2>5, <2>6, NothingRecorded
<1>2. ASSUME NEW r \in Requests, NEW next \in Request,
             request[r].stage \notin {"none", "answered"},
             next.stage # "answered" \/ next.status = "403",
             request' = [request EXCEPT ![r] = next], layers' = layers,
             limiter' \in [Keys -> [checks : Nat, all : Nat, failed : Nat]],
             \A k \in Keys :
               limiter'[k].all = limiter[k].all /\ limiter'[k].failed = limiter[k].failed,
             failures' = failures, reported' \in [EventTypes -> Nat],
             reported'["LOGIN_SUCCESS"] = reported["LOGIN_SUCCESS"],
             reported'["LOGIN_FAILURE"] = reported["LOGIN_FAILURE"],
             \/ reported'["ACCOUNT_LOCKED"] = reported["ACCOUNT_LOCKED"]
             \/ \E u \in Accounts : Locked(u)
      PROVE  DispatchInv'
  <2>1. /\ request' \in [Requests -> {NoRequest} \cup Request]
        /\ \A q \in Requests :
             request'[q] = request[q] \/ q \notin AnsweredLogins \cup AnsweredLogins'
    BY <1>2, GoesOn
  <2>2. DispatchTypes'
    BY <1>2, <2>1 DEF DispatchInv, DispatchTypes, Keys
  <2> QED
    BY <1>2, <2>1, <2>2, NothingRecorded
<1>3. ASSUME NEW r \in Requests, NEW stage \in StageNames \ {"answered"},
             request[r].stage \notin {"none", "answered"},
             request' = [request EXCEPT ![r].stage = stage],
             UNCHANGED <<layers, limiter, failures, reported>>
      PROVE  DispatchInv'
  <2> DEFINE next == [request[r] EXCEPT !.stage = stage]
  <2>1. next \in Request /\ next.stage = stage
    BY <1>3, <1>a DEF Request
  <2>2. request' = [request EXCEPT ![r] = next]
    BY <1>3
  <2> HIDE DEF next
  <2>3. limiter \in [Keys -> [checks : Nat, all : Nat, failed : Nat]]
          /\ reported \in [EventTypes -> Nat]
    BY DEF DispatchInv, DispatchTypes
  <2> QED
    BY <1>2, <1>3, <2>1, <2>2, <2>3
<1>4. ASSUME NEW r \in Requests, NEW u \in Accounts \cup {Nobody}, ReadBody(r, u)
      PROVE  DispatchInv'
  <2> DEFINE next == [request[r] EXCEPT !.stage = "layer1", !.user = u]
  <2>1. next \in Request /\ next.stage = "layer1"
    BY <1>4, <1>a DEF Request, ReadBody, StageNames
  <2>2. request' = [request EXCEPT ![r] = next] /\ request[r].stage = "body"
          /\ UNCHANGED <<layers, limiter, failures, reported>>
    BY <1>4 DEF ReadBody
  <2> HIDE DEF next
  <2>3. limiter \in [Keys -> [checks : Nat, all : Nat, failed : Nat]]
          /\ reported \in [EventTypes -> Nat]
    BY DEF DispatchInv, DispatchTypes
  <2> QED
    BY <1>2, <2>1, <2>2, <2>3
<1>5. ASSUME NEW r \in Requests, NEW refusing, RateLimiting(r, refusing)
      PROVE  DispatchInv'
  <2> DEFINE next == [request[r] EXCEPT !.stage = "raised"]
  <2>1. next \in Request /\ next.stage = "raised"
    BY <1>5, <1>a DEF Request, RateLimiting, StageNames
  <2>2. request' = [request EXCEPT ![r] = next] /\ request[r].stage = "layer1"
          /\ UNCHANGED <<layers, failures, reported>>
    BY <1>5 DEF RateLimiting
  <2> HIDE DEF next
  <2>3. limiter \in [Keys -> [checks : Nat, all : Nat, failed : Nat]]
          /\ reported \in [EventTypes -> Nat]
    BY DEF DispatchInv, DispatchTypes
  <2>4. /\ limiter' \in [Keys -> [checks : Nat, all : Nat, failed : Nat]]
        /\ \A k \in Keys :
             limiter'[k].all = limiter[k].all /\ limiter'[k].failed = limiter[k].failed
    BY <1>5, <2>3 DEF RateLimiting
  <2> QED
    BY <1>2, <2>1, <2>2, <2>3, <2>4
<1>6. ASSUME NEW r \in Requests, NoRateLimiting(r)  PROVE DispatchInv'
  BY <1>3, <1>6 DEF NoRateLimiting, StageNames
<1>7. ASSUME NEW r \in Requests, BotCheck(r)  PROVE DispatchInv'
  BY <1>3, <1>7 DEF BotCheck, StageNames
<1>8. ASSUME NEW r \in Requests, HandlerRaises(r)  PROVE DispatchInv'
  BY <1>3, <1>8 DEF HandlerRaises, StageNames
<1>9. ASSUME NEW r \in Requests, NEW found \in SUBSET {"NEW_DEVICE"}, NEW high \in BOOLEAN,
             CredentialCheck(r, found, high)
      PROVE  DispatchInv'
  <2> DEFINE next == [request[r] EXCEPT !.stage = "layer4", !.triggers = found]
  <2>1. next \in Request /\ next.stage = "layer4"
    <3>1. request[r].stage = "layer3"
      BY <1>9 DEF CredentialCheck
    <3>2. request[r] \in Request
      BY <3>1, <1>a
    <3> QED
      BY <3>2 DEF Request, StageNames
  <2>2. request' = [request EXCEPT ![r] = next] /\ request[r].stage = "layer3"
          /\ UNCHANGED <<layers, limiter, failures>>
    BY <1>9 DEF CredentialCheck
  <2> HIDE DEF next
  <2>3. limiter \in [Keys -> [checks : Nat, all : Nat, failed : Nat]]
          /\ reported \in [EventTypes -> Nat]
    BY DEF DispatchInv, DispatchTypes
  <2>4. /\ reported' \in [EventTypes -> Nat]
        /\ \A e \in EventTypes : e # "CREDENTIAL_STUFFING" => reported'[e] = reported[e]
    BY <1>9, <2>3, Reported DEF CredentialCheck, DispatchInv, EventTypes
  <2> QED
    BY <1>2, <2>1, <2>2, <2>3, <2>4 DEF EventTypes
<1>10. ASSUME NEW r \in Requests, RefuseLocked(r)  PROVE DispatchInv'
  <2> DEFINE next == [request[r] EXCEPT !.stage = "answered", !.status = "403"]
  <2>1. next \in Request /\ next.status = "403"
    BY <1>10, <1>a DEF Request, RefuseLocked, StageNames
  <2>2. request' = [request EXCEPT ![r] = next] /\ request[r].stage = "layer4"
          /\ UNCHANGED <<layers, limiter, failures>>
    BY <1>10 DEF RefuseLocked
  <2>3. \E u \in Accounts : Locked(u)
    BY <1>10, <1>a DEF RefuseLocked, Refusing, Known, Request
  <2> HIDE DEF next
  <2>4. limiter \in [Keys -> [checks : Nat, all : Nat, failed : Nat]]
    BY DEF DispatchInv, DispatchTypes
  <2>5. /\ reported' \in [EventTypes -> Nat]
        /\ \A e \in EventTypes : e # "ACCOUNT_LOCKED" => reported'[e] = reported[e]
    BY <1>10, Reported DEF RefuseLocked, DispatchInv, EventTypes
  <2> QED
    BY <1>2, <2>1, <2>2, <2>3, <2>4, <2>5 DEF EventTypes
<1>11. ASSUME NEW r \in Requests, Admit(r)  PROVE DispatchInv'
  <2> DEFINE next == [request[r] EXCEPT !.stage = "handler"]
  <2>1. next \in Request /\ next.stage = "handler"
    BY <1>11, <1>a DEF Request, Admit, StageNames
  <2>2. request' = [request EXCEPT ![r] = next] /\ request[r].stage = "layer4"
          /\ UNCHANGED <<layers, limiter, failures>>
    BY <1>11 DEF Admit
  <2> HIDE DEF next
  <2>3. limiter \in [Keys -> [checks : Nat, all : Nat, failed : Nat]]
          /\ reported \in [EventTypes -> Nat]
    BY DEF DispatchInv, DispatchTypes
  <2>4. /\ reported' \in [EventTypes -> Nat]
        /\ \A e \in EventTypes : e # "STEP_UP_REQUIRED" => reported'[e] = reported[e]
    BY <1>11, <2>3, Reported DEF Admit, DispatchInv, EventTypes
  <2> QED
    BY <1>2, <2>1, <2>2, <2>3, <2>4 DEF EventTypes
<1>12. ASSUME NEW r \in Requests, NEW ok \in BOOLEAN, Handled(r, ok)  PROVE DispatchInv'
  <2> DEFINE next == [request[r] EXCEPT !.stage = "answered",
                                        !.status = IF ok THEN "200" ELSE "401"]
  <2>1. request[r].stage = "handler" /\ request[r] \in Request
    BY <1>12, <1>a DEF Handled
  <2>2. /\ next \in Request /\ next.stage = "answered"
        /\ next.status = (IF ok THEN "200" ELSE "401")
        /\ next.user = request[r].user /\ next.client = request[r].client
        /\ next.path = request[r].path /\ next.guarded = request[r].guarded
    BY <2>1 DEF Request, StageNames
  <2>3. request' = [request EXCEPT ![r] = next] /\ layers' = layers
    BY <1>12 DEF Handled, AnswerLogin
  <2> HIDE DEF next
  <2>4. /\ request' \in [Requests -> {NoRequest} \cup Request]
        /\ request'[r] = next /\ \A q \in Requests \ {r} : request'[q] = request[q]
    BY <2>2, <2>3 DEF DispatchInv, DispatchTypes
  <2>5. CASE Recorded(r)
    <3>1. /\ RecordOutcome(r, ok) /\ Report(IF ok THEN "LOGIN_SUCCESS" ELSE "LOGIN_FAILURE")
          /\ request[r].guarded /\ IsLogin(request[r].path) /\ "telemetry" \in layers
      BY <1>12, <2>5 DEF Handled, Recorded
    <3>2. limiter' \in [Keys -> [checks : Nat, all : Nat, failed : Nat]]
      <4> DEFINE more == IF ok THEN 0 ELSE 1
      <4>1. more \in Nat
        OBVIOUS
      <4>2. limiter' = [k \in Keys |->
                          IF k \in KeysOf(r)
                          THEN [limiter[k] EXCEPT !.all = @ + 1, !.failed = @ + more]
                          ELSE limiter[k]]
        BY <3>1 DEF RecordOutcome
      <4> HIDE DEF more
      <4>3. ASSUME NEW x \in [checks : Nat, all : Nat, failed : Nat]
            PROVE  [x EXCEPT !.all = @ + 1, !.failed = @ + more]
                     \in [checks : Nat, all : Nat, failed : Nat]
        <5> DEFINE all == x.all + 1
                   failed == x.failed + more
        <5>1. all \in Nat /\ failed \in Nat
          BY <4>1
        <5> HIDE DEF all, failed
        <5>2. [x EXCEPT !.all = all, !.failed = failed] \in [checks : Nat, all : Nat, failed : Nat]
          BY <5>1
        <5> QED
          BY <5>2 DEF all, failed
      <4> QED
        BY <4>2, <4>3 DEF DispatchInv, DispatchTypes
    <3>3. failures' \in [Accounts -> Nat]
      <4> DEFINE count(n) == IF ok THEN 0 ELSE n + 1
      <4>1. failures' = IF Known(r)
                        THEN [failures EXCEPT ![request[r].user] = count(@)] ELSE failures
        BY <3>1 DEF RecordOutcome
      <4>2. \A n \in Nat : count(n) \in Nat
        OBVIOUS
      <4> HIDE DEF count
      <4> QED
        BY <4>1, <4>2 DEF DispatchInv, DispatchTypes
    <3>4. reported' \in [EventTypes -> Nat]
      BY <3>1, Reported DEF DispatchInv, EventTypes
    <3>5. DispatchTypes'
      BY <2>4, <3>2, <3>3, <3>4 DEF DispatchTypes, Keys
    <3>6. OutcomesAgree'
      BY <2>1, <2>2, <2>3, <2>4, <3>1, <3>5, AnswerCounted
    <3> QED
      BY <3>5, <3>6 DEF DispatchInv
  <2>6. CASE ~Recorded(r)
    <3>1. UNCHANGED <<limiter, failures, reported>>
      BY <1>12, <2>6 DEF Handled
    <3>2. DispatchTypes'
      BY <2>4, <3>1 DEF DispatchInv, DispatchTypes, Keys
    <3>3. CASE "telemetry" \notin layers
      BY <2>3, <3>2, <3>3 DEF DispatchInv, OutcomesAgree
    <3>4. CASE "telemetry" \in layers
      <4>1. r \notin AnsweredLogins'
        BY <2>2, <2>4, <2>6, <3>4 DEF AnsweredLogins, Recorded
      <4>2. r \notin AnsweredLogins
        BY <2>1 DEF AnsweredLogins
      <4> QED
        BY <2>3, <2>4, <3>1, <3>2, <4>1, <4>2, NothingRecorded
    <3> QED
      BY <3>3, <3>4
  <2> QED
    BY <2>5, <2>6
<1>13. CASE UNCHANGED dispatchVars
  <2>1. UNCHANGED <<request, layers, limiter, failures, reported>>
    BY <1>13 DEF dispatchVars
  <2>2. DispatchTypes'
    BY <2>1 DEF DispatchInv, DispatchTypes, Keys
  <2> QED
    BY <2>1, <2>2, NothingRecorded
<1> QED
  BY <1>1, <1>4, <1>5, <1>6, <1>7, <1>8, <1>9, <1>10, <1>11, <1>12, <1>13 DEF DispatchNext

\* Before the first request every count is 0.
LEMMA DispatchStarts == ASSUME DispatchConstants PROVE DispatchInit => DispatchInv
<1> SUFFICES ASSUME DispatchInit  PROVE DispatchInv
  OBVIOUS
<1>1. DispatchTypes
  BY DEF DispatchInit, DispatchTypes, NoRequest
<1>2. AnsweredLogins = {}
  BY DEF DispatchInit, AnsweredLogins, At
<1>3. \A k : AnsweredOf(k) = {} /\ RefusedOf(AnsweredOf(k)) = {}
  BY <1>2 DEF AnsweredOf, RefusedOf
<1>4. Cardinality({}) = 0
  BY FS_EmptySet
<1>5. \A u \in Accounts : limiter[<<"user", u>>].failed = 0
  BY UserKey DEF DispatchInit
<1>6. \A k \in Keys : /\ limiter[k].all = Cardinality(AnsweredOf(k))
                     /\ limiter[k].failed = Cardinality(RefusedOf(AnsweredOf(k)))
  <2> SUFFICES ASSUME NEW k \in Keys
               PROVE  /\ limiter[k].all = Cardinality(AnsweredOf(k))
                      /\ limiter[k].failed = Cardinality(RefusedOf(AnsweredOf(k)))
    OBVIOUS
  <2>1. limiter[k].all = 0 /\ limiter[k].failed = 0
    BY DEF DispatchInit
  <2>2. AnsweredOf(k) = {} /\ RefusedOf(AnsweredOf(k)) = {}
    BY <1>3
  <2>3. Cardinality(AnsweredOf(k)) = 0 /\ Cardinality(RefusedOf(AnsweredOf(k))) = 0
    <3>1. Cardinality(AnsweredOf(k)) = 0
      BY <2>2, FS_EmptySet, Zenon
    <3>2. Cardinality(RefusedOf(AnsweredOf(k))) = 0
      BY <2>2, FS_EmptySet, Zenon
    <3> QED
      BY <3>1, <3>2
  <2> QED
    BY <2>1, <2>3
<1>7. \A u \in Accounts : failures[u] <= limiter[<<"user", u>>].failed
  <2> SUFFICES ASSUME NEW u \in Accounts
               PROVE  failures[u] <= limiter[<<"user", u>>].failed
    OBVIOUS
  <2> DEFINE below == failures[u]
             above == limiter[<<"user", u>>].failed
  <2>1. below = 0 /\ above = 0
    BY <1>5 DEF DispatchInit
  <2> HIDE DEF below, above
  <2>2. below <= above
    BY <2>1
  <2> QED
    BY <2>2 DEF below, above
<1>8. /\ reported["LOGIN_SUCCESS"] = 0 /\ reported["LOGIN_FAILURE"] = 0
      /\ reported["ACCOUNT_LOCKED"] = 0
  BY DEF DispatchInit, EventTypes
<1>9. reported["LOGIN_SUCCESS"] + reported["LOGIN_FAILURE"] = Cardinality(AnsweredLogins)
  BY <1>2, <1>4, <1>8
<1>10. ~(reported["ACCOUNT_LOCKED"] > 0)
  BY <1>8
<1>11. OutcomesAgree
  BY <1>6, <1>7, <1>9, <1>10 DEF OutcomesAgree
<1> QED
  BY <1>1, <1>11 DEF DispatchInv

\* However requests overlap in the layers and handlers, the limiter, the lockout and the
\* audit events tell one story of the logins that were answered.
THEOREM CountsAgree == ASSUME DispatchConstants PROVE DispatchSpec => []OutcomesAgree
<1>1. DispatchInit => DispatchInv
  BY DispatchStarts
<1>2. DispatchInv /\ [DispatchNext]_dispatchVars => DispatchInv'
  BY DispatchStep
<1>3. DispatchInv => OutcomesAgree
  BY DEF DispatchInv
<1> QED
  BY <1>1, <1>2, <1>3, PTL DEF DispatchSpec

\* Stages, counters and the number of times the components are started: at startup, and by
\* the first request if there is telemetry (dispatch, initialize).
THEOREM DispatchTyped == ASSUME DispatchConstants PROVE DispatchSpec => []DispatchTypeOK
<1> DEFINE Started == /\ layers \in Configurations /\ initialized \in BOOLEAN
                      /\ starts \in 1 .. 2 /\ (~initialized => starts = 1)
<1>1. DispatchInit => Started
  <2> SUFFICES ASSUME DispatchInit  PROVE Started
    OBVIOUS
  <2>1. layers \in Configurations /\ initialized = FALSE /\ starts = 1
    BY DEF DispatchInit
  <2>2. starts \in 1 .. 2
    BY <2>1
  <2> QED
    BY <2>1, <2>2
<1>2. Started /\ [DispatchNext]_dispatchVars => Started'
  <2> SUFFICES ASSUME Started, [DispatchNext]_dispatchVars  PROVE Started'
    OBVIOUS
  <2>1. ASSUME NEW r \in Requests, NEW path \in Paths, NEW client \in Origins,
               Arrive(r, path, client)
        PROVE  Started'
    BY <2>1 DEF Arrive
  <2>2. CASE UNCHANGED <<layers, initialized, starts>>
    BY <2>2
  <2> QED
    BY <2>1, <2>2
       DEF DispatchNext, dispatchVars, ReadBody, RateLimiting, NoRateLimiting, BotCheck,
           CredentialCheck, RefuseLocked, Admit, Handled, HandlerRaises
<1>3. DispatchInv /\ Started => DispatchTypeOK
  <2> SUFFICES ASSUME DispatchInv, Started  PROVE DispatchTypeOK
    OBVIOUS
  <2>1. \A r \in Requests :
          request[r].stage \in {"none", "body", "layer1", "layer2", "layer3", "layer4",
                               "handler", "answered", "raised"}
    BY DEF DispatchInv, DispatchTypes, NoRequest, Request, StageNames
  <2> QED
    BY <2>1 DEF DispatchInv, DispatchTypes, DispatchTypeOK
<1>4. DispatchInit => DispatchInv
  BY DispatchStarts
<1>5. DispatchInv /\ [DispatchNext]_dispatchVars => DispatchInv'
  BY DispatchStep
<1> HIDE DEF Started
<1> QED
  BY <1>1, <1>2, <1>3, <1>4, <1>5, PTL DEF DispatchSpec

-------------------------------------------------------------------------------
(* Which requests the layers see *)

\* What a step does to one request: it arrives, behind the layers if its path is protected
\* and at its handler if not, or it goes on, and its path and guard stay.
LEMMA GoesItsWay ==
  ASSUME DispatchTypes, [DispatchNext]_dispatchVars, NEW r \in Requests
  PROVE  \/ request'[r] = request[r]
         \/ /\ request[r].stage = "none" /\ request'[r].path \in Paths
            /\ request'[r].guarded = IsProtected(request'[r].path)
            /\ request'[r].stage = IF IsProtected(request'[r].path) THEN "body" ELSE "handler"
         \/ /\ request[r].stage \notin {"none", "answered", "raised"}
            /\ request'[r].path = request[r].path /\ request'[r].guarded = request[r].guarded
            /\ request'[r].stage # "none"
            /\ request[r].stage = "handler" => request'[r].stage \in {"answered", "raised"}
<1> USE DEF At, Stage
<1>0. ASSUME request[r].stage # "none"  PROVE request[r] \in Request
  BY <1>0, CountedIsRequest
<1>1. ASSUME NEW path \in Paths, NEW client, Arrive(r, path, client)
      PROVE  /\ request[r].stage = "none" /\ request'[r].path \in Paths
             /\ request'[r].guarded = IsProtected(request'[r].path)
             /\ request'[r].stage = IF IsProtected(request'[r].path) THEN "body" ELSE "handler"
  BY <1>1 DEF Arrive, DispatchTypes
<1>2. ASSUME NEW u, NEW refusing, NEW found, NEW high, NEW ok,
             \/ ReadBody(r, u) \/ RateLimiting(r, refusing) \/ NoRateLimiting(r) \/ BotCheck(r)
             \/ CredentialCheck(r, found, high) \/ RefuseLocked(r) \/ Admit(r)
             \/ Handled(r, ok) \/ HandlerRaises(r)
      PROVE  /\ request[r].stage \notin {"none", "answered", "raised"}
             /\ request'[r].path = request[r].path /\ request'[r].guarded = request[r].guarded
             /\ request'[r].stage # "none"
             /\ request[r].stage = "handler" => request'[r].stage \in {"answered", "raised"}
  <2>1. request[r].stage \notin {"none", "answered", "raised"}
    BY <1>2 DEF ReadBody, RateLimiting, NoRateLimiting, BotCheck, CredentialCheck, RefuseLocked,
                Admit, Handled, HandlerRaises
  <2>2. request[r] \in Request
    BY <1>0, <2>1
  <2>3. CASE ReadBody(r, u)
    BY <2>2, <2>3 DEF ReadBody, DispatchTypes, Request
  <2>4. CASE RateLimiting(r, refusing) \/ NoRateLimiting(r) \/ BotCheck(r) \/ Admit(r)
    BY <2>2, <2>4 DEF RateLimiting, NoRateLimiting, BotCheck, Admit, DispatchTypes, Request
  <2>5. CASE CredentialCheck(r, found, high)
    BY <2>2, <2>5 DEF CredentialCheck, DispatchTypes, Request
  <2>6. CASE RefuseLocked(r)
    BY <2>2, <2>6 DEF RefuseLocked, DispatchTypes, Request
  <2>7. CASE Handled(r, ok)
    BY <2>2, <2>7 DEF Handled, AnswerLogin, DispatchTypes, Request
  <2>8. CASE HandlerRaises(r)
    BY <2>2, <2>8 DEF HandlerRaises, DispatchTypes, Request
  <2> QED
    BY <1>2, <2>3, <2>4, <2>5, <2>6, <2>7, <2>8
<1>3. ASSUME NEW q \in Requests \ {r}, NEW path, NEW client, NEW u, NEW refusing, NEW found,
             NEW high, NEW ok,
             \/ Arrive(q, path, client)
             \/ ReadBody(q, u) \/ RateLimiting(q, refusing) \/ NoRateLimiting(q) \/ BotCheck(q)
             \/ CredentialCheck(q, found, high) \/ RefuseLocked(q) \/ Admit(q)
             \/ Handled(q, ok) \/ HandlerRaises(q)
      PROVE  request'[r] = request[r]
  <2>1. PICK x : request' = [request EXCEPT ![q] = x]
    BY <1>3 DEF Arrive, ReadBody, RateLimiting, NoRateLimiting, BotCheck, CredentialCheck,
                RefuseLocked, Admit, Handled, AnswerLogin, HandlerRaises
  <2> QED
    BY <1>3, <2>1 DEF DispatchTypes
<1>4. CASE UNCHANGED dispatchVars
  BY <1>4 DEF dispatchVars
<1> QED
  BY <1>1, <1>2, <1>3, <1>4, Zenon DEF DispatchNext

\* A protected route is guarded if it starts with none of the excluded paths: the layers
\* are left out for no other reason, and no request comes round them (dispatch).
THEOREM GuardedUnlessExcluded ==
  ASSUME DispatchConstants,
         \A path \in Paths :
           StartsWithAny(path, ProtectedRoutes) => ~StartsWithAny(path, ExcludedPaths)
  PROVE  DispatchSpec => []ProtectedAreGuarded
<1> DEFINE Placed(r) == request[r].stage # "none" =>
                          /\ request[r].path \in Paths
                          /\ request[r].guarded = IsProtected(request[r].path)
           AllPlaced == \A r \in Requests : Placed(r)
<1>1. DispatchInit => DispatchInv
  BY DispatchStarts
<1>2. DispatchInit => AllPlaced
  BY DEF DispatchInit
<1>3. ASSUME DispatchInv, AllPlaced, [DispatchNext]_dispatchVars
      PROVE  DispatchInv' /\ AllPlaced'
  <2>1. DispatchInv'
    BY <1>3, DispatchStep
  <2>2. ASSUME NEW r \in Requests  PROVE Placed(r)'
    BY <1>3, <2>2, GoesItsWay DEF DispatchInv
  <2> QED
    BY <2>1, <2>2
<1>4. AllPlaced => ProtectedAreGuarded
  BY DEF ProtectedAreGuarded, At, IsProtected
<1> HIDE DEF AllPlaced
<1> QED
  BY <1>1, <1>2, <1>3, <1>4, PTL DEF DispatchSpec

\* "/" is a prefix of every path.
LEMMA RootPrecedes == \A path \in Seq(STRING) : IsPrefix(<<>>, path)
  BY DEF IsPrefix

\* Nothing is guarded, counted or reported: no request is behind the layers, the limiters
\* and the lockout have seen nobody, and no event was created.
Unwatched ==
  /\ \A r \in Requests :
       /\ request[r].stage \in {"none", "handler", "answered", "raised"}
       /\ request[r].stage # "none" => ~request[r].guarded
  /\ limiter = [k \in Keys |-> [checks |-> 0, all |-> 0, failed |-> 0]]
  /\ failures = [u \in Accounts |-> 0]
  /\ reported = [e \in EventTypes |-> 0]

\* With "/" among the excluded paths, as in the code's default, the middleware's four
\* layers are passed by, for every list of protected routes and every set of enable_ flags
\* (_is_protected_route).
THEOREM RootExcludesAll ==
  ASSUME DispatchConstants, <<>> \in ExcludedPaths, Paths \subseteq Seq(STRING)
  PROVE  DispatchSpec => []Unwatched
<1>0. \A path \in Paths : ~IsProtected(path)
  BY RootPrecedes DEF IsProtected, StartsWithAny
<1>1. DispatchInit => DispatchInv
  BY DispatchStarts
<1>2. DispatchInit => Unwatched
  BY DEF DispatchInit, Unwatched
<1>3. ASSUME DispatchInv, Unwatched, [DispatchNext]_dispatchVars
      PROVE  DispatchInv' /\ Unwatched'
  <2>1. DispatchInv'
    BY <1>3, DispatchStep
  <2>2. ASSUME NEW r \in Requests
        PROVE  /\ request'[r].stage \in {"none", "handler", "answered", "raised"}
               /\ request'[r].stage # "none" => ~request'[r].guarded
    BY <1>0, <1>3, <2>2, GoesItsWay DEF DispatchInv, Unwatched
  <2>3. UNCHANGED <<limiter, failures, reported>>
    <3>1. ASSUME NEW r \in Requests, NEW path, NEW client, NEW u, NEW refusing, NEW found,
                 NEW high, NEW ok,
                 \/ Arrive(r, path, client)
                 \/ ReadBody(r, u) \/ RateLimiting(r, refusing) \/ NoRateLimiting(r) \/ BotCheck(r)
                 \/ CredentialCheck(r, found, high) \/ RefuseLocked(r) \/ Admit(r)
                 \/ Handled(r, ok) \/ HandlerRaises(r)
          PROVE  UNCHANGED <<limiter, failures, reported>>
      <4>1. /\ request[r].stage \in {"none", "handler", "answered", "raised"}
            /\ request[r].stage = "handler" => ~request[r].guarded
        BY <1>3 DEF Unwatched
      <4> QED
        BY <3>1, <4>1
           DEF At, Arrive, ReadBody, RateLimiting, NoRateLimiting, BotCheck, CredentialCheck,
               RefuseLocked, Admit, Handled, HandlerRaises, Recorded
    <3> QED
      BY <1>3, <3>1, Zenon DEF DispatchNext, dispatchVars
  <2> QED
    BY <1>3, <2>1, <2>2, <2>3 DEF Unwatched, Keys
<1> QED
  BY <1>1, <1>2, <1>3, PTL DEF DispatchSpec

-------------------------------------------------------------------------------
(* Token buckets.  What has been granted and what is left in a bucket are together at  *)
(* most the capacity and what was refilled up to last_refill: a refill with an earlier *)
(* time takes back what it takes from last_refill, so the order of scripts is no matter. *)

Connection == [link : {"none", "up", "down"}, at : Nat, busy : BOOLEAN]

\* What the argument needs of the types.
Timed ==
  /\ now \in Nat
  /\ redis \in [tokens : Int, last : Nat]
  /\ local \in [Nodes -> [tokens : Int, last : Nat]]
  /\ node \in [Nodes -> Connection]
  /\ \A n \in Nodes : node[n].at <= now
  /\ granted \in Nat
  /\ spent \in [Nodes -> Nat]

\* What was granted from bucket b and what is left in it.
WithinRefills(total, b) == total + b.tokens <= Capacity + Rate * b.last

\* The inductive invariant.
Conserved ==
  /\ Timed
  /\ BudgetHeld
  /\ WithinRefills(granted, redis)
  /\ \A n \in Nodes : WithinRefills(spent[n], local[n])

\* A tick more of time refills by one rate more.
LEMMA RateDistributes ==
  ASSUME NEW s \in Nat, NEW t \in Nat
  PROVE  /\ (t - s) * Rate \in Int
         /\ Rate * s \in Nat /\ Rate * t \in Nat
         /\ (t - s) * Rate = Rate * t - Rate * s
         /\ s <= t => Rate * s <= Rate * t
<1>1. Rate \in Nat
  BY BucketAssumption
<1>2. Rate * s \in Nat /\ Rate * t \in Nat /\ (t - s) * Rate \in Int
  BY <1>1
<1>3. (t - s) * Rate = Rate * t - Rate * s
  BY <1>1
<1>4. ASSUME s <= t  PROVE Rate * s <= Rate * t
  <2>1. t - s \in Nat
    BY <1>4
  <2>2. (t - s) * Rate \in Nat
    BY <2>1, <1>1
  <2> QED
    BY <2>2, <1>2, <1>3
<1> QED
  BY <1>2, <1>3, <1>4

\* One use of a bucket, with whatever time, keeps it within its refills, and what it
\* grants within the budget of that time.
LEMMA UseKeepsBudget ==
  ASSUME NEW b \in [tokens : Int, last : Nat], NEW t \in Nat, NEW total \in Nat,
         WithinRefills(total, b)
  PROVE  LET r == Refilled(b, t)
             more == IF Enough(r) THEN total + 1 ELSE total
         IN /\ Taken(r) \in [tokens : Int, last : Nat]
            /\ more \in Nat
            /\ WithinRefills(more, Taken(r))
            /\ more = total \/ more <= Capacity + Rate * t
<1> DEFINE r == Refilled(b, t)
           more == IF Enough(r) THEN total + 1 ELSE total
<1>1. /\ Capacity \in Nat
      /\ Rate * b.last \in Nat /\ Rate * t \in Nat
      /\ (t - b.last) * Rate = Rate * t - Rate * b.last
  BY BucketAssumption, RateDistributes
<1>2. /\ r = [tokens |-> Min2(Capacity, b.tokens + (t - b.last) * Rate), last |-> t]
      /\ r.tokens \in Int
      /\ r.tokens <= b.tokens + (Rate * t - Rate * b.last)
  BY <1>1 DEF Refilled, Bucket, Min2
<1>3. WithinRefills(total, r)
  BY <1>1, <1>2 DEF WithinRefills
<1>4. CASE Enough(r)
  <2>1. Taken(r) = [tokens |-> r.tokens - 1, last |-> t] /\ r.tokens >= 1 /\ more = total + 1
    BY <1>2, <1>4 DEF Taken, Enough
  <2> QED
    BY <2>1, <1>1, <1>2, <1>3 DEF WithinRefills
<1>5. CASE ~Enough(r)
  <2>1. Taken(r) = r /\ more = total
    BY <1>5 DEF Taken
  <2> QED
    BY <2>1, <1>2, <1>3
<1> QED
  BY <1>4, <1>5

-------------------------------------------------------------------------------
\* A script that runs with the time of its node keeps the shared bucket conserved.
LEMMA ScriptKeeps ==
  ASSUME Conserved, NEW n \in Nodes, RunScript(n)
  PROVE  /\ redis' \in [tokens : Int, last : Nat]
         /\ granted' \in Nat
         /\ WithinRefills(granted', redis')
         /\ granted' <= Capacity + Rate * now
<1> DEFINE t == node[n].at
<1>1. /\ redis \in [tokens : Int, last : Nat] /\ granted \in Nat /\ now \in Nat
      /\ t \in Nat /\ t <= now
      /\ WithinRefills(granted, redis)
  BY DEF Conserved, Timed, Connection
<1>2. /\ redis' = Taken(Refilled(redis, t))
      /\ granted' = IF Enough(Refilled(redis, t)) THEN granted + 1 ELSE granted
  BY DEF RunScript
<1>3. /\ redis' \in [tokens : Int, last : Nat]
      /\ granted' \in Nat
      /\ WithinRefills(granted', redis')
      /\ granted' = granted \/ granted' <= Capacity + Rate * t
  BY <1>1, <1>2, UseKeepsBudget
<1>4. Rate * t \in Nat /\ Rate * now \in Nat /\ Rate * t <= Rate * now /\ Capacity \in Nat
  BY <1>1, RateDistributes, BucketAssumption
<1>5. granted <= Capacity + Rate * now
  BY DEF Conserved, BudgetHeld
<1> QED
  BY <1>3, <1>4, <1>5

\* The same of a node's own bucket, at a time that is not ahead of the clock.
LEMMA LocalKeeps ==
  ASSUME Conserved, NEW n \in Nodes, NEW t \in Nat, t <= now, TakeLocal(n, t)
  PROVE  /\ local' \in [Nodes -> [tokens : Int, last : Nat]]
         /\ spent' \in [Nodes -> Nat]
         /\ \A m \in Nodes : WithinRefills(spent'[m], local'[m])
         /\ \A m \in Nodes : spent'[m] <= Capacity + Rate * now
<1> DEFINE r == Refilled(local[n], t)
           more == IF Enough(r) THEN spent[n] + 1 ELSE spent[n]
<1>1. /\ local \in [Nodes -> [tokens : Int, last : Nat]] /\ spent \in [Nodes -> Nat]
      /\ now \in Nat
      /\ \A m \in Nodes : WithinRefills(spent[m], local[m])
      /\ \A m \in Nodes : spent[m] <= Capacity + Rate * now
  BY DEF Conserved, Timed, BudgetHeld
<1>2. /\ Taken(r) \in [tokens : Int, last : Nat]
      /\ more \in Nat
      /\ WithinRefills(more, Taken(r))
      /\ more = spent[n] \/ more <= Capacity + Rate * t
  <2>1. local[n] \in [tokens : Int, last : Nat] /\ spent[n] \in Nat
        /\ WithinRefills(spent[n], local[n])
    BY <1>1
  <2> QED
    BY <2>1, UseKeepsBudget
<1>3. /\ Rate * t \in Nat /\ Rate * now \in Nat /\ Rate * t <= Rate * now
      /\ Capacity \in Nat
  BY <1>1, RateDistributes, BucketAssumption
<1>4. more <= Capacity + Rate * now
  BY <1>1, <1>2, <1>3
<1>5. spent[n] + (IF Enough(r) THEN 1 ELSE 0) = more
  BY <1>1
<1>6. /\ local' = [local EXCEPT ![n] = Taken(r)]
      /\ spent' = [spent EXCEPT ![n] = more]
  <2>1. spent' = [spent EXCEPT ![n] = spent[n] + (IF Enough(r) THEN 1 ELSE 0)]
    BY DEF TakeLocal
  <2>2. local' = [local EXCEPT ![n] = Taken(r)]
    BY DEF TakeLocal
  <2> QED
    BY <2>1, <2>2, <1>5
<1> HIDE DEF r, more
<1>7. \A m \in Nodes : /\ local'[m] = IF m = n THEN Taken(r) ELSE local[m]
                       /\ spent'[m] = IF m = n THEN more ELSE spent[m]
  BY <1>1, <1>6
<1>8. local' \in [Nodes -> [tokens : Int, last : Nat]] /\ spent' \in [Nodes -> Nat]
  BY <1>1, <1>2, <1>6
<1> QED
  BY <1>1, <1>2, <1>4, <1>7, <1>8

\* A change of one field leaves a connection of the same time.
LEMMA FieldKeeps ==
  ASSUME NEW c \in Connection, NEW link \in {"up", "down"}
  PROVE  /\ [c EXCEPT !.link = link] \in Connection
         /\ [c EXCEPT !.link = link].at = c.at
         /\ [c EXCEPT !.busy = FALSE] \in Connection
         /\ [c EXCEPT !.busy = FALSE].at = c.at
  BY DEF Connection

\* A node's consume begins or ends, which the buckets do not see.
LEMMA NodeKeeps ==
  ASSUME Conserved, NEW n \in Nodes,
         \/ \E link \in {"up", "down"} : node' = [node EXCEPT ![n].link = link]
         \/ node' = [node EXCEPT ![n] = [link |-> "up", at |-> now, busy |-> TRUE]]
         \/ node' = [node EXCEPT ![n].busy = FALSE]
         \/ node' = node
  PROVE  /\ node' \in [Nodes -> Connection]
         /\ \A m \in Nodes : node'[m].at <= now
<1>1. /\ node \in [Nodes -> Connection] /\ now \in Nat
      /\ \A m \in Nodes : node[m].at <= now
  BY DEF Conserved, Timed
<1>2. ASSUME NEW x \in Connection, x.at <= now, node' = [node EXCEPT ![n] = x]
      PROVE  node' \in [Nodes -> Connection] /\ \A m \in Nodes : node'[m].at <= now
  BY <1>1, <1>2
<1>3. ASSUME NEW link \in {"up", "down"}, node' = [node EXCEPT ![n].link = link]
      PROVE  node' \in [Nodes -> Connection] /\ \A m \in Nodes : node'[m].at <= now
  <2>1. node' = [node EXCEPT ![n] = [node[n] EXCEPT !.link = link]]
    BY <1>3
  <2>2. node[n] \in Connection /\ node[n].at <= now
    BY <1>1
  <2> QED
    BY <2>1, <2>2, <1>2, FieldKeeps
<1>4. ASSUME node' = [node EXCEPT ![n] = [link |-> "up", at |-> now, busy |-> TRUE]]
      PROVE  node' \in [Nodes -> Connection] /\ \A m \in Nodes : node'[m].at <= now
  <2>1. /\ [link |-> "up", at |-> now, busy |-> TRUE] \in Connection
        /\ [link |-> "up", at |-> now, busy |-> TRUE].at <= now
    BY <1>1 DEF Connection
  <2> QED
    BY <2>1, <1>2, <1>4
<1>5. ASSUME node' = [node EXCEPT ![n].busy = FALSE]
      PROVE  node' \in [Nodes -> Connection] /\ \A m \in Nodes : node'[m].at <= now
  <2>1. node' = [node EXCEPT ![n] = [node[n] EXCEPT !.busy = FALSE]]
    BY <1>5
  <2>2. node[n] \in Connection /\ node[n].at <= now
    BY <1>1
  <2> QED
    BY <2>1, <2>2, <1>2, FieldKeeps
<1> QED
  BY <1>1, <1>3, <1>4, <1>5

\* Every step conserves.
LEMMA ConservedStep ==
  ASSUME Conserved, [BucketNext]_bucketVars
  PROVE  Conserved'
<1>1. ASSUME NEW n \in Nodes, NEW link \in {"up", "down"}, Connect(n, link)
      PROVE  Conserved'
  <2>1. node' = [node EXCEPT ![n].link = link]
        /\ UNCHANGED <<now, redis, local, granted, spent>>
    BY <1>1 DEF Connect
  <2> QED
    BY <2>1, NodeKeeps DEF Conserved, Timed, BudgetHeld, WithinRefills
<1>2. ASSUME NEW n \in Nodes, Consume(n)  PROVE Conserved'
  <2>1. node' = [node EXCEPT ![n] = [link |-> "up", at |-> now, busy |-> TRUE]]
        /\ UNCHANGED <<now, redis, local, granted, spent>>
    BY <1>2 DEF Consume
  <2> QED
    BY <2>1, NodeKeeps DEF Conserved, Timed, BudgetHeld, WithinRefills
<1>3. ASSUME NEW n \in Nodes, Reply(n)  PROVE Conserved'
  <2>1. node' = [node EXCEPT ![n].busy = FALSE] /\ RunScript(n)
        /\ UNCHANGED <<now, local, spent>>
    BY <1>3 DEF Reply
  <2> QED
    BY <2>1, NodeKeeps, ScriptKeeps DEF Conserved, Timed, BudgetHeld, WithinRefills
<1>4. ASSUME NEW n \in Nodes, FailsBefore(n)  PROVE Conserved'
  <2>1. node' = [node EXCEPT ![n].busy = FALSE] /\ TakeLocal(n, node[n].at)
        /\ UNCHANGED <<now, redis, granted>>
    BY <1>4 DEF FailsBefore
  <2>2. node[n].at \in Nat /\ node[n].at <= now
    BY DEF Conserved, Timed, Connection
  <2> QED
    BY <2>1, <2>2, NodeKeeps, LocalKeeps DEF Conserved, Timed, BudgetHeld, WithinRefills
<1>5. ASSUME NEW n \in Nodes, FailsAfter(n)  PROVE Conserved'
  <2>1. node' = [node EXCEPT ![n].busy = FALSE] /\ TakeLocal(n, node[n].at) /\ RunScript(n)
        /\ UNCHANGED now
    BY <1>5 DEF FailsAfter
  <2>2. node[n].at \in Nat /\ node[n].at <= now
    BY DEF Conserved, Timed, Connection
  <2> QED
    BY <2>1, <2>2, NodeKeeps, LocalKeeps, ScriptKeeps
       DEF Conserved, Timed, BudgetHeld, WithinRefills
<1>6. ASSUME NEW n \in Nodes, ConsumeAlone(n)  PROVE Conserved'
  <2>1. TakeLocal(n, now) /\ UNCHANGED <<now, redis, node, granted>>
    BY <1>6 DEF ConsumeAlone
  <2>2. now \in Nat /\ now <= now
    BY DEF Conserved, Timed
  <2> QED
    BY <2>1, <2>2, LocalKeeps DEF Conserved, Timed, BudgetHeld, WithinRefills
<1>7. ASSUME NEW c \in Clients, CheckTiers(c) \/ ResetTier(c)  PROVE Conserved'
  BY <1>7 DEF CheckTiers, ResetTier, Conserved, Timed, BudgetHeld, WithinRefills
<1>8. CASE BucketTick
  <2>1. now' = now + 1 /\ UNCHANGED <<redis, local, node, granted, spent>>
    BY <1>8 DEF BucketTick
  <2>2. now \in Nat /\ Timed
    BY DEF Conserved, Timed
  <2>3. Rate * now \in Nat /\ Rate * now' \in Nat /\ Rate * now <= Rate * now'
    BY <2>1, <2>2, RateDistributes
  <2>4. Capacity \in Nat
    BY BucketAssumption
  <2>5. BudgetHeld'
    BY <2>1, <2>2, <2>3, <2>4 DEF Conserved, BudgetHeld, Timed
  <2>6. Timed'
    BY <2>1, <2>2 DEF Timed, Connection
  <2> QED
    BY <2>1, <2>5, <2>6 DEF Conserved, WithinRefills
<1>9. CASE UNCHANGED bucketVars
  BY <1>9 DEF bucketVars, Conserved, Timed, BudgetHeld, WithinRefills
<1> QED
  BY <1>1, <1>2, <1>3, <1>4, <1>5, <1>6, <1>7, <1>8, <1>9 DEF BucketNext

LEMMA BucketInvariant == BucketSpec => []Conserved
<1>1. BucketInit => Conserved
  <2> SUFFICES ASSUME BucketInit  PROVE Conserved
    OBVIOUS
  <2>1. Capacity \in Nat /\ Rate \in Nat /\ Rate * 0 = 0
    BY BucketAssumption
  <2>2. Timed
    BY <2>1 DEF BucketInit, Bucket, Timed, Connection
  <2> QED
    BY <2>1, <2>2 DEF BucketInit, Bucket, Conserved, BudgetHeld, WithinRefills
<1>2. Conserved /\ [BucketNext]_bucketVars => Conserved'
  BY ConservedStep
<1> QED
  BY <1>1, <1>2, PTL DEF BucketSpec

\* For every number of nodes, and however their scripts are delayed and their calls fail:
\* the shared bucket, and each node's own, grants at most the capacity and what was
\* refilled since the start (DistributedTokenBucket.consume).
THEOREM BudgetsHold == BucketSpec => []BudgetHeld
<1>1. Conserved => BudgetHeld
  BY DEF Conserved
<1> QED
  BY <1>1, BucketInvariant, PTL

\* The types of the buckets: no bucket was refilled at a time still to come, and no bucket
\* of the hierarchy goes below zero or over its capacity (MultiTierRateLimiter.check_limit).
THEOREM BucketsTyped == BucketSpec => []BucketTypeOK
<1> DEFINE Past == /\ now <= MaxTime /\ redis.last <= now
                   /\ \A n \in Nodes : local[n].last <= now
           TwoTiers == tier \in [outer : 0 .. Outer, inner : [Clients -> 0 .. Inner]]
<1>0. Outer \in Nat /\ Inner \in Nat /\ Rate \in Nat /\ MaxTime \in Nat
  BY BucketAssumption
<1>1. BucketInit => Past /\ TwoTiers
  BY <1>0 DEF BucketInit, Bucket
<1>2. \A b, t : Taken(Refilled(b, t)).last = t
  BY DEF Taken, Refilled, Bucket
<1>3. Conserved /\ Past /\ [BucketNext]_bucketVars => Past'
  <2> SUFFICES ASSUME Conserved, Past, [BucketNext]_bucketVars  PROVE Past'
    OBVIOUS
  <2>0. /\ now \in Nat /\ local \in [Nodes -> [tokens : Int, last : Nat]]
        /\ redis.last \in Nat
        /\ \A n \in Nodes : node[n].at \in Nat /\ node[n].at <= now
    BY DEF Conserved, Timed, Connection
  <2>1. ASSUME NEW n \in Nodes, RunScript(n)  PROVE redis'.last = node[n].at
    BY <1>2, <2>1 DEF RunScript
  <2>2. ASSUME NEW n \in Nodes, NEW t \in Nat, t <= now, TakeLocal(n, t)
        PROVE  \A m \in Nodes : local'[m].last <= now
    <3>1. local' = [local EXCEPT ![n] = Taken(Refilled(local[n], t))]
      BY <2>2 DEF TakeLocal
    <3>2. \A m \in Nodes : local'[m].last = t \/ local'[m] = local[m]
      BY <1>2, <2>0, <3>1
    <3> QED  BY <2>2, <3>2
  <2>3. ASSUME NEW n \in Nodes, Reply(n)  PROVE Past'
    BY <2>0, <2>1, <2>3 DEF Reply
  <2>4. ASSUME NEW n \in Nodes, FailsBefore(n)  PROVE Past'
    BY <2>0, <2>2, <2>4 DEF FailsBefore
  <2>5. ASSUME NEW n \in Nodes, FailsAfter(n)  PROVE Past'
    BY <2>0, <2>1, <2>2, <2>5 DEF FailsAfter
  <2>6. ASSUME NEW n \in Nodes, ConsumeAlone(n)  PROVE Past'
    BY <2>0, <2>2, <2>6 DEF ConsumeAlone
  <2>7. CASE BucketTick
    <3>1. /\ now' = now + 1 /\ now < MaxTime /\ redis' = redis /\ local' = local
      BY <2>7 DEF BucketTick
    <3>2. \A n \in Nodes : local[n].last \in Nat
      BY <2>0
    <3> QED  BY <1>0, <2>0, <3>1, <3>2
  <2>8. CASE UNCHANGED <<now, redis, local>>
    BY <2>8
  <2> QED
    BY <2>3, <2>4, <2>5, <2>6, <2>7, <2>8
       DEF BucketNext, bucketVars, Connect, Consume, CheckTiers, ResetTier
<1>4. TwoTiers /\ [BucketNext]_bucketVars => TwoTiers'
  <2> SUFFICES ASSUME TwoTiers, [BucketNext]_bucketVars  PROVE TwoTiers'
    OBVIOUS
  <2>0. /\ tier.outer \in 0 .. Outer /\ tier.inner \in [Clients -> 0 .. Inner]
        /\ tier = [outer |-> tier.outer, inner |-> tier.inner]
    OBVIOUS
  <2>1. ASSUME NEW c \in Clients, CheckTiers(c)  PROVE TwoTiers'
    <3>1. CASE tier.outer < 1
      BY <2>1, <3>1 DEF CheckTiers
    <3>2. CASE ~(tier.outer < 1)
      <4>1. [tier.inner EXCEPT ![c] = IF @ >= 1 THEN @ - 1 ELSE @] \in [Clients -> 0 .. Inner]
        BY <1>0, <2>0
      <4>2. tier.outer - 1 \in 0 .. Outer
        BY <1>0, <2>0, <3>2
      <4> QED  BY <2>1, <3>2, <4>1, <4>2 DEF CheckTiers
    <3> QED  BY <3>1, <3>2
  <2>2. ASSUME NEW c \in Clients, ResetTier(c)  PROVE TwoTiers'
    <3>1. tier' = [tier EXCEPT !.inner = [tier.inner EXCEPT ![c] = Inner]]
      BY <2>2 DEF ResetTier
    <3>2. [tier.inner EXCEPT ![c] = Inner] \in [Clients -> 0 .. Inner]
      BY <1>0, <2>0
    <3> QED  BY <3>1, <3>2
  <2>3. CASE BucketTick
    <3>1. tier' = [outer |-> Min2(Outer, tier.outer + Rate),
                   inner |-> [c \in Clients |-> Min2(Inner, tier.inner[c] + Rate)]]
      BY <2>3 DEF BucketTick
    <3>2. Min2(Outer, tier.outer + Rate) \in 0 .. Outer
      BY <1>0, <2>0 DEF Min2
    <3>3. \A c \in Clients : Min2(Inner, tier.inner[c] + Rate) \in 0 .. Inner
      BY <1>0, <2>0 DEF Min2
    <3> QED  BY <3>1, <3>2, <3>3
  <2>4. CASE UNCHANGED tier
    BY <2>4
  <2> QED
    BY <2>1, <2>2, <2>3, <2>4
       DEF BucketNext, bucketVars, Connect, Consume, Reply, FailsBefore, FailsAfter,
           ConsumeAlone
<1>5. Conserved /\ Past /\ TwoTiers => BucketTypeOK
  <2> SUFFICES ASSUME Conserved, Past, TwoTiers  PROVE BucketTypeOK
    OBVIOUS
  <2>1. /\ now \in Nat /\ redis \in [tokens : Int, last : Nat]
        /\ local \in [Nodes -> [tokens : Int, last : Nat]]
        /\ node \in [Nodes -> Connection] /\ \A n \in Nodes : node[n].at <= now
        /\ granted \in Nat /\ spent \in [Nodes -> Nat]
    BY DEF Conserved, Timed
  <2>2. redis \in [tokens : Int, last : 0 .. now]
    BY <2>1
  <2>3. \A n \in Nodes : local[n] \in [tokens : Int, last : 0 .. now]
    BY <2>1
  <2>4. \A n \in Nodes :
          node[n] \in [link : {"none", "up", "down"}, at : 0 .. now, busy : BOOLEAN]
    BY <2>1 DEF Connection
  <2>5. now \in 0 .. MaxTime
    BY <1>0, <2>1
  <2> QED  BY <2>1, <2>2, <2>3, <2>4, <2>5 DEF BucketTypeOK
<1> HIDE DEF Past, TwoTiers
<1> QED
  BY <1>1, <1>3, <1>4, <1>5, BucketInvariant, PTL DEF BucketSpec
===============================================================================
