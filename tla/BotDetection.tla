------------------------------ MODULE BotDetection -----------------------------
(***************************************************************************)
(* auth_defense/layer2_botdetection: how a fingerprint and a client's      *)
(* behaviour become a verdict, and the table of challenges.  A user agent  *)
(* is the set of the words the detector looks for in it.  Scores are in    *)
(* hundredths, times in milliseconds; the analysis of the mouse is left to *)
(* its verdict.  The lock of the table is never held across an await, so a *)
(* method is one step.                                                     *)
(***************************************************************************)
EXTENDS Integers, FiniteSets, Functions

CONSTANTS
  Challenges,    \* challenge ids
  Fingerprints,  \* fingerprints of the clients, passive and active parts
  Lifetime       \* ttl_seconds, in ticks

VARIABLES
  challenge,   \* the challenge stored under each id, if there is one
  solved   \* how often a response to each id was accepted (not in the code)

botVars == <<challenge, solved>>

NoChallenge == [kind |-> "none"]

Least(a, b) == IF a < b THEN a ELSE b

-------------------------------------------------------------------------------
(* Fingerprints *)

AutomationIndicators ==
  {"webdriver", "selenium", "puppeteer", "playwright", "phantomjs", "headless",
   "automation", "bot", "crawler", "spider", "scraper"}

IsAutomated(ua) == ua \cap AutomationIndicators # {}

\* The first match in the code's order.
Browser(ua) ==
  IF "edg/" \in ua THEN "edge"
  ELSE IF "chrome" \in ua /\ "chromium" \notin ua THEN "chrome"
  ELSE IF "firefox" \in ua THEN "firefox"
  ELSE IF "safari" \in ua /\ "chrome" \notin ua THEN "safari"
  ELSE "other"

\* A phone's user agent also names the desktop system it derives from.
Os(ua) ==
  IF "windows" \in ua THEN "windows"
  ELSE IF {"macintosh", "mac os x"} \cap ua # {} THEN "macos"
  ELSE IF "linux" \in ua THEN "linux"
  ELSE IF "android" \in ua THEN "android"
  ELSE IF {"ios", "iphone", "ipad"} \cap ua # {} THEN "ios"
  ELSE "unknown"

IsMobile(ua) == Os(ua) \in {"android", "ios"}

\* check_consistency; a browser named by two brands counts twice.
Issues(fp) ==
  {<<"browser", b>> : b \in {b \in fp.brands : b # Browser(fp.ua)}}
    \cup (IF fp.platform \in {"windows", "macos", "linux"} \ {Os(fp.ua)}
          THEN {<<"platform", fp.platform>>} ELSE {})
    \cup (IF (fp.mobile = "?1" /\ ~IsMobile(fp.ua)) \/ (fp.mobile = "?0" /\ IsMobile(fp.ua))
          THEN {<<"mobile", fp.mobile>>} ELSE {})
    \cup (IF fp.cores > 128 THEN {<<"cores", "unrealistic">>} ELSE {})
    \cup (IF fp.memory > 1024 THEN {<<"memory", "unrealistic">>} ELSE {})
    \cup (IF ~fp.fetchSite /\ Browser(fp.ua) = "chrome"
          THEN {<<"fetch", "missing">>} ELSE {})

-------------------------------------------------------------------------------
(* Behaviour *)

SumOf(s) == FoldFunction(LAMBDA x, y : x + y, 0, s)
Squares(s) == [i \in DOMAIN s |-> s[i] * s[i]]
Gaps(s) == [i \in 1 .. Cardinality(DOMAIN s) - 1 |-> s[i + 1] - s[i]]

\* The coefficient of variation of s is below one part in `parts`: n^2 times the
\* variance is n * (sum of squares) - sum^2.  A sum of 0 or less counts as 0.
TooRegular(s, parts) ==
  LET n == Cardinality(DOMAIN s)
      sum == SumOf(s)
  IN sum <= 0 \/ parts * parts * (n * SumOf(Squares(s)) - sum * sum) < sum * sum

\* analyze_keystrokes: fewer than three timings are not analysed.
SuspiciousKeys(timings) ==
  LET gaps == Gaps(timings)
      n == Cardinality(DOMAIN gaps)
  IN /\ n >= 2
     /\ \/ 10 * Cardinality(Range(gaps)) < 3 * n
        \/ \E i \in DOMAIN gaps : gaps[i] < 50
        \/ TooRegular(gaps, 20)

\* analyze_timing looks at the gaps of events that come one after the other.
SuspiciousTiming(stamps) ==
  LET gaps == Gaps(stamps)
      ahead == {i \in DOMAIN gaps : gaps[i] > 0}
      used == [i \in ahead |-> gaps[i]]
  IN /\ ahead # {}
     /\ TooRegular(used, 100) \/ SumOf(used) < 100 * Cardinality(ahead)

-------------------------------------------------------------------------------
(* The verdict *)

\* What each test that hits adds to the risk.  Absent components are 0 or FALSE.
Weights(fp, act) ==
  [inconsistent |-> 15 * Cardinality(Issues(fp)),
   automation   |-> IF IsAutomated(fp.ua) THEN 80 ELSE 0,
   noScript     |-> IF fp.js THEN 0 ELSE 30,
   noCores      |-> IF fp.cores = 0 THEN 40 ELSE 0,
   noCanvas     |-> IF fp.canvas THEN 0 ELSE 30,
   keys         |-> IF SuspiciousKeys(act.keys) THEN 40 ELSE 0,
   mouse        |-> IF act.mouse THEN 30 ELSE 0,
   timing       |-> IF SuspiciousTiming(act.events) THEN 30 ELSE 0,
   entropy      |-> IF act.lowEntropy THEN 30 ELSE 0,
   paste        |-> IF act.pasted /\ Cardinality(DOMAIN act.keys) \in {1, 2} THEN 50 ELSE 0]

Risk(w) == Least(100, SumOf(w))
Signals(w) == Cardinality({f \in DOMAIN w : w[f] > 0})

\* analyze
IsBot(fp, act) ==
  LET w == Weights(fp, act)
  IN Risk(w) > 60 \/ Signals(w) >= 3
Recommended(fp, act) ==
  LET risk == Risk(Weights(fp, act))
  IN IF risk > 80 THEN "pow" ELSE IF risk > 50 THEN "captcha" ELSE "behavioral"

\* generate_challenge scores in tenths.  The sums are made in binary floating point:
\* three tenths and, unless the user agent adds its half, six come out a little larger.
ChallengeFor(fp) ==
  LET agent == IF IsAutomated(fp.ua) THEN 5 ELSE 0
      risk == agent + Cardinality(Issues(fp)) + (IF fp.cores = 0 THEN 2 ELSE 0)
  IN IF risk > 6 \/ (risk = 6 /\ agent = 0) THEN "pow"
     ELSE IF risk >= 3 THEN "captcha" ELSE "behavioral"

-------------------------------------------------------------------------------
(* The challenge table *)

BotInit ==
  /\ challenge = [c \in Challenges |-> NoChallenge]
  /\ solved = [c \in Challenges |-> 0]

\* generate_challenge stores a challenge under a fresh id.
Generate(c, fp) ==
  /\ challenge[c] = NoChallenge /\ solved[c] = 0
  /\ challenge' = [challenge EXCEPT ![c] =
                 [kind |-> ChallengeFor(fp), left |-> Lifetime, verified |-> FALSE]]
  /\ UNCHANGED solved

\* Slip: an accepted challenge can be answered again.
OpenAgain(c) == challenge[c] # NoChallenge /\ challenge[c].left >= 0

\* What verify_pow and verify_invisible_captcha ask of a challenge first.
Open(c) == challenge[c] # NoChallenge /\ ~challenge[c].verified /\ challenge[c].left >= 0

\* verify_pow: the hash of the nonce starts with the target.
PowHolds(c, response) == challenge[c].kind = "pow" /\ response.nonce

\* verify_invisible_captcha: the token and then the behaviour.
CaptchaHolds(c, response) ==
  challenge[c].kind = "captcha" /\ response.token
    /\ ~SuspiciousKeys(response.keys) /\ ~response.mouse

Accept(c) ==
  /\ challenge' = [challenge EXCEPT ![c].verified = TRUE]
  /\ solved' = [solved EXCEPT ![c] = @ + 1]

\* verify_challenge; any other kind of challenge, and any other response, is refused.
Verify(c, response) ==
  IF Open(c) /\ (PowHolds(c, response) \/ CaptchaHolds(c, response))
  THEN Accept(c) ELSE UNCHANGED botVars

\* cleanup_expired.  Nothing in the repository calls it.
Cleanup ==
  /\ challenge' = [c \in Challenges |->
                    IF challenge[c] # NoChallenge /\ challenge[c].left < 0 THEN NoChallenge
                    ELSE challenge[c]]
  /\ UNCHANGED solved

\* Time passes; -1 is after expires_at.
BotTick ==
  /\ challenge' = [c \in Challenges |->
                 IF challenge[c] # NoChallenge /\ challenge[c].left >= 0
                 THEN [challenge[c] EXCEPT !.left = @ - 1] ELSE challenge[c]]
  /\ UNCHANGED solved

CONSTANT Responses   \* what clients answer
BotNext ==
  \/ \E c \in Challenges, fp \in Fingerprints : Generate(c, fp)
  \/ \E c \in Challenges, response \in Responses : Verify(c, response)
  \/ Cleanup
  \/ BotTick

BotSpec == BotInit /\ [][BotNext]_botVars

-------------------------------------------------------------------------------
(* Properties *)

\* Types of the challenge table.
BotTypeOK ==
  /\ challenge \in [Challenges -> {NoChallenge} \cup
       [kind : {"pow", "captcha", "behavioral"}, left : -1 .. Lifetime, verified : BOOLEAN]]
  /\ solved \in [Challenges -> Nat]

\* A challenge lets its client through once, however often its answer is sent, and
\* whatever the cleanup does to the table between two answers.
SolvedOnce ==
  \A c \in Challenges :
    /\ solved[c] <= 1
    /\ solved[c] = 1 /\ challenge[c] # NoChallenge => challenge[c].verified
===============================================================================
