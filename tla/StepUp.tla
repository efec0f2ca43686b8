--------------------------------- MODULE StepUp --------------------------------
(***************************************************************************)
(* auth_defense/layer4_mfa: MFAManager and StepUpEngine.  The middleware    *)
(* evaluates a step-up and creates its challenges one after the other,     *)
(* each with the step-up's context as its challenge_data; sending a code   *)
(* is awaited, the locks never are.  verify_step_up answers the required   *)
(* methods in one call; the response says which challenge stands for which *)
(* method, and may name any challenge there is: of another method, another *)
(* step-up or another user, and one that was accepted before.              *)
(*                                                                         *)
(* Only TOTP, SMS and e-mail can be enrolled, so only they are required.   *)
(* No code is the same as another; a user's authenticator shows one code.  *)
(***************************************************************************)
EXTENDS Integers, FiniteSets, Sequences, Functions

CONSTANTS
  Users,
  StepUps,       \* step-up requests
  Providers,     \* the code methods for which a provider is configured
  Asked,         \* the methods the triggers ask for, without duplicates
  MaxAttempts,   \* max_attempts of a challenge (3 in the code)
  MaxEnrolled    \* bound on the enrollments of a user

CodeMethods == {"SMS", "EMAIL"}

ASSUME StepUpAssumption ==
  /\ Providers \subseteq CodeMethods
  /\ Asked \in Seq(STRING)
  /\ \A i, j \in DOMAIN Asked : Asked[i] = Asked[j] => i = j
  /\ MaxAttempts \in Nat

VARIABLES
  enrolled,   \* per user: its _enrollments, [method, verified]
  request,    \* per step-up: its phase, its user and its required_methods
  issued,     \* per step-up: its challenges, each with the code it accepted (not in the code)
  expected    \* per step-up: whose code its context's "expected_code" is (0: none)

stepUpVars == <<enrolled, request, issued, expected>>

\* What an answer has for a code: nothing, one nobody was sent, the code sent for the
\* k-th challenge of a step-up, or what a user's authenticator shows.
Empty == [kind |-> "empty"]
Wrong == [kind |-> "wrong"]
Sent(s, k) == [kind |-> "sent", step_up |-> s, place |-> k]
Authenticator(u) == [kind |-> "totp", user |-> u]

Methods == {"TOTP"} \cup CodeMethods
Phases == {"none", "waived", "sending", "open", "success", "error"}

Verified(u, m) ==
  \E i \in DOMAIN enrolled[u] : enrolled[u][i] = [method |-> m, verified |-> TRUE]
Enrollments(u, m) == {i \in DOMAIN enrolled[u] : enrolled[u][i].method = m}

\* The members of a sequence at these places, in their order.
Among(seq, places) ==
  LET Rank(i) == Cardinality({j \in places : j <= i})
  IN [n \in 1 .. Cardinality(places) |-> seq[CHOOSE i \in places : Rank(i) = n]]

\* Slip: the methods are not filtered to those the user has verified.
RequiredUnfiltered(u) == Asked

\* evaluate_step_up: what the triggers ask for and the user has, else the first two
\* methods the user has.  (The lockout it checks too was just checked.)
RequiredMethods(u) ==
  LET asked == Among(Asked, {i \in DOMAIN Asked : Verified(u, Asked[i])})
      have == {i \in DOMAIN enrolled[u] : enrolled[u][i].verified}
      first == {i \in have : Cardinality({j \in have : j <= i}) <= 2}
  IN IF asked # <<>> THEN asked
     ELSE Among([i \in DOMAIN enrolled[u] |-> enrolled[u][i].method], first)

Challenge(m, sent) == [method |-> m, sent |-> sent, attempts |-> 0, by |-> Wrong]

\* A step-up is evaluated for the user whose request it is.
StepUpInit ==
  /\ enrolled = [u \in Users |-> <<>>]
  /\ request \in [StepUps -> [phase : {"none"}, user : Users, required : {<<>>}]]
  /\ issued = [s \in StepUps |-> <<>>]
  /\ expected = [s \in StepUps |-> 0]

-------------------------------------------------------------------------------
\* enroll_totp, enroll_sms, enroll_email.
Enroll(u, m) ==
  /\ m \in {"TOTP"} \cup Providers
  /\ Len(enrolled[u]) < MaxEnrolled
  /\ enrolled' = [enrolled EXCEPT ![u] = Append(@, [method |-> m, verified |-> FALSE])]
  /\ UNCHANGED <<request, issued, expected>>

\* verify_*_enrollment with the code of the i-th enrollment.
VerifyEnrollment(u, i) ==
  /\ i \in DOMAIN enrolled[u]
  /\ ~enrolled[u][i].verified
  /\ enrolled' = [enrolled EXCEPT ![u][i].verified = TRUE]
  /\ UNCHANGED <<request, issued, expected>>

RevokeAll(u) ==
  /\ enrolled[u] # <<>>
  /\ enrolled' = [enrolled EXCEPT ![u] = <<>>]
  /\ UNCHANGED <<request, issued, expected>>

\* initiate_step_up goes on after the challenges `made`: up to the next code to be
\* sent, or to the end of the required methods.
Initiate(s, required, made) ==
  LET rest == {k \in Len(made) + 1 .. Len(required) :
                 /\ required[k] \in CodeMethods
                 /\ Enrollments(request[s].user, required[k]) # {}}
      stop == IF rest = {} THEN Len(required) + 1
              ELSE CHOOSE k \in rest : \A j \in rest : k <= j
  IN /\ issued' = [issued EXCEPT ![s] =
                     made \o [k \in 1 .. stop - 1 - Len(made) |->
                                Challenge(required[Len(made) + k], FALSE)]]
     /\ request' = [request EXCEPT ![s] =
                      [phase |-> IF rest = {} THEN "open" ELSE "sending",
                       user |-> request[s].user, required |-> required]]

\* The middleware evaluates a step-up for a risky request, and initiates it if a
\* method is required.
Evaluate(s) ==
  LET required == RequiredMethods(request[s].user)
  IN /\ request[s].phase = "none"
     /\ IF required = <<>>
        THEN request' = [request EXCEPT ![s].phase = "waived"] /\ UNCHANGED issued
        ELSE Initiate(s, required, <<>>)
     /\ UNCHANGED <<enrolled, expected>>

\* The code was sent: it goes into the step-up's context, the challenge is created.
CodeSent(s) ==
  LET k == Len(issued[s]) + 1
  IN /\ request[s].phase = "sending"
     /\ expected' = [expected EXCEPT ![s] = k]
     /\ Initiate(s, request[s].required,
                 Append(issued[s], Challenge(request[s].required[k], TRUE)))
     /\ UNCHANGED enrolled

\* The provider raises: the request ends with an error.
SendFails(s) ==
  /\ request[s].phase = "sending"
  /\ request' = [request EXCEPT ![s].phase = "error"]
  /\ UNCHANGED <<enrolled, issued, expected>>

\* The 5 minutes of a challenge are over: no answer is looked at any more, as when its
\* attempts are used up.
Expire(s, k) ==
  /\ k \in DOMAIN issued[s]
  /\ issued[s][k].attempts < MaxAttempts
  /\ issued' = [issued EXCEPT ![s][k].attempts = MaxAttempts]
  /\ UNCHANGED <<enrolled, request, expected>>

-------------------------------------------------------------------------------
\* The code verify_challenge compares the answer with: the authenticator's, or the one
\* in the challenge's data.
ContextCode(t) == IF expected[t] = 0 THEN Empty ELSE Sent(t, expected[t])
CodeOf(t, k) ==
  IF issued[t][k].method = "TOTP" THEN Authenticator(request[t].user) ELSE ContextCode(t)

Right(t, k, code) ==
  /\ code = CodeOf(t, k)
  /\ issued[t][k].method = "TOTP" => Verified(request[t].user, "TOTP")

\* What a response says of a method: which challenge stands for it, of all that are not
\* over, and the code, or no challenge.  A challenge that is over or unknown is as good
\* as none; any code but the challenge's, an empty one too, as good as a wrong one.
Unnamed == [named |-> FALSE]
Reply(t, k, code) == [named |-> TRUE, step_up |-> t, place |-> k, code |-> code]
RepliesTo(t, k) ==
  IF issued[t][k].attempts < MaxAttempts
  THEN {Reply(t, k, Wrong), Reply(t, k, CodeOf(t, k))} ELSE {Unnamed}
Replies ==
  {Unnamed} \cup
    UNION {UNION {RepliesTo(t, k) : k \in DOMAIN issued[t]} : t \in StepUps}

\* verify_challenge of the challenge named, with all challenges as they are by now.
Try(all, reply) ==
  LET t == reply.step_up
      k == reply.place
      right == Right(t, k, reply.code)
  IN IF ~reply.named THEN [all |-> all, ok |-> FALSE]
     ELSE IF all[t][k].attempts >= MaxAttempts THEN [all |-> all, ok |-> FALSE]
     ELSE [all |-> [all EXCEPT ![t][k].attempts = @ + 1,
                               ![t][k].by = IF right THEN reply.code ELSE @],
           ok |-> right]

\* verify_step_up: the replies are gone through per required method; the first failure
\* ends it.
Outcome(s, replies) ==
  LET required == request[s].required
      upto[n \in 0 .. Len(required)] ==
        IF n = 0 THEN [all |-> issued, ok |-> TRUE]
        ELSE IF ~upto[n - 1].ok THEN upto[n - 1]
        ELSE Try(upto[n - 1].all, replies[required[n]])
  IN upto[Len(required)]

VerifyStepUp(s) ==
  /\ request[s].phase \in {"open", "success"}
  /\ \E replies \in [Range(request[s].required) -> Replies] :
       LET result == Outcome(s, replies)
       IN /\ issued' = result.all
          /\ request' = [request EXCEPT ![s].phase = IF result.ok THEN "success" ELSE @]
  /\ UNCHANGED <<enrolled, expected>>

StepUpNext ==
  \/ \E u \in Users :
       \/ \E m \in Methods : Enroll(u, m)
       \/ \E i \in 1 .. MaxEnrolled : VerifyEnrollment(u, i)
       \/ RevokeAll(u)
  \/ \E s \in StepUps :
       \/ Evaluate(s) \/ CodeSent(s) \/ SendFails(s) \/ VerifyStepUp(s)
       \/ \E k \in DOMAIN issued[s] : Expire(s, k)

StepUpSpec == StepUpInit /\ [][StepUpNext]_stepUpVars

-------------------------------------------------------------------------------
(* Properties *)

\* Types; challenges are created in the order of the required methods, and all of
\* them before the first answer.
StepUpTypeOK ==
  /\ enrolled \in [Users -> Seq([method : Methods, verified : BOOLEAN])]
  /\ \A s \in StepUps :
       /\ request[s].phase \in Phases /\ request[s].user \in Users
       /\ Len(issued[s]) <= Len(request[s].required)
       /\ \A k \in DOMAIN issued[s] : issued[s][k].method = request[s].required[k]
       /\ request[s].phase \in {"open", "success"} =>
            Len(issued[s]) = Len(request[s].required)
       /\ expected[s] \in 0 .. Len(issued[s])

\* An answer is accepted only for a code that was sent for a challenge of the same
\* step-up, or the authenticator's of its user: never for none at all, although a
\* challenge is created without a code once the enrollments are revoked, and "" is what
\* verify_challenge then compares with (step_up.py:462-490).
Accepted(t, k) == issued[t][k].by # Wrong
CodesAccepted ==
  \A t \in StepUps : \A k \in DOMAIN issued[t] :
    Accepted(t, k) => \/ issued[t][k].by = Authenticator(request[t].user)
                      \/ \E j \in DOMAIN issued[t] : /\ issued[t][j].sent
                                                       /\ issued[t][k].by = Sent(t, j)

\* A step-up succeeds only once an answer was accepted, be it another step-up's.
SuccessHasCode ==
  \A s \in StepUps : request[s].phase = "success" =>
    \E t \in StepUps : \E k \in DOMAIN issued[t] : Accepted(t, k)

\* The user's own replies: per method a challenge of the step-up for that method, with
\* the code that was sent for it or is the authenticator's.
OwnReply(s, k) ==
  Reply(s, k, IF issued[s][k].method = "TOTP" THEN Authenticator(request[s].user)
              ELSE Sent(s, k))
OwnReplies(s) ==
  {replies \in [Range(request[s].required) -> {OwnReply(s, k) : k \in DOMAIN issued[s]}] :
     \A m \in DOMAIN replies : issued[s][replies[m].place].method = m}

\* "Your code is: {code}" (step_up.py:435): the codes a user was sent are accepted.
\* While every code was sent (or is the authenticator's), no challenge is over and each
\* has an attempt left, the user's own replies are, however the earlier calls went.
OwnCodes(s) ==
  /\ request[s].phase = "open"
  /\ \A k \in DOMAIN issued[s] :
       /\ issued[s][k].attempts < MaxAttempts
       /\ IF issued[s][k].method = "TOTP" THEN Verified(request[s].user, "TOTP")
          ELSE issued[s][k].sent
  => \A replies \in OwnReplies(s) : Outcome(s, replies).ok
OwnCodesAccepted == \A s \in StepUps : OwnCodes(s)

\* A step-up decides rightly, whatever is revoked, sent or tried meanwhile, and whichever
\* challenges the responses name: only codes are accepted, it succeeds by none but them,
\* and as long as one code method is required at most, the user's own codes do.
StepUpDecides == CodesAccepted /\ SuccessHasCode /\ OwnCodesAccepted
===============================================================================
