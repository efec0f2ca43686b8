------------------------------ MODULE EdgePipeline -----------------------------
(***************************************************************************)
(* gateway.py and observability.py: what one request meets on its way to   *)
(* the application and its answer on the way back.  Outermost first: the   *)
(* framework's error handler (external), ObservabilityMiddleware,          *)
(* BodySizeLimitMiddleware, SecurityHeadersMiddleware, the application.    *)
(* The application reads the body and writes its answer in tasks of their  *)
(* own, and the client sends the body in between.                          *)
(***************************************************************************)
EXTENDS Integers, Sequences, FiniteSets

CONSTANTS
  Cap,       \* max_bytes; 0 or less: no limit
  Sizes,     \* lengths of the parts a body comes in
  MaxBody,   \* bound on the bytes a client sends
  Statuses,  \* statuses the application answers with
  ReadsOn    \* the application reads on after http.disconnect (Starlette's does not)

ASSUME EdgeAssumption == Cap \in Int /\ Sizes \subseteq Nat /\ ReadsOn \in BOOLEAN

Limited == Cap > 0

VARIABLES
  stage,    \* where the request is
  sent,     \* bytes the client has sent that nobody has read
  total,    \* bytes the client has sent at all
  limit,    \* the state of BodySizeLimitMiddleware
  got,      \* bytes handed to the application (not in the code)
  told,     \* the application was told http.disconnect
  answer,   \* how far the application is with its answer: none, begun, ended
  wire,     \* the messages that left towards the client
  counted   \* the statuses the request was counted and logged with

edgeVars == <<stage, sent, total, limit, got, told, answer, wire, counted>>

NoLength == -1   \* chunked, or a Content-Length that cannot be read

Start(status, hardened, id) ==
  [type |-> "start", status |-> status, hardened |-> hardened, id |-> id]
Body(last) == [type |-> "body", last |-> last]
LastPart == Body(TRUE)

\* Where an answer starts among messages.
Starts(messages) == {i \in DOMAIN messages : messages[i].type = "start"}

EdgeInit ==
  /\ stage = "arriving"
  /\ sent = <<>> /\ total = 0
  /\ limit = [seen |-> 0, started |-> FALSE, tripped |-> FALSE]
  /\ got = 0 /\ told = FALSE /\ answer = "none"
  /\ wire = <<>>
  /\ counted = <<>>

\* BodySizeLimitMiddleware._reject.  ObservabilityMiddleware is outside of it and adds
\* the request id, SecurityHeadersMiddleware is inside and adds nothing.
Rejection == <<Start(413, FALSE, TRUE), LastPart>>

\* The finally of ObservabilityMiddleware, with the status of the last start it passed on.
LastStart(messages) ==
  CHOOSE i \in Starts(messages) : \A j \in Starts(messages) : j <= i
Count(messages) ==
  counted' = Append(counted, IF Starts(messages) = {} THEN 500
                             ELSE messages[LastStart(messages)].status)

\* Content-Length over the cap: answered at once, the body is never read.
Declared(length) ==
  /\ stage = "arriving" /\ Limited /\ length > Cap
  /\ wire' = Rejection
  /\ Count(wire')
  /\ stage' = "over"
  /\ UNCHANGED <<sent, total, limit, got, told, answer>>

\* Any other request reaches the application.
Enter(length) ==
  /\ stage = "arriving" /\ (length = NoLength \/ ~Limited \/ length <= Cap)
  /\ stage' = "running"
  /\ UNCHANGED <<sent, total, limit, got, told, answer, wire, counted>>

\* Another part of the body arrives.
ClientSends(n) ==
  /\ stage = "running" /\ total + n <= MaxBody
  /\ sent' = Append(sent, n) /\ total' = total + n
  /\ UNCHANGED <<stage, limit, got, told, answer, wire, counted>>

\* The application reads until it is told of a disconnect; one that reads on gets what
\* comes after the overflow.
Reads == told => ReadsOn /\ limit.tripped

\* Slip: a part is checked against the cap before it is added.
ReceiveLate ==
  /\ stage = "running" /\ sent # <<>> /\ Reads
  /\ sent' = Tail(sent)
  /\ LET seen == limit.seen + Head(sent)
         over == Limited /\ limit.seen > Cap /\ ~limit.tripped
     IN /\ limit' = [seen |-> seen, started |-> limit.started \/ over,
                     tripped |-> limit.tripped \/ over]
        /\ wire' = IF over /\ ~limit.started THEN wire \o Rejection ELSE wire
        /\ got' = IF over THEN got ELSE got + Head(sent)
        /\ told' = (told \/ over)
  /\ UNCHANGED <<stage, total, answer, counted>>

\* recv_wrapper: the application reads a part.  The part that goes over the cap is
\* replaced by http.disconnect, after a 413 unless the answer has begun.
Receive ==
  /\ stage = "running" /\ sent # <<>> /\ Reads
  /\ sent' = Tail(sent)
  /\ LET seen == limit.seen + Head(sent)
         over == Limited /\ seen > Cap /\ ~limit.tripped
     IN /\ limit' = [seen |-> seen, started |-> limit.started \/ over,
                     tripped |-> limit.tripped \/ over]
        /\ wire' = IF over /\ ~limit.started THEN wire \o Rejection ELSE wire
        /\ got' = IF over THEN got ELSE got + Head(sent)
        /\ told' = (told \/ over)
  /\ UNCHANGED <<stage, total, answer, counted>>

\* The client goes away; the application is told when it reads.
Disconnect ==
  /\ stage = "running" /\ ~told
  /\ told' = TRUE
  /\ UNCHANGED <<stage, sent, total, limit, got, answer, wire, counted>>

\* send_wrapper swallows what comes after the overflow.
Swallowed == limit.tripped

\* The application begins its answer, which gets the security headers and the request
\* id on its way out.
Begin(status) ==
  /\ stage = "running" /\ answer = "none"
  /\ answer' = "begun"
  /\ IF Swallowed THEN UNCHANGED <<limit, wire>>
     ELSE /\ limit' = [limit EXCEPT !.started = TRUE]
          /\ wire' = Append(wire, Start(status, TRUE, TRUE))
  /\ UNCHANGED <<stage, sent, total, got, told, counted>>

\* It writes a part of the answer's body; MaxParts bounds those that are not the last.
MaxParts == 1
Write(last) ==
  /\ stage = "running" /\ answer = "begun"
  /\ last \/ Len(wire) <= MaxParts
  /\ answer' = IF last THEN "ended" ELSE "begun"
  /\ wire' = IF Swallowed THEN wire ELSE Append(wire, Body(last))
  /\ UNCHANGED <<stage, sent, total, limit, got, told, counted>>

\* The application returns, its answer complete or the client gone.
Return ==
  /\ stage = "running"
  /\ told \/ answer = "ended"
  /\ Count(wire)
  /\ stage' = "over"
  /\ UNCHANGED <<sent, total, limit, got, told, answer, wire>>

\* It raises: the request is counted, and the framework answers outside of all the
\* middleware if no answer has begun.
Raise ==
  /\ stage = "running"
  /\ Count(wire)
  /\ stage' = "over"
  /\ wire' = IF Starts(wire) = {} THEN <<Start(500, FALSE, FALSE), LastPart>> ELSE wire
  /\ UNCHANGED <<sent, total, limit, got, told, answer>>

EdgeNext ==
  \/ \E length \in {NoLength} \cup 0 .. Cap + 1 : Declared(length) \/ Enter(length)
  \/ \E n \in Sizes : ClientSends(n)
  \/ Receive \/ Disconnect
  \/ \E status \in Statuses : Begin(status)
  \/ \E last \in BOOLEAN : Write(last)
  \/ Return \/ Raise

EdgeSpec == EdgeInit /\ [][EdgeNext]_edgeVars

-------------------------------------------------------------------------------
(* Properties *)

\* Types of the pipeline.
EdgeTypeOK ==
  /\ stage \in {"arriving", "running", "over"}
  /\ sent \in Seq(Sizes) /\ total \in 0 .. MaxBody
  /\ limit \in [seen : 0 .. MaxBody, started : BOOLEAN, tripped : BOOLEAN]
  /\ got \in 0 .. MaxBody /\ told \in BOOLEAN /\ answer \in {"none", "begun", "ended"}
  /\ Len(counted) <= 1

\* The client gets one answer: at most one start, with everything else after it and
\* nothing after its end, whatever the application writes while its body is rejected;
\* and the answer the request is counted with is the one the client got.
OneAnswer ==
  /\ Starts(wire) \subseteq {1}
  /\ wire # <<>> => 1 \in Starts(wire)
  /\ \A i \in 1 .. Len(wire) - 1 : wire[i] # LastPart
  /\ stage = "over" =>
       Len(counted) = 1 /\ \A i \in Starts(wire) : counted[1] = wire[i].status

\* An application that does not read on is never handed more than the cap, however the
\* body is cut.
CapHolds == Limited /\ ~ReadsOn => got <= Cap

\* Both: one answer to the client, and no body beyond the cap to the application.
EdgeHolds == OneAnswer /\ CapHolds
===============================================================================
