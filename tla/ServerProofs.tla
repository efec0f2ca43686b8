------------------------------ MODULE ServerProofs -----------------------------
(***************************************************************************)
(* What one process of the API keeps, for every number of sessions, parts  *)
(* of a body, artifacts, starts and operations: a session that ended stays *)
(* ended, a request gets one answer, what serves was verified, one loop    *)
(* samples, and the trails of the security registry are complete.          *)
(***************************************************************************)
EXTENDS AdminSession, EdgePipeline, StartupGate, RuntimeCollector, ZeroTrust,
        FiniteSetTheorems, SequenceTheorems, TLAPS

(* Sessions *)

\* The inductive invariant: a session that ended is not in the table any more, or
\* waits there, out of time, to be forgotten; what was never used never ended.
SessionInv ==
  /\ table \in [Sessions -> Int]
  /\ cookie \in [Browsers -> used \cup {NoCookie}]
  /\ used \subseteq Sessions /\ ended \subseteq used
  /\ \A s \in Sessions : table[s] > 0 => s \in used
  /\ \A s \in ended : table[s] <= 0
  /\ passed \notin ended

\* A request that only asks about its browser's session.
LEMMA AskKeeps ==
  ASSUME SessionInv, NEW b \in Browsers,
         Asked(cookie[b]), Let(cookie[b], Live(cookie[b])), UNCHANGED <<cookie, used, ended>>
  PROVE  SessionInv'
<1>1. NoCookie \notin ended
  BY SessionAssumption DEF SessionInv
<1>2. table' \in [Sessions -> Int] /\ \A s \in Sessions : table'[s] <= table[s]
  BY DEF SessionInv, Asked, None
<1>3. passed' \notin ended
  BY <1>1 DEF SessionInv, Let, Live
<1> QED
  BY <1>2, <1>3 DEF SessionInv

\* Every step keeps the invariant.
LEMMA SessionStep == SessionInv /\ [SessionNext]_sessionVars => SessionInv'
<1> SUFFICES ASSUME SessionInv, [SessionNext]_sessionVars  PROVE SessionInv'
  OBVIOUS
<1>0. NoCookie \notin Sessions /\ SessionTtl \in Nat /\ SessionTtl > 0 /\ None \in Int
  BY SessionAssumption DEF None
<1>1. ASSUME NEW b \in Browsers, NEW s \in Sessions, Login(b, s)  PROVE SessionInv'
  BY <1>0, <1>1 DEF Login, SessionInv
<1>2. ASSUME NEW b \in Browsers, Me(b) \/ CallWithKeys(b)  PROVE SessionInv'
  BY <1>2, AskKeeps DEF Me, CallWithKeys
<1>3. ASSUME NEW b \in Browsers, Logout(b)  PROVE SessionInv'
  <2>1. CASE cookie[b] = NoCookie
    BY <1>0, <1>3, <2>1 DEF Logout, SessionInv
  <2>2. CASE cookie[b] # NoCookie
    <3>1. cookie[b] \in Sessions /\ cookie[b] \in used
      BY <2>2 DEF SessionInv
    <3>2. /\ table' = [table EXCEPT ![cookie[b]] = None] /\ ended' = ended \cup {cookie[b]}
          /\ cookie' = [cookie EXCEPT ![b] = NoCookie] /\ passed' = NoCookie
          /\ used' = used
      BY <1>3, <2>2 DEF Logout
    <3>3. /\ table' \in [Sessions -> Int] /\ table'[cookie[b]] <= 0
          /\ \A s \in Sessions : table'[s] = table[s] \/ s = cookie[b]
      BY <1>0, <3>1, <3>2 DEF SessionInv, None
    <3> QED
      BY <1>0, <3>1, <3>2, <3>3 DEF SessionInv
  <2> QED
    BY <2>1, <2>2
<1>4. ASSUME NEW b \in Browsers, NEW other \in Browsers, Share(b, other)  PROVE SessionInv'
  BY <1>0, <1>4 DEF Share, SessionInv
<1>5. CASE CallWithoutKeys
  BY <1>0, <1>5 DEF CallWithoutKeys, SessionInv
<1>6. CASE SessionTick
  BY <1>0, <1>6 DEF SessionTick, SessionInv
<1>7. CASE UNCHANGED sessionVars
  BY <1>7 DEF sessionVars, SessionInv
<1> QED
  BY <1>1, <1>2, <1>3, <1>4, <1>5, <1>6, <1>7 DEF SessionNext

\* No request is let through with a session that was logged out, in any window, or ran
\* out of time (revoke_session, valid_session).
THEOREM SessionsEnd == SessionSpec => []EndedStaysEnded
<1>1. SessionInit => SessionInv
  BY SessionAssumption DEF SessionInit, SessionInv, None
<1>2. SessionInv => EndedStaysEnded
  BY DEF SessionInv, EndedStaysEnded
<1> QED
  BY <1>1, <1>2, SessionStep, PTL DEF SessionSpec

\* The table never holds a session for longer than its time, a browser only holds cookies of
\* sessions that were created, and what ended or lets a request through was created before.
THEOREM SessionsTyped == SessionSpec => []SessionTypeOK
<1> DEFINE Sized == /\ settings \in Settings /\ warned \in BOOLEAN
                    /\ \A s \in Sessions : table[s] >= None /\ table[s] <= SessionTtl
                    /\ passed \in used \cup {NoCookie}
<1>0. NoCookie \notin Sessions /\ SessionTtl \in Nat /\ SessionTtl > 0
  BY SessionAssumption
<1>1. SessionInit => SessionInv /\ Sized
  <2> SUFFICES ASSUME SessionInit  PROVE SessionInv /\ Sized
    OBVIOUS
  <2>1. \A s \in Sessions : table[s] >= None /\ table[s] <= SessionTtl
    BY <1>0 DEF SessionInit, None
  <2>2. SessionInv
    BY SessionAssumption DEF SessionInit, SessionInv, None
  <2>3. settings \in Settings /\ warned \in BOOLEAN /\ passed \in used \cup {NoCookie}
    BY DEF SessionInit
  <2> QED  BY <2>1, <2>2, <2>3
<1>2. SessionInv /\ Sized /\ [SessionNext]_sessionVars => Sized'
  <2> SUFFICES ASSUME SessionInv, Sized, [SessionNext]_sessionVars  PROVE Sized'
    OBVIOUS
  <2>1. ASSUME NEW b \in Browsers, NEW s \in Sessions, Login(b, s)  PROVE Sized'
    BY <1>0, <2>1 DEF Login, SessionInv, None
  <2>2. ASSUME NEW b \in Browsers, Me(b) \/ CallWithKeys(b)  PROVE Sized'
    <3>1. /\ Asked(cookie[b]) /\ Let(cookie[b], Live(cookie[b]))
          /\ UNCHANGED <<settings, warned, used>>
      BY <2>2 DEF Me, CallWithKeys
    <3>2. \A s \in Sessions : table'[s] >= None /\ table'[s] <= SessionTtl
      BY <1>0, <3>1 DEF Asked, SessionInv, None
    <3>3. passed' \in used' \cup {NoCookie}
      BY <3>1 DEF Let, SessionInv
    <3> QED  BY <3>1, <3>2, <3>3
  <2>3. ASSUME NEW b \in Browsers, Logout(b)  PROVE Sized'
    <3>1. \A s \in Sessions : table'[s] \in {table[s], None}
      BY <2>3 DEF Logout, SessionInv
    <3>2. \A s \in Sessions : table'[s] >= None /\ table'[s] <= SessionTtl
      BY <1>0, <3>1 DEF None
    <3> QED  BY <2>3, <3>2 DEF Logout
  <2>4. ASSUME NEW b \in Browsers, NEW other \in Browsers, Share(b, other)  PROVE Sized'
    BY <2>4 DEF Share
  <2>5. CASE CallWithoutKeys
    BY <2>5 DEF CallWithoutKeys
  <2>6. CASE SessionTick
    <3>1. \A s \in Sessions :
            table[s] \in Int /\ table'[s] = IF table[s] > 0 THEN table[s] - 1 ELSE table[s]
      BY <2>6 DEF SessionTick, SessionInv
    <3>2. \A s \in Sessions : table'[s] >= None /\ table'[s] <= SessionTtl
      BY <1>0, <3>1 DEF None
    <3> QED  BY <2>6, <3>2 DEF SessionTick
  <2>7. CASE UNCHANGED sessionVars
    BY <2>7 DEF sessionVars
  <2> QED
    BY <2>1, <2>2, <2>3, <2>4, <2>5, <2>6, <2>7 DEF SessionNext
<1>3. SessionInv /\ Sized => SessionTypeOK
  BY <1>0 DEF SessionInv, SessionTypeOK, None
<1> HIDE DEF Sized
<1> QED
  BY <1>1, <1>2, <1>3, SessionStep, PTL DEF SessionSpec

-------------------------------------------------------------------------------
(* One request *)

\* What leaves towards the client.
Messages == [type : {"start"}, status : Statuses \cup {413, 500},
             hardened : BOOLEAN, id : BOOLEAN]
              \cup [type : {"body"}, last : BOOLEAN]

\* What leaves towards the client is one answer, or the beginning of one.
OneResponse(messages) ==
  /\ messages \in Seq(Messages)
  /\ messages # <<>> => messages[1].type = "start"
  /\ \A i \in 2 .. Len(messages) : messages[i].type = "body"
  /\ \A i \in 1 .. Len(messages) - 1 : messages[i] # LastPart

\* The answer may still grow.
MayGrow(messages) == \A i \in 1 .. Len(messages) : messages[i] # LastPart

\* The application is handed what the limit has seen, until it is told of a disconnect.
Capped ==
  /\ sent \in Seq(Nat)
  /\ limit \in [seen : Nat, started : BOOLEAN, tripped : BOOLEAN]
  /\ got \in Nat /\ told \in BOOLEAN
  /\ Limited /\ ~ReadsOn => got <= Cap
  /\ ~told => ~limit.tripped /\ got = limit.seen

\* The answer has begun when the limit believes so, and stays open for an application
\* that has not ended it, unless the limit swallows the rest.
Answering ==
  /\ OneResponse(wire)
  /\ stage = "arriving" => wire = <<>> /\ ~limit.started /\ ~limit.tripped /\ answer = "none"
  /\ stage # "over" => counted = <<>> /\ (limit.started <=> wire # <<>>)
  /\ ~limit.tripped /\ answer = "none" => wire = <<>> \/ stage = "over"
  /\ ~limit.tripped /\ answer = "begun" => MayGrow(wire) /\ wire # <<>>
  /\ limit.tripped => limit.started
  /\ stage = "over" => Len(counted) = 1 /\ \A i \in Starts(wire) : counted[1] = wire[i].status

EdgeInv == Capped /\ Answering

\* An answer starts at its first message and nowhere else.
LEMMA StartsFirst ==
  ASSUME NEW messages, OneResponse(messages)
  PROVE  /\ Starts(messages) \subseteq {1}
         /\ messages # <<>> => 1 \in Starts(messages)
         /\ messages # <<>> => LastStart(messages) = 1
<1>1. messages \in Seq(Messages) /\ DOMAIN messages = 1 .. Len(messages)
  BY DEF OneResponse
<1>2. Starts(messages) \subseteq {1}
  BY <1>1 DEF Starts, OneResponse
<1>3. messages # <<>> => 1 \in Starts(messages)
  BY <1>1 DEF Starts, OneResponse
<1>4. ASSUME messages # <<>>  PROVE LastStart(messages) = 1
  <2>1. Starts(messages) = {1}
    BY <1>2, <1>3, <1>4
  <2> QED
    BY <2>1 DEF LastStart
<1> QED
  BY <1>2, <1>3, <1>4

\* A request is counted once, with the status it was answered with.
LEMMA CountTells ==
  ASSUME counted = <<>>, NEW messages, OneResponse(messages), messages # <<>>, Count(messages)
  PROVE  Len(counted') = 1 /\ \A i \in Starts(messages) : counted'[1] = messages[i].status
<1>1. counted' = Append(<<>>, messages[1].status)
  BY StartsFirst DEF Count
<1>2. Len(counted') = 1 /\ counted'[1] = messages[1].status
  BY <1>1
<1> QED
  BY <1>2, StartsFirst

\* The middleware's rejection is an answer.
LEMMA RejectionAnswers == OneResponse(Rejection) /\ Rejection # <<>>
  BY DEF OneResponse, Rejection, Start, Body, LastPart, Messages

\* What the application adds to an open answer leaves an answer.
LEMMA AppendAnswers ==
  ASSUME NEW messages, OneResponse(messages), MayGrow(messages), messages # <<>>,
         NEW last \in BOOLEAN
  PROVE  /\ OneResponse(Append(messages, Body(last)))
         /\ Append(messages, Body(last)) # <<>>
         /\ ~last => MayGrow(Append(messages, Body(last)))
<1> DEFINE piece == Body(last)
           more == Append(messages, piece)
<1>1. /\ messages \in Seq(Messages) /\ Len(messages) \in Nat
      /\ piece \in Messages /\ piece.type = "body"
      /\ ~last => piece # LastPart
  BY DEF OneResponse, Body, LastPart, Messages
<1> HIDE DEF piece
<1>2. /\ more \in Seq(Messages) /\ Len(more) = Len(messages) + 1
      /\ \A i \in 1 .. Len(messages) : more[i] = messages[i]
      /\ more[Len(messages) + 1] = piece
  BY <1>1
<1>3. Len(messages) >= 1
  BY <1>1
<1> HIDE DEF more
<1>4. /\ \A i \in 2 .. Len(messages) : messages[i].type = "body"
      /\ \A i \in 1 .. Len(messages) : messages[i] # LastPart
      /\ messages[1].type = "start"
  BY <1>1 DEF OneResponse, MayGrow
<1>5. /\ more # <<>> /\ more[1].type = "start"
      /\ \A i \in 2 .. Len(more) : more[i].type = "body"
      /\ \A i \in 1 .. Len(more) - 1 : more[i] # LastPart
  BY <1>1, <1>2, <1>3, <1>4
<1>6. ~last => \A i \in 1 .. Len(more) : more[i] # LastPart
  BY <1>1, <1>2, <1>4
<1> QED
  BY <1>2, <1>5, <1>6 DEF OneResponse, MayGrow, more, piece

\* So does its beginning.
LEMMA BeginAnswers ==
  ASSUME NEW status \in Statuses, NEW hardened \in BOOLEAN, NEW id \in BOOLEAN
  PROVE  /\ OneResponse(<<Start(status, hardened, id)>>)
         /\ MayGrow(<<Start(status, hardened, id)>>)
<1> DEFINE first == Start(status, hardened, id)
           messages == <<first>>
<1>1. first \in Messages /\ first.type = "start" /\ first # LastPart
  BY DEF Start, Messages, Body, LastPart
<1> HIDE DEF first
<1>2. messages \in Seq(Messages) /\ Len(messages) = 1 /\ messages[1] = first
  BY <1>1
<1> HIDE DEF messages
<1>3. OneResponse(messages) /\ MayGrow(messages)
  BY <1>1, <1>2 DEF OneResponse, MayGrow
<1> QED
  BY <1>3 DEF messages, first

\* Only a read hands over bytes, and none beyond the cap.
LEMMA CappedStep ==
  ASSUME Capped, [EdgeNext]_edgeVars
  PROVE  Capped'
<1>1. ASSUME NEW n \in Sizes, ClientSends(n)  PROVE Capped'
  BY <1>1, EdgeAssumption DEF ClientSends, Capped
<1>2. CASE Receive
  <2> DEFINE piece == Head(sent)
             seen == limit.seen + piece
             over == Limited /\ seen > Cap /\ ~limit.tripped
  <2>1. /\ piece \in Nat /\ Tail(sent) \in Seq(Nat) /\ limit.seen \in Nat /\ seen \in Nat
        /\ limit.started \in BOOLEAN /\ limit.tripped \in BOOLEAN
        /\ told => ReadsOn
    BY <1>2 DEF Receive, Reads, Capped
  <2>2. /\ sent' = Tail(sent) /\ told' = (told \/ over)
        /\ limit' = [seen |-> seen, started |-> limit.started \/ over,
                     tripped |-> limit.tripped \/ over]
        /\ got' = IF over THEN got ELSE got + piece
    BY <1>2 DEF Receive
  <2>3. limit'.seen = seen /\ limit'.tripped = (limit.tripped \/ over)
    BY <2>2
  <2>4. limit' \in [seen : Nat, started : BOOLEAN, tripped : BOOLEAN]
    BY <2>1, <2>2
  <2>5. got' \in Nat /\ told' \in BOOLEAN
    BY <2>1, <2>2 DEF Capped
  <2>6. ~told' => ~limit'.tripped /\ got' = limit'.seen
    BY <2>1, <2>2, <2>3 DEF Capped
  <2>7. ASSUME Limited, ~ReadsOn  PROVE got' <= Cap
    <3>1. ~told /\ got <= Cap /\ got = limit.seen /\ ~limit.tripped /\ got \in Nat
      BY <2>1, <2>7 DEF Capped
    <3> QED
      BY <2>1, <2>2, <2>7, <3>1, EdgeAssumption DEF Limited
  <2> QED
    BY <2>1, <2>2, <2>4, <2>5, <2>6, <2>7 DEF Capped
<1>3. ASSUME NEW status \in Statuses, Begin(status)  PROVE Capped'
  <2>1. CASE Swallowed
    BY <1>3, <2>1 DEF Begin, Capped
  <2>2. CASE ~Swallowed
    BY <1>3, <2>2 DEF Begin, Capped
  <2> QED
    BY <2>1, <2>2
<1>4. ASSUME NEW last \in BOOLEAN, Write(last)  PROVE Capped'
  BY <1>4 DEF Write, Capped
<1>5. ASSUME NEW length, Declared(length) \/ Enter(length)  PROVE Capped'
  BY <1>5 DEF Declared, Enter, Capped
<1>6. CASE Disconnect \/ Return \/ Raise \/ UNCHANGED edgeVars
  BY <1>6 DEF Disconnect, Return, Raise, edgeVars, Capped
<1> QED
  BY <1>1, <1>2, <1>3, <1>4, <1>5, <1>6 DEF EdgeNext

\* What leaves towards the client stays one answer, counted as it was given.
LEMMA AnsweringStep ==
  ASSUME EdgeInv, [EdgeNext]_edgeVars
  PROVE  Answering'
<1> USE DEF EdgeInv
<1>1. ASSUME NEW length, Declared(length)  PROVE Answering'
  <2>1. wire' = Rejection /\ Count(wire') /\ stage' = "over" /\ counted = <<>>
        /\ UNCHANGED <<limit, answer>> /\ ~limit.tripped /\ answer = "none"
    BY <1>1 DEF Declared, Answering
  <2>2. Len(counted') = 1 /\ \A i \in Starts(wire') : counted'[1] = wire'[i].status
    BY <2>1, RejectionAnswers, CountTells
  <2> QED
    BY <2>1, <2>2, RejectionAnswers DEF Answering
<1>2. ASSUME NEW length, Enter(length)  PROVE Answering'
  BY <1>2 DEF Enter, Answering
<1>3. ASSUME NEW n \in Sizes, ClientSends(n)  PROVE Answering'
  BY <1>3 DEF ClientSends, Answering
<1>4. CASE Receive
  <2> DEFINE over == Limited /\ limit.seen + Head(sent) > Cap /\ ~limit.tripped
  <2>1. /\ stage = "running" /\ counted = <<>>
        /\ (limit.started <=> wire # <<>>)
        /\ UNCHANGED <<stage, answer, counted>>
        /\ limit'.started = (limit.started \/ over)
        /\ limit'.tripped = (limit.tripped \/ over)
        /\ wire' = IF over /\ ~limit.started THEN wire \o Rejection ELSE wire
    BY <1>4 DEF Receive, Answering, Capped
  <2>2. CASE over /\ ~limit.started
    <3>1. wire = <<>> /\ wire' = <<>> \o Rejection
      BY <2>1, <2>2
    <3>2. <<>> \o Rejection = Rejection
      BY DEF Rejection
    <3> QED
      BY <2>1, <2>2, <3>1, <3>2, RejectionAnswers DEF Answering
  <2>3. CASE ~(over /\ ~limit.started)
    BY <2>1, <2>3 DEF Answering
  <2> QED
    BY <2>2, <2>3
<1>5. CASE Disconnect
  BY <1>5 DEF Disconnect, Answering
<1>6. ASSUME NEW status \in Statuses, Begin(status)  PROVE Answering'
  <2>1. CASE limit.tripped
    BY <1>6, <2>1 DEF Begin, Swallowed, Answering
  <2>2. CASE ~limit.tripped
    <3>1. /\ wire = <<>> /\ stage = "running" /\ counted = <<>>
          /\ wire' = Append(wire, Start(status, TRUE, TRUE)) /\ answer' = "begun"
          /\ limit' = [limit EXCEPT !.started = TRUE] /\ UNCHANGED <<stage, counted>>
      BY <1>6, <2>2 DEF Begin, Swallowed, Answering
    <3>2. wire' = <<Start(status, TRUE, TRUE)>> /\ wire' # <<>>
      BY <3>1
    <3>3. limit'.started = TRUE /\ limit'.tripped = limit.tripped
      BY <3>1 DEF Capped
    <3> QED
      BY <2>2, <3>1, <3>2, <3>3, BeginAnswers DEF Answering
  <2> QED
    BY <2>1, <2>2
<1>7. ASSUME NEW last \in BOOLEAN, Write(last)  PROVE Answering'
  <2>1. CASE limit.tripped
    BY <1>7, <2>1 DEF Write, Swallowed, Answering
  <2>2. CASE ~limit.tripped
    <3>1. /\ MayGrow(wire) /\ wire # <<>> /\ OneResponse(wire) /\ stage = "running"
          /\ wire' = Append(wire, Body(last))
          /\ answer' = IF last THEN "ended" ELSE "begun"
          /\ counted = <<>> /\ limit.started
          /\ UNCHANGED <<stage, limit, counted>>
      BY <1>7, <2>2 DEF Write, Swallowed, Answering
    <3> QED
      BY <2>2, <3>1, AppendAnswers DEF Answering
  <2> QED
    BY <2>1, <2>2
<1>8. CASE Return
  <2>1. /\ stage' = "over" /\ Count(wire) /\ counted = <<>> /\ OneResponse(wire)
        /\ UNCHANGED <<limit, answer, wire>>
    BY <1>8 DEF Return, Answering
  <2>2. Len(counted') = 1 /\ \A i \in Starts(wire) : counted'[1] = wire[i].status
    <3>1. CASE wire = <<>>
      BY <2>1, <3>1 DEF Count, Starts
    <3>2. CASE wire # <<>>
      BY <2>1, <3>2, CountTells
    <3> QED
      BY <3>1, <3>2
  <2> QED
    BY <2>1, <2>2 DEF Answering, Starts
<1>9. CASE Raise
  <2>1. /\ stage' = "over" /\ Count(wire) /\ counted = <<>> /\ OneResponse(wire)
        /\ UNCHANGED <<limit, answer>> /\ stage = "running"
    BY <1>9 DEF Raise, Answering
  <2>2. CASE wire # <<>>
    <3>1. wire' = wire
      BY <1>9, <2>1, <2>2, StartsFirst DEF Raise
    <3>2. Len(counted') = 1 /\ \A i \in Starts(wire) : counted'[1] = wire[i].status
      BY <2>1, <2>2, CountTells
    <3> QED
      BY <2>1, <2>2, <3>1, <3>2 DEF Answering, Starts
  <2>3. CASE wire = <<>>
    <3>1. Starts(wire) = {} /\ counted' = <<500>>
      BY <2>1, <2>3 DEF Starts, Count
    <3>2. wire' = <<Start(500, FALSE, FALSE), Body(TRUE)>>
      BY <1>9, <3>1 DEF Raise, LastPart
    <3>3. OneResponse(wire') /\ wire' # <<>> /\ wire'[1].status = 500
      BY <3>2 DEF OneResponse, Start, Body, LastPart, Messages
    <3>4. Starts(wire') \subseteq {1}
      BY <3>3, StartsFirst
    <3>5. ~limit.started /\ ~limit.tripped /\ answer # "begun"
      BY <2>1, <2>3 DEF Answering
    <3> QED
      BY <2>1, <3>1, <3>3, <3>4, <3>5 DEF Answering
  <2> QED
    BY <2>2, <2>3
<1>10. CASE UNCHANGED edgeVars
  BY <1>10 DEF edgeVars, Answering, Starts
<1> QED
  BY <1>1, <1>2, <1>3, <1>4, <1>5, <1>6, <1>7, <1>8, <1>9, <1>10 DEF EdgeNext

LEMMA EdgeInvariant == EdgeSpec => []EdgeInv
<1>1. EdgeInit => EdgeInv
  <2>1. ASSUME EdgeInit  PROVE Capped
    <3>1. /\ sent = <<>> /\ got = 0 /\ told = FALSE
          /\ limit = [seen |-> 0, started |-> FALSE, tripped |-> FALSE]
      BY <2>1 DEF EdgeInit
    <3>2. limit.seen = 0 /\ ~limit.tripped
          /\ limit \in [seen : Nat, started : BOOLEAN, tripped : BOOLEAN]
      BY <3>1
    <3>3. Limited => 0 <= Cap
      BY EdgeAssumption DEF Limited
    <3>4. sent \in Seq(Nat)
      BY <3>1
    <3>6. got \in Nat /\ told \in BOOLEAN
      BY <3>1
    <3>5. Limited /\ ~ReadsOn => got <= Cap
      BY <3>1, <3>3
    <3> QED
      BY <3>1, <3>2, <3>4, <3>5, <3>6 DEF Capped
  <2>2. EdgeInit => Answering
    BY DEF EdgeInit, Answering, OneResponse, MayGrow
  <2> QED
    BY <2>1, <2>2 DEF EdgeInv
<1>2. EdgeInv /\ [EdgeNext]_edgeVars => EdgeInv'
  BY CappedStep, AnsweringStep DEF EdgeInv
<1> QED
  BY <1>1, <1>2, PTL DEF EdgeSpec

\* For every cap and every way a body is cut into parts: the application is handed no
\* more than the cap, and the client gets one answer, the one the request is counted
\* with (BodySizeLimitMiddleware, ObservabilityMiddleware).
THEOREM EdgeKeeps == EdgeSpec => []EdgeHolds
<1>1. EdgeInv => EdgeHolds
  BY StartsFirst DEF EdgeInv, Capped, Answering, OneResponse, EdgeHolds, OneAnswer, CapHolds
<1> QED
  BY <1>1, EdgeInvariant, PTL

\* A body of parts, its first byte the one after `from`, its last byte number `to`: the
\* places where its parts end lie in order between the two.
Spans(parts, from, to) ==
  \E at \in [0 .. Len(parts) -> 0 .. MaxBody] :
    /\ at[0] = from /\ at[Len(parts)] = to
    /\ \A i \in 1 .. Len(parts) : at[i] = at[i - 1] + parts[i]

LEMMA SpansLonger ==
  ASSUME NEW parts \in Seq(Sizes), NEW from, NEW to \in 0 .. MaxBody, Spans(parts, from, to),
         NEW n \in Sizes, to + n <= MaxBody, MaxBody \in Nat
  PROVE  Spans(Append(parts, n), from, to + n)
<1>. DEFINE longer == Append(parts, n)
            L == Len(parts)
<1>1. PICK at \in [0 .. L -> 0 .. MaxBody] :
        /\ at[0] = from /\ at[L] = to
        /\ \A i \in 1 .. L : at[i] = at[i - 1] + parts[i]
  BY DEF Spans
<1>2. /\ L \in Nat /\ Len(longer) = L + 1 /\ longer[L + 1] = n /\ n \in Nat
      /\ \A i \in 1 .. L : longer[i] = parts[i]
  BY EdgeAssumption
<1>. DEFINE further == [i \in 0 .. L + 1 |-> IF i = L + 1 THEN to + n ELSE at[i]]
<1>. HIDE DEF L, longer
<1>3. further \in [0 .. L + 1 -> 0 .. MaxBody]
  BY <1>1, <1>2
<1>4. further[0] = from /\ further[L + 1] = to + n
  BY <1>1, <1>2
<1>5. ASSUME NEW i \in 1 .. L + 1  PROVE further[i] = further[i - 1] + longer[i]
  <2>1. CASE i = L + 1
    <3>1. further[i] = to + n /\ further[i - 1] = at[L] /\ longer[i] = n
      BY <1>2, <2>1
    <3>. QED  BY <1>1, <3>1
  <2>2. CASE i \in 1 .. L
    <3>1. further[i] = at[i] /\ further[i - 1] = at[i - 1] /\ longer[i] = parts[i]
      BY <1>2, <2>2
    <3>. QED  BY <1>1, <2>2, <3>1
  <2>. QED  BY <1>2, <2>1, <2>2
<1>. HIDE DEF further
<1>. QED  BY <1>2, <1>3, <1>4, <1>5 DEF Spans, longer, L

LEMMA SpansShorter ==
  ASSUME NEW parts \in Seq(Sizes), parts # <<>>, NEW from, NEW to, Spans(parts, from, to),
         MaxBody \in Nat
  PROVE  /\ Spans(Tail(parts), from + Head(parts), to)
         /\ from + Head(parts) \in 0 .. MaxBody
<1>. DEFINE L == Len(parts)
            rest == Tail(parts)
<1>1. PICK at \in [0 .. L -> 0 .. MaxBody] :
        /\ at[0] = from /\ at[L] = to
        /\ \A i \in 1 .. L : at[i] = at[i - 1] + parts[i]
  BY DEF Spans
<1>2. /\ L \in Nat \ {0} /\ Len(rest) = L - 1 /\ Head(parts) = parts[1]
      /\ \A i \in 1 .. L - 1 : rest[i] = parts[i + 1]
  OBVIOUS
<1>. DEFINE later == [i \in 0 .. L - 1 |-> at[i + 1]]
<1>. HIDE DEF L, rest
<1>3. at[1] = from + Head(parts) /\ at[1] \in 0 .. MaxBody
  BY <1>1, <1>2
<1>4. later \in [0 .. L - 1 -> 0 .. MaxBody] /\ later[0] = at[1] /\ later[L - 1] = to
  BY <1>1, <1>2
<1>5. ASSUME NEW i \in 1 .. L - 1  PROVE later[i] = later[i - 1] + rest[i]
  <2>1. later[i] = at[i + 1] /\ later[i - 1] = at[i] /\ rest[i] = parts[i + 1]
    BY <1>2, SMTT(30)
  <2>2. i + 1 \in 1 .. L /\ (i + 1) - 1 = i
    BY <1>2
  <2>. QED  BY <1>1, <2>1, <2>2
<1>. HIDE DEF later
<1>. QED  BY <1>2, <1>3, <1>4, <1>5 DEF Spans, rest, L

\* The types of a request: what the limit has seen and what waits to be read make up what
\* the client has sent, so no count ever exceeds that, and a request is counted once at most.
THEOREM EdgeTyped == ASSUME MaxBody \in Nat PROVE EdgeSpec => []EdgeTypeOK
<1>. DEFINE Read == /\ sent \in Seq(Sizes) /\ total \in 0 .. MaxBody
                    /\ limit.seen \in 0 .. MaxBody /\ got <= limit.seen
                    /\ Spans(sent, limit.seen, total)
            Phases == /\ stage \in {"arriving", "running", "over"} /\ told \in BOOLEAN
                      /\ answer \in {"none", "begun", "ended"}
<1>1. EdgeInit => Read /\ Phases
  <2>. SUFFICES ASSUME EdgeInit  PROVE Read /\ Phases
    OBVIOUS
  <2>1. Spans(<<>>, 0, 0)
    <3>. DEFINE at == [i \in 0 .. 0 |-> 0]
    <3>1. at \in [0 .. 0 -> 0 .. MaxBody] /\ at[0] = 0 /\ Len(<<>>) = 0
      OBVIOUS
    <3>2. \A i \in 1 .. 0 : FALSE
      OBVIOUS
    <3>. HIDE DEF at
    <3>. QED  BY <3>1, <3>2 DEF Spans
  <2>2. /\ sent = <<>> /\ total = 0 /\ limit.seen = 0 /\ got = 0 /\ 0 \in 0 .. MaxBody
        /\ stage = "arriving" /\ told = FALSE /\ answer = "none" /\ sent \in Seq(Sizes)
    BY DEF EdgeInit
  <2>3. Read
    BY <2>1, <2>2
  <2>4. Phases
    BY <2>2
  <2>. QED  BY <2>3, <2>4
<1>2. EdgeInv /\ Read /\ [EdgeNext]_edgeVars => Read'
  <2>. SUFFICES ASSUME EdgeInv, Read, [EdgeNext]_edgeVars  PROVE Read'
    OBVIOUS
  <2>0. /\ limit \in [seen : Nat, started : BOOLEAN, tripped : BOOLEAN] /\ got \in Nat
        /\ Sizes \subseteq Nat
    BY EdgeAssumption DEF EdgeInv, Capped
  <2>1. ASSUME NEW n \in Sizes, ClientSends(n)  PROVE Read'
    <3>1. /\ total + n <= MaxBody /\ sent' = Append(sent, n) /\ total' = total + n
          /\ limit' = limit /\ got' = got
      BY <2>1 DEF ClientSends
    <3>2. Spans(sent', limit.seen, total')
      BY <3>1, SpansLonger
    <3>3. sent' \in Seq(Sizes) /\ total' \in 0 .. MaxBody
      BY <2>0, <3>1
    <3>. QED  BY <3>1, <3>2, <3>3
  <2>2. CASE Receive
    <3>1. /\ sent # <<>> /\ sent' = Tail(sent) /\ total' = total
          /\ limit'.seen = limit.seen + Head(sent)
          /\ got' \in {got, got + Head(sent)}
      <4>. DEFINE over == Limited /\ limit.seen + Head(sent) > Cap /\ ~limit.tripped
      <4>1. /\ sent # <<>> /\ sent' = Tail(sent) /\ total' = total
            /\ limit' = [seen |-> limit.seen + Head(sent), started |-> limit.started \/ over,
                         tripped |-> limit.tripped \/ over]
            /\ got' = IF over THEN got ELSE got + Head(sent)
        BY <2>2 DEF Receive
      <4>2. \A x, y, z : [seen |-> x, started |-> y, tripped |-> z].seen = x
        OBVIOUS
      <4>. HIDE DEF over
      <4>3. limit'.seen = limit.seen + Head(sent)
        BY <4>1, <4>2, Zenon
      <4>4. got' \in {got, got + Head(sent)}
        BY <4>1, Zenon
      <4>. QED  BY <4>1, <4>3, <4>4, Zenon
    <3>2. Head(sent) \in Nat /\ Tail(sent) \in Seq(Sizes)
      <4>1. sent \in Seq(Sizes) /\ sent # <<>>
        BY <3>1
      <4>. HIDE DEF Read
      <4>2. Head(sent) \in Sizes /\ Tail(sent) \in Seq(Sizes)
        BY <4>1, HeadTailProperties
      <4>. QED  BY <2>0, <4>2
    <3>3. Spans(sent', limit'.seen, total') /\ limit'.seen \in 0 .. MaxBody
      BY <3>1, SpansShorter
    <3>4. got' <= limit'.seen
      BY <2>0, <3>1, <3>2
    <3>. QED  BY <3>1, <3>2, <3>3, <3>4
  <2>3. ASSUME NEW status, Begin(status)  PROVE Read'
    <3>1. limit'.seen = limit.seen /\ UNCHANGED <<sent, total, got>>
      BY <2>0, <2>3 DEF Begin
    <3>. QED  BY <3>1
  <2>4. CASE UNCHANGED <<sent, total, limit, got>>
    BY <2>4
  <2>. QED
    BY <2>1, <2>2, <2>3, <2>4
       DEF EdgeNext, edgeVars, Declared, Enter, Disconnect, Write, Return, Raise
<1>3. Phases /\ [EdgeNext]_edgeVars => Phases'
  BY DEF EdgeNext, edgeVars, Declared, Enter, ClientSends, Receive, Disconnect, Begin, Write,
         Return, Raise
<1>4. EdgeInv /\ Read /\ Phases => EdgeTypeOK
  <2>. SUFFICES ASSUME EdgeInv, Read, Phases  PROVE EdgeTypeOK
    OBVIOUS
  <2>1. limit \in [seen : 0 .. MaxBody, started : BOOLEAN, tripped : BOOLEAN]
    <3>1. /\ limit \in [seen : Nat, started : BOOLEAN, tripped : BOOLEAN]
          /\ limit.seen \in 0 .. MaxBody
      BY DEF EdgeInv, Capped
    <3>. QED  BY <3>1
  <2>2. Len(counted) <= 1
    <3>1. stage # "over" => counted = <<>>
      BY DEF EdgeInv, Answering
    <3>2. stage = "over" => Len(counted) = 1
      BY DEF EdgeInv, Answering
    <3>3. Len(<<>>) <= 1 /\ 1 <= 1
      OBVIOUS
    <3>4. counted = <<>> \/ Len(counted) = 1
      BY <3>1, <3>2
    <3>. HIDE DEF Read, Phases
    <3>. QED  BY <3>3, <3>4
  <2>3. got \in 0 .. MaxBody
    BY DEF EdgeInv, Capped
  <2>. QED  BY <2>1, <2>2, <2>3 DEF EdgeTypeOK
<1>. HIDE DEF Read, Phases
<1>. QED  BY <1>1, <1>2, <1>3, <1>4, EdgeInvariant, PTL DEF EdgeSpec

-------------------------------------------------------------------------------
(* The collector *)

\* The inductive invariant.
CollectorInv ==
  /\ running \in BOOLEAN /\ task \in 0 .. MaxStarts
  /\ loop \in [Loops -> {"unborn", "live", "cancelled", "over"}]
  /\ OneSampler

\* Every step keeps it: a stop cancels the loop that samples, whoever is still waiting
\* for an earlier one, and only then a new one is begun.
LEMMA CollectorStep ==
  ASSUME MaxStarts \in Nat, CollectorInv, [CollectorNext]_collectorVars
  PROVE  CollectorInv'
<1> USE DEF CollectorInv, OneSampler, Loops
<1>1. CASE StartCollector
  <2>1. CASE running
    BY <1>1, <2>1 DEF StartCollector
  <2>2. CASE ~running
    <3>1. NextLoop \in Loops /\ loop[NextLoop] = "unborn"
      BY <1>1 DEF StartCollector, MayStart, NextLoop
    <3>2. /\ running' = TRUE /\ task' = NextLoop
          /\ loop' = [loop EXCEPT ![NextLoop] = "live"]
      BY <1>1, <2>2 DEF StartCollector, BeginLoop
    <3>3. {l \in Loops : loop[l] = "live"} = {}
      BY <2>2
    <3>4. {l \in Loops : loop'[l] = "live"} = {NextLoop}
      BY <3>1, <3>2, <3>3
    <3> QED
      BY <3>1, <3>2, <3>4
  <2> QED
    BY <2>1, <2>2
<1>2. ASSUME NEW l \in Loops, Round(l)  PROVE CollectorInv'
  <2>1. loop[l] = "live" /\ running
    BY <1>2 DEF Round
  <2> QED
    BY <1>2, <2>1 DEF Round
<1>3. ASSUME NEW l \in Loops, Cancelled(l)  PROVE CollectorInv'
  <2>1. \A k \in Loops : loop'[k] = "live" <=> loop[k] = "live"
    BY <1>3 DEF Cancelled
  <2> QED
    BY <1>3, <2>1 DEF Cancelled
<1>4. ASSUME NEW c \in Callers, Stop(c)  PROVE CollectorInv'
  <2>1. running' = FALSE /\ task' = task
    BY <1>4 DEF Stop
  <2>2. CASE task = 0 \/ loop[task] = "over"
    <3>1. loop' = loop
      BY <1>4, <2>2 DEF Stop
    <3>2. ~running
      BY <2>2
    <3> QED
      BY <2>1, <3>1, <3>2
  <2>3. CASE ~(task = 0 \/ loop[task] = "over")
    <3>1. loop' = [loop EXCEPT ![task] = "cancelled"] /\ task \in Loops
      BY <1>4, <2>3 DEF Stop
    <3>2. \A l \in Loops : loop[l] = "live" => l = task
      OBVIOUS
    <3>3. {l \in Loops : loop'[l] = "live"} = {}
      BY <3>1, <3>2
    <3> QED
      BY <2>1, <3>1, <3>3
  <2> QED
    BY <2>2, <2>3
<1>5. CASE UNCHANGED <<running, task, loop>>
  BY <1>5
<1> QED
  BY <1>1, <1>2, <1>3, <1>4, <1>5
     DEF CollectorNext, StopReturns, RecordApiCall, RecordModelInference, collectorVars

LEMMA CollectorStarts == ASSUME MaxStarts \in Nat, CollectorInit PROVE CollectorInv
<1>1. running = FALSE /\ task = 0 /\ loop = [l \in Loops |-> "unborn"]
  BY DEF CollectorInit
<1>2. {l \in Loops : loop[l] = "live"} = {}
  <2>1. \A l \in Loops : loop[l] = "unborn"
    BY <1>1
  <2> QED
    BY <2>1
<1>3. loop \in [Loops -> {"unborn", "live", "cancelled", "over"}]
  BY <1>1
<1>4. task \in 0 .. MaxStarts
  BY <1>1, SMT
<1>5. OneSampler
  BY <1>1, <1>2 DEF OneSampler
<1> QED
  BY <1>1, <1>3, <1>4, <1>5 DEF CollectorInv

\* However starts and stops overlap, one loop at most samples, the one that the next stop
\* ends.
THEOREM SamplesAlone == ASSUME MaxStarts \in Nat PROVE CollectorSpec => []OneSampler
<1>1. CollectorInit => CollectorInv
  BY CollectorStarts
<1>2. CollectorInv /\ [CollectorNext]_collectorVars => CollectorInv'
  BY CollectorStep
<1>3. CollectorInv => OneSampler
  BY DEF CollectorInv
<1> QED
  BY <1>1, <1>2, <1>3, PTL DEF CollectorSpec

\* The collector's types: the deque keeps to its bound, a baseline that is taught counts no
\* further, and an anomaly is only ever reported of a metric whose baseline was taught first
\* (_check_metric_anomaly).
THEOREM CollectorTyped ==
  ASSUME MaxStarts \in Nat, MaxEvents \in Nat, Warm \in Nat
  PROVE  CollectorSpec => []CollectorTypeOK
<1> DEFINE Taught == /\ awaited \in [Callers -> 0 .. MaxStarts]
                     /\ kept \in 0 .. MaxEvents
                     /\ samples \in [Metrics -> 0 .. Warm]
                     /\ anomalies \subseteq {m \in Metrics : samples[m] = Warm}
<1>1. CollectorInit => Taught
  BY DEF CollectorInit
<1>2. ASSUME NEW n \in Nat, Taught, Remembered(n)  PROVE kept' \in 0 .. MaxEvents
  BY <1>2 DEF Remembered
<1>3. ASSUME NEW measured \in SUBSET Metrics, NEW odd, Taught, Checked(measured, odd)
      PROVE  /\ samples' \in [Metrics -> 0 .. Warm]
             /\ anomalies' \subseteq {m \in Metrics : samples'[m] = Warm}
  BY <1>3 DEF Checked
<1>4. CollectorInv /\ Taught /\ [CollectorNext]_collectorVars => Taught'
  <2> SUFFICES ASSUME CollectorInv, Taught, [CollectorNext]_collectorVars  PROVE Taught'
    OBVIOUS
  <2>1. ASSUME NEW l \in Loops, Round(l)  PROVE Taught'
    <3>1. CASE UNCHANGED <<kept, samples, anomalies>>
      BY <2>1, <3>1 DEF Round
    <3>2. ASSUME NEW measured \in SUBSET Metrics, NEW connections \in 0 .. 1, NEW odd,
                 Checked(measured, odd), Remembered(Cardinality(measured) + connections)
          PROVE  Taught'
      <4>1. Cardinality(measured) + connections \in Nat
        <5>1. IsFiniteSet(Metrics)
          <6>1. Metrics = {"memory_rss"} \cup {"cpu_percent"} \cup {"thread_count"}
                            \cup {"api_latency"}
            BY DEF Metrics, ProcessMetrics
          <6> QED  BY <6>1, FS_Singleton, FS_Union
        <5>2. Cardinality(measured) \in Nat
          BY <5>1, FS_Subset, FS_CardinalityType
        <5> QED  BY <5>2
      <4> HIDE DEF Taught
      <4>2. /\ kept' \in 0 .. MaxEvents /\ samples' \in [Metrics -> 0 .. Warm]
            /\ anomalies' \subseteq {m \in Metrics : samples'[m] = Warm}
        BY <1>2, <1>3, <3>2, <4>1
      <4>3. awaited' = awaited
        BY <2>1 DEF Round
      <4> QED  BY <4>2, <4>3 DEF Taught
    <3>3. ASSUME NEW process \in BOOLEAN, NEW threads \in BOOLEAN
          PROVE  (IF process THEN ProcessMetrics ELSE {})
                   \cup (IF threads THEN {"thread_count"} ELSE {}) \in SUBSET Metrics
      BY DEF Metrics
    <3> QED  BY <2>1, <3>1, <3>2, <3>3 DEF Round
  <2>2. ASSUME NEW c \in Callers, Stop(c)  PROVE Taught'
    <3>1. awaited' \in [Callers -> 0 .. MaxStarts]
      BY <2>2 DEF Stop, CollectorInv
    <3> QED  BY <2>2, <3>1 DEF Stop
  <2>3. ASSUME NEW c \in Callers, StopReturns(c)  PROVE Taught'
    BY <2>3 DEF StopReturns
  <2>4. ASSUME NEW odd, RecordApiCall(odd)  PROVE Taught'
    <3>1. {"api_latency"} \in SUBSET Metrics
      BY DEF Metrics
    <3>2. Remembered(1) /\ Checked({"api_latency"}, odd) /\ awaited' = awaited
      BY <2>4 DEF RecordApiCall
    <3> HIDE DEF Taught
    <3>3. /\ kept' \in 0 .. MaxEvents /\ samples' \in [Metrics -> 0 .. Warm]
          /\ anomalies' \subseteq {m \in Metrics : samples'[m] = Warm}
      BY <1>2, <1>3, <3>1, <3>2
    <3> QED  BY <3>2, <3>3 DEF Taught
  <2>5. CASE RecordModelInference
    <3>1. kept' \in 0 .. MaxEvents
      BY <1>2, <2>5 DEF RecordModelInference
    <3> QED  BY <2>5, <3>1 DEF RecordModelInference
  <2>6. CASE UNCHANGED <<awaited, kept, samples, anomalies>>
    BY <2>6
  <2> QED
    BY <2>1, <2>2, <2>3, <2>4, <2>5, <2>6
       DEF CollectorNext, StartCollector, BeginLoop, Cancelled, collectorVars
<1>5. CollectorInv /\ Taught => CollectorTypeOK
  BY DEF CollectorInv, CollectorTypeOK
<1>6. CollectorSpec => []CollectorInv
  <2>1. CollectorInit => CollectorInv
    BY CollectorStarts
  <2>2. CollectorInv /\ [CollectorNext]_collectorVars => CollectorInv'
    BY CollectorStep
  <2> QED  BY <2>1, <2>2, PTL DEF CollectorSpec
<1> HIDE DEF Taught
<1> QED
  BY <1>1, <1>4, <1>5, <1>6, PTL DEF CollectorSpec

-------------------------------------------------------------------------------
(* The gate *)

\* The steps by their numbers.
LEMMA Numbered ==
  /\ Number("import") = 1 /\ Number("keys") = 2 /\ Number("store") = 3
  /\ Number("location") = 4 /\ Number("signature") = 5 /\ Number("verify") = 6
  /\ Number("serialization") = 7 /\ Number("security") = 8 /\ Number("models") = 9
  /\ Number("serving") = 10 /\ Number("drain") = 11 /\ Number("close") = 12
  /\ Number("shutdown") = 13 /\ Number("stopped") = 14
<1>1. \A i, j \in 1 .. 14 : Steps[i] = Steps[j] => i = j
  BY DEF Steps
<1>2. \A i \in 1 .. 14 : Number(Steps[i]) = i
  BY <1>1 DEF Number
<1> QED
  BY <1>2 DEF Steps

\* The phases up to a check.
ToKeys == {"import", "keys"}
ToStore == ToKeys \cup {"store"}
ToLocation == ToStore \cup {"location"}
ToSignature == ToLocation \cup {"signature"}
ToSerialization == ToSignature \cup {"verify", "serialization"}

\* What each check of the lifespan has established for the phases behind it, and what the
\* shutdown has stopped.
Established ==
  /\ env.production =>
       /\ phase \notin ToKeys => env.keys
       /\ phase \notin ToStore => env.externalStore
       /\ phase \notin ToLocation => env.manifest = "read-only outside"
       /\ phase \notin ToSignature => env.signature \in {"none", "good"}
       /\ phase \notin ToSerialization => env.sameSklearn
  /\ phase \in {"close", "shutdown", "stopped"} => "inference pool" \notin started
  /\ phase \in {"shutdown", "stopped"} => "store" \notin started
  /\ phase = "stopped" => "collector" \notin started /\ "flush loop" \notin started

\* The inductive invariant.  While models are loaded, a file that was hashed is the listed
\* one until somebody replaces it.
GateInv ==
  /\ env \in Deployments
  /\ phase \in {Steps[i] : i \in 1 .. 14} \cup {"aborted"}
  /\ disk \in [Artifacts -> {"listed", "other", "missing"}]
  /\ hashed \subseteq Artifacts /\ swapped \subseteq Artifacts
  /\ loaded \in [Artifacts -> {NoObject, "listed", "other"}]
  /\ started \subseteq {"inference pool", "store", "collector", "flush loop"}
  /\ \A a \in Artifacts : loaded[a] = "other" => a \in swapped
  /\ Loading => \A a \in hashed : disk[a] = "listed" \/ a \in swapped
  /\ ~Loading /\ phase \notin {"verify", "aborted"} => hashed = {}
  /\ phase # "aborted" => Established

\* Which step follows which.
LEMMA Follows ==
  ASSUME Proceed
  PROVE  /\ phase = "import" => phase' = "keys"
         /\ phase = "keys" => phase' = "store"
         /\ phase = "store" => phase' = "location"
         /\ phase = "location" => phase' = "signature"
         /\ phase = "signature" => phase' = "verify"
         /\ phase = "verify" => phase' = "serialization"
         /\ phase = "serialization" => phase' = "security"
         /\ phase = "security" => phase' = "models"
         /\ phase = "models" => phase' = "serving"
         /\ phase = "serving" => phase' = "drain"
         /\ phase = "drain" => phase' = "close"
         /\ phase = "close" => phase' = "shutdown"
         /\ phase = "shutdown" => phase' = "stopped"
  BY Numbered DEF Proceed, Steps

\* The names of the steps.
StepNames ==
  {"import", "keys", "store", "location", "signature", "verify", "serialization",
   "security", "models", "serving", "drain", "close", "shutdown", "stopped"}

LEMMA StepsNamed == {Steps[i] : i \in 1 .. 14} = StepNames
<1>1. ASSUME NEW i \in 1 .. 14  PROVE Steps[i] \in StepNames
  <2>1. i = 1 \/ i = 2 \/ i = 3 \/ i = 4 \/ i = 5 \/ i = 6 \/ i = 7 \/ i = 8 \/ i = 9 \/ i = 10
        \/ i = 11 \/ i = 12 \/ i = 13 \/ i = 14
    OBVIOUS
  <2> QED
    BY <2>1 DEF Steps, StepNames
<1>2. ASSUME NEW s \in StepNames  PROVE \E i \in 1 .. 14 : Steps[i] = s
  <2>1. /\ Steps[1] = "import" /\ Steps[2] = "keys" /\ Steps[3] = "store"
        /\ Steps[4] = "location" /\ Steps[5] = "signature" /\ Steps[6] = "verify"
        /\ Steps[7] = "serialization" /\ Steps[8] = "security" /\ Steps[9] = "models"
        /\ Steps[10] = "serving" /\ Steps[11] = "drain" /\ Steps[12] = "close"
        /\ Steps[13] = "shutdown" /\ Steps[14] = "stopped"
    BY DEF Steps
  <2>2. \A i \in {1, 2, 3, 4, 5, 6, 7, 8, 9, 10, 11, 12, 13, 14} : i \in 1 .. 14
    OBVIOUS
  <2> HIDE DEF Steps
  <2> QED
    BY <2>1, <2>2 DEF StepNames
<1> QED
  BY <1>1, <1>2

-------------------------------------------------------------------------------
(* Every step keeps it *)

\* A step that replaces nothing and loads nothing, from one phase to another.
LEMMA Checks ==
  ASSUME GateInv, phase \in {"import", "keys", "store", "location", "signature",
                             "serialization", "security"},
         Proceed \/ Raises, Proceed => Established',
         started' \subseteq {"inference pool", "store", "collector", "flush loop"},
         UNCHANGED <<env, disk, rogue, hashed, loaded, swapped, replaced>>
  PROVE  GateInv'
<1>1. hashed = {}
  BY DEF GateInv, Loading
<1>2. phase' \in StepNames \cup {"aborted"}
  BY Follows DEF Raises, StepNames
<1>3. phase' # "aborted" => Established'
  BY DEF Raises
<1> QED
  BY <1>1, <1>2, <1>3, StepsNamed DEF GateInv, Loading

LEMMA ChecksKeep ==
  ASSUME GateInv, ImportGate \/ CheckKeys \/ CheckStore \/ CheckLocation \/ CheckSignature
                  \/ CheckSerialization \/ InitializeSecurity
  PROVE  GateInv'
<1> USE DEF OthersUnchanged, Require, Raises, ToKeys, ToStore, ToLocation, ToSignature,
            ToSerialization
<1>0. phase # "aborted" => Established
  BY DEF GateInv
<1>1. CASE ImportGate
  <2>1. Proceed => Established'
    BY <1>1, Follows DEF ImportGate, Established
  <2> QED
    BY <1>1, <2>1, Checks DEF ImportGate, GateInv
<1>2. CASE CheckKeys
  <2>1. Proceed => Established'
    BY <1>0, <1>2, Follows DEF CheckKeys, Established
  <2> QED
    BY <1>2, <2>1, Checks DEF CheckKeys, GateInv
<1>3. CASE CheckStore
  <2>1. Proceed => Established'
    BY <1>0, <1>3, Follows DEF CheckStore, Established
  <2> QED
    BY <1>3, <2>1, Checks DEF CheckStore, GateInv
<1>4. CASE CheckLocation
  <2>1. Proceed => Established'
    BY <1>0, <1>4, Follows DEF CheckLocation, Established
  <2> QED
    BY <1>4, <2>1, Checks DEF CheckLocation, GateInv
<1>5. CASE CheckSignature
  <2>1. Proceed => Established'
    BY <1>0, <1>5, Follows DEF CheckSignature, Established
  <2> QED
    BY <1>5, <2>1, Checks DEF CheckSignature, GateInv
<1>6. CASE CheckSerialization
  <2>1. Proceed => Established'
    BY <1>0, <1>6, Follows DEF CheckSerialization, Established
  <2> QED
    BY <1>6, <2>1, Checks DEF CheckSerialization, GateInv
<1>7. CASE InitializeSecurity
  <2>1. Proceed => Established'
    BY <1>0, <1>7, Follows DEF InitializeSecurity, Established
  <2> QED
    BY <1>7, <2>1, Checks DEF InitializeSecurity, GateInv
<1> QED
  BY <1>1, <1>2, <1>3, <1>4, <1>5, <1>6, <1>7

\* The verification forgets what it hashed when it ends.
LEMMA ImportKeeps ==
  ASSUME GateInv, VerifyEnds \/ \E a \in Artifacts : VerifyOne(a)
  PROVE  GateInv'
<1> USE DEF OthersUnchanged, Require, Raises, ToKeys, ToStore, ToLocation, ToSignature,
            ToSerialization
<1>1. CASE VerifyEnds
  <2>1. phase' \in {"serialization", "aborted"} /\ hashed' = {}
    BY <1>1, Follows DEF VerifyEnds
  <2>2. phase' # "aborted" => Established'
    BY <1>1, <2>1 DEF VerifyEnds, GateInv, Established
  <2> QED
    BY <1>1, <2>1, <2>2, StepsNamed DEF VerifyEnds, GateInv, Loading, StepNames
<1>2. ASSUME NEW a \in Artifacts, VerifyOne(a)  PROVE GateInv'
  <2>1. phase = "verify" /\ phase' \in {"verify", "aborted"} /\ hashed' \subseteq Artifacts
    BY <1>2 DEF VerifyOne, GateInv
  <2>2. phase' # "aborted" => Established'
    BY <1>2, <2>1 DEF VerifyOne, GateInv, Established
  <2> QED
    BY <1>2, <2>1, <2>2, StepsNamed DEF VerifyOne, GateInv, Loading, StepNames
<1> QED
  BY <1>1, <1>2

\* What is unpickled is the listed file unless it was replaced since it was hashed.
LEMMA LoadsKeep ==
  ASSUME GateInv,
         ModelsEnd \/ (\E a \in Artifacts : Hash(a) \/ Unpickle(a))
         \/ \E a \in Artifacts, content \in {"listed", "other", "missing"} : Replace(a, content)
  PROVE  GateInv'
<1> USE DEF OthersUnchanged
<1>1. CASE ModelsEnd
  <2>1. phase' = "serving" /\ hashed' = {}
    BY <1>1, Follows DEF ModelsEnd
  <2>2. Established'
    BY <1>1, <2>1 DEF ModelsEnd, GateInv, Established, ToKeys, ToStore, ToLocation,
                      ToSignature, ToSerialization
  <2> QED
    BY <1>1, <2>1, <2>2, StepsNamed DEF ModelsEnd, GateInv, Loading, StepNames
<1>2. ASSUME NEW a \in Artifacts, Hash(a)  PROVE GateInv'
  <2>1. hashed' = {a} /\ disk[a] = "listed" /\ Loading /\ Loading'
    BY <1>2 DEF Hash, Intact, Loading
  <2>2. Established <=> Established'
    BY <1>2 DEF Hash, Established
  <2> QED
    BY <1>2, <2>1, <2>2 DEF Hash, GateInv, Loading
<1>3. ASSUME NEW a \in Artifacts, Unpickle(a)  PROVE GateInv'
  <2>1. hashed' = {} /\ (disk[a] = "listed" \/ a \in swapped)
    BY <1>3 DEF Unpickle, GateInv
  <2>2. Established <=> Established'
    BY <1>3 DEF Unpickle, Established
  <2>3. disk[a] \in {"listed", "other", "missing"}
    BY DEF GateInv
  <2>4. /\ loaded' \in [Artifacts -> {NoObject, "listed", "other"}]
        /\ \A b \in Artifacts : loaded'[b] = "other" => b \in swapped
    BY <1>3, <2>1, <2>3 DEF Unpickle, GateInv, NoObject
  <2> QED
    BY <1>3, <2>1, <2>2, <2>4 DEF Unpickle, GateInv, Loading
<1>4. ASSUME NEW a \in Artifacts, NEW content \in {"listed", "other", "missing"},
             Replace(a, content)
      PROVE  GateInv'
  <2>1. Established <=> Established'
    BY <1>4 DEF Replace, Established
  <2>. swapped \subseteq Artifacts
    BY DEF GateInv
  <2>2. /\ swapped \subseteq swapped' /\ swapped' \subseteq Artifacts
        /\ Loading /\ a \in hashed => a \in swapped'
    BY <1>4 DEF Replace
  <2>3. /\ disk' \in [Artifacts -> {"listed", "other", "missing"}]
        /\ \A b \in Artifacts : b # a => disk'[b] = disk[b]
    BY <1>4 DEF Replace, GateInv
  <2>4. Loading' = Loading
    BY <1>4 DEF Replace, Loading
  <2>5. Loading' => \A b \in hashed' : disk'[b] = "listed" \/ b \in swapped'
    <3> SUFFICES ASSUME Loading, NEW b \in hashed  PROVE disk'[b] = "listed" \/ b \in swapped'
      BY <1>4, <2>4 DEF Replace
    <3>1. b \in Artifacts /\ (disk[b] = "listed" \/ b \in swapped)
      BY DEF GateInv
    <3> QED
      BY <2>2, <2>3, <3>1
  <2> QED
    BY <1>4, <2>1, <2>2, <2>3, <2>4, <2>5 DEF Replace, GateInv
<1> QED
  BY <1>1, <1>2, <1>3, <1>4

LEMMA ShutdownKeeps ==
  ASSUME GateInv,
         \/ Terminate
         \/ ShutDown("drain", {"inference pool"}) \/ ShutDown("close", {"store"})
         \/ ShutDown("shutdown", {"collector", "flush loop"})
  PROVE  GateInv'
<1> USE DEF OthersUnchanged, ToKeys, ToStore, ToLocation, ToSignature, ToSerialization
<1>1. /\ UNCHANGED <<env, disk, hashed, loaded, swapped>> /\ hashed = {}
      /\ started' \subseteq started
  BY DEF Terminate, ShutDown, GateInv, Loading
<1>2. \/ phase = "serving" /\ phase' = "drain"
      \/ phase = "drain" /\ phase' = "close" /\ "inference pool" \notin started'
      \/ phase = "close" /\ phase' = "shutdown" /\ "store" \notin started'
      \/ phase = "shutdown" /\ phase' = "stopped"
         /\ "collector" \notin started' /\ "flush loop" \notin started'
  BY Follows DEF Terminate, ShutDown
<1>3. Established'
  BY <1>1, <1>2 DEF GateInv, Established
<1> QED
  BY <1>1, <1>2, <1>3, StepsNamed DEF GateInv, Loading, StepNames

LEMMA GateInvariant == GateSpec => []GateInv
<1>1. GateInit => GateInv
  <2> SUFFICES ASSUME GateInit  PROVE GateInv
    OBVIOUS
  <2>1. phase = "import" /\ hashed = {} /\ \A a \in Artifacts : loaded[a] = NoObject
    BY DEF GateInit
  <2>2. Established
    BY <2>1 DEF Established, ToKeys, ToStore, ToLocation, ToSignature, ToSerialization
  <2> QED
    BY <2>1, <2>2, StepsNamed DEF GateInit, GateInv, Loading, StepNames, NoObject
<1>2. GateInv /\ [GateNext]_gateVars => GateInv'
  <2> SUFFICES ASSUME GateInv, [GateNext]_gateVars  PROVE GateInv'
    OBVIOUS
  <2>1. CASE UNCHANGED gateVars
    BY <2>1 DEF gateVars, GateInv, Established, Loading
  <2> QED
    BY <2>1, ChecksKeep, ImportKeeps, LoadsKeep, ShutdownKeeps DEF GateNext, Ended
<1> QED
  BY <1>1, <1>2, PTL DEF GateSpec

\* In every deployment and with whatever replacements, only what was replaced between its
\* two readings is unpickled unlisted, production serves only after each check, and what
\* the startup began the shutdown ends.
THEOREM ServesOnlyVerified == GateSpec => []ServesVerified
<1>1. GateInv => ServesVerified
  <2> SUFFICES ASSUME GateInv  PROVE ServesVerified
    OBVIOUS
  <2>1. ASSUME env.production, phase # "aborted", Number(phase) >= Number("security")
        PROVE  Sound(env)
    <3>1. phase \in StepNames /\ Number(phase) >= 8
      BY <2>1, Numbered, StepsNamed DEF GateInv
    <3>2. phase \notin ToSerialization
      BY <3>1, Numbered DEF ToSerialization, ToSignature, ToLocation, ToStore, ToKeys
    <3> QED
      BY <2>1, <3>2 DEF GateInv, Established, Sound, ToSerialization, ToSignature,
                        ToLocation, ToStore, ToKeys
  <2>2. phase = "stopped" => started = {}
    BY DEF GateInv, Established
  <2> QED
    BY <2>1, <2>2 DEF ServesVerified, GateInv
<1> QED
  BY <1>1, GateInvariant, PTL

\* The types of the process's state: the lifespan only ever goes from one of its steps to
\* another or ends, and only artifacts of the manifest are hashed and unpickled.
THEOREM StartupTyped == ASSUME MaxReplaced \in Nat PROVE GateSpec => []GateTypeOK
<1> DEFINE Files == rogue \in BOOLEAN /\ replaced \in 0 .. MaxReplaced
<1>1. GateInit => Files
  <2>1. GateInit => rogue \in BOOLEAN
    BY Zenon DEF GateInit
  <2>2. GateInit => replaced = 0
    BY DEF GateInit
  <2>3. 0 \in 0 .. MaxReplaced
    OBVIOUS
  <2> QED  BY <2>1, <2>2, <2>3
<1>2. Files /\ [GateNext]_gateVars => Files'
  <2> SUFFICES ASSUME Files, [GateNext]_gateVars  PROVE Files'
    OBVIOUS
  <2>1. ASSUME NEW a \in Artifacts, NEW content, Replace(a, content)  PROVE Files'
    BY <2>1 DEF Replace
  <2>2. CASE UNCHANGED <<rogue, replaced>>
    BY <2>2
  <2> QED
    BY <2>1, <2>2
       DEF GateNext, gateVars, OthersUnchanged, ImportGate, CheckKeys, CheckStore,
           CheckLocation, CheckSignature, VerifyOne, VerifyEnds, CheckSerialization,
           InitializeSecurity, Hash, Unpickle, ModelsEnd, Terminate, ShutDown, Ended
<1>3. GateInv /\ Files => GateTypeOK
  BY DEF GateInv, GateTypeOK
<1> HIDE DEF Files
<1> QED
  BY <1>1, <1>2, <1>3, GateInvariant, PTL DEF GateSpec

-------------------------------------------------------------------------------
(* The security registry *)

Words == {"AUTHENTICATE", "AUTHORIZE", "DATA", "SECURITY_VIOLATION",
          "allow", "deny", "challenge"}
LogEvent == [operation : Operations, action : Words, outcome : Words, previous : Int]
Tellings == Seq(Words \X Words)

\* Of a log s: the events of operation o, and how many of them are after the i-th event.
Own(s, o) == {i \in DOMAIN s : s[i].operation = o}
Later(s, o, i) == Cardinality({j \in Own(s, o) : j > i})

\* The events of o are the end of the story, or all of it.
Tells(s, o, story) ==
  \A i \in Own(s, o) : /\ Later(s, o, i) < Len(story)
                       /\ <<s[i].action, s[i].outcome>> = story[Len(story) - Later(s, o, i)]
Whole(s, o, story) == Cardinality(Own(s, o)) = Len(story)

LEMMA OwnFinite ==
  ASSUME NEW s \in Seq(LogEvent), NEW o, NEW i
  PROVE  /\ Len(s) \in Nat /\ DOMAIN s = 1 .. Len(s) /\ Own(s, o) \in SUBSET (1 .. Len(s))
         /\ \A j \in 1 .. Len(s) : s[j] \in LogEvent
         /\ IsFiniteSet(Own(s, o)) /\ Cardinality(Own(s, o)) \in Nat
         /\ IsFiniteSet({j \in Own(s, o) : j > i}) /\ Later(s, o, i) \in Nat
<1>1. /\ Len(s) \in Nat /\ DOMAIN s = 1 .. Len(s)
      /\ \A j \in 1 .. Len(s) : s[j] \in LogEvent
  BY LenProperties, ElementOfSeq
<1>2. Own(s, o) \in SUBSET (1 .. Len(s)) /\ IsFiniteSet(1 .. Len(s))
  BY <1>1, FS_Interval DEF Own
<1>3. {j \in Own(s, o) : j > i} \in SUBSET Own(s, o)
  OBVIOUS
<1>4. IsFiniteSet(Own(s, o)) /\ Cardinality(Own(s, o)) \in Nat
  BY <1>2, FS_Subset, FS_CardinalityType
<1>5. IsFiniteSet({j \in Own(s, o) : j > i})
  BY <1>3, <1>4, FS_Subset
<1>. QED  BY <1>1, <1>2, <1>4, <1>5, FS_CardinalityType DEF Later

\* One event more is one part of its operation's story more, and changes no other's.
LEMMA OneMore ==
  ASSUME NEW s \in Seq(LogEvent), NEW e \in LogEvent, NEW o,
         NEW story \in Tellings, NEW pair \in Words \X Words,
         Tells(s, o, story), pair = <<e.action, e.outcome>>
  PROVE  /\ e.operation = o =>
              /\ Tells(Append(s, e), o, Append(story, pair))
              /\ Whole(s, o, story) => Whole(Append(s, e), o, Append(story, pair))
         /\ e.operation # o =>
              /\ Tells(Append(s, e), o, story)
              /\ Whole(s, o, story) => Whole(Append(s, e), o, story)
<1>. DEFINE new == Append(s, e)
            n == Len(s) + 1
            longer == Append(story, pair)
<1>1. /\ Len(s) \in Nat /\ DOMAIN s = 1 .. Len(s) /\ new \in Seq(LogEvent)
      /\ Len(new) = n /\ DOMAIN new = 1 .. n
      /\ \A i \in 1 .. Len(s) : new[i] = s[i]
      /\ new[n] = e
  BY AppendProperties, LenProperties
<1>2. /\ Len(story) \in Nat /\ longer \in Tellings
      /\ Len(longer) = Len(story) + 1
      /\ \A i \in 1 .. Len(story) : longer[i] = story[i]
      /\ longer[Len(story) + 1] = pair
  BY AppendProperties, LenProperties DEF Tellings
<1>. HIDE DEF new, n, longer
<1>. n = Len(s) + 1
  BY DEF n
<1>3. CASE e.operation = o
  <2>1. Own(new, o) = Own(s, o) \cup {n} /\ n \notin Own(s, o)
    BY <1>1, <1>3 DEF Own
  <2>2. ASSUME NEW i \in Own(s, o)
        PROVE  i \in 1 .. Len(s) /\ Later(new, o, i) = Later(s, o, i) + 1
    <3>. DEFINE after == {j \in Own(s, o) : j > i}
    <3>1. i \in 1 .. Len(s)
      BY OwnFinite
    <3>2. {j \in Own(new, o) : j > i} = after \cup {n} /\ n \notin after
      BY <1>1, <2>1, <3>1
    <3>3. IsFiniteSet(after)
      BY OwnFinite
    <3>4. Cardinality(after \cup {n}) = Cardinality(after) + 1
      BY <3>2, <3>3, FS_AddElement
    <3>. QED  BY <3>1, <3>2, <3>4 DEF Later
  <2>3. Later(new, o, n) = 0
    <3>1. {j \in Own(new, o) : j > n} = {}
      BY <1>1 DEF Own
    <3>. QED  BY <3>1, FS_EmptySet DEF Later
  <2>4. Tells(new, o, longer)
    <3>. SUFFICES ASSUME NEW i \in Own(new, o)
                  PROVE  /\ Later(new, o, i) < Len(longer)
                         /\ <<new[i].action, new[i].outcome>>
                              = longer[Len(longer) - Later(new, o, i)]
      BY DEF Tells
    <3>1. CASE i = n
      BY <1>1, <1>2, <2>3, <3>1
    <3>2. CASE i \in Own(s, o)
      <4>1. Later(s, o, i) \in Nat /\ Later(s, o, i) < Len(story)
        BY <3>2, OwnFinite DEF Tells
      <4>2. /\ Later(new, o, i) = Later(s, o, i) + 1
            /\ Len(longer) - Later(new, o, i) = Len(story) - Later(s, o, i)
            /\ Len(story) - Later(s, o, i) \in 1 .. Len(story)
        BY <1>2, <2>2, <3>2, <4>1
      <4>3. <<s[i].action, s[i].outcome>> = story[Len(story) - Later(s, o, i)]
        BY <3>2 DEF Tells
      <4>4. new[i] = s[i] /\ Later(new, o, i) < Len(longer)
        BY <1>1, <1>2, <2>2, <3>2, <4>1
      <4>5. longer[Len(story) - Later(s, o, i)] = story[Len(story) - Later(s, o, i)]
        BY <1>2, <4>2
      <4>. QED  BY <4>2, <4>3, <4>4, <4>5
    <3>. QED  BY <2>1, <3>1, <3>2
  <2>5. Whole(s, o, story) => Whole(new, o, longer)
    <3>1. IsFiniteSet(Own(s, o))
      BY OwnFinite
    <3>2. Cardinality(Own(new, o)) = Cardinality(Own(s, o)) + 1
      BY <2>1, <3>1, FS_AddElement
    <3>. QED  BY <1>2, <3>2 DEF Whole
  <2>. QED  BY <1>3, <2>4, <2>5 DEF new, longer
<1>4. CASE e.operation # o
  <2>1. Own(new, o) = Own(s, o)
    BY <1>1, <1>4 DEF Own
  <2>2. \A i \in Own(s, o) : new[i] = s[i] /\ Later(new, o, i) = Later(s, o, i)
    BY <1>1, <2>1, OwnFinite DEF Later
  <2>. QED  BY <1>4, <2>1, <2>2 DEF Tells, Whole, new
<1>. QED  BY <1>3, <1>4

\* Forgetting the oldest events leaves the end of every story.
LEMMA Forgetting ==
  ASSUME NEW s \in Seq(LogEvent), NEW d \in Nat, d <= Len(s)
  PROVE  LET rest == SubSeq(s, 1 + d, Len(s))
         IN /\ rest \in Seq(LogEvent) /\ Len(rest) = Len(s) - d
            /\ \A o, story : Tells(s, o, story) => Tells(rest, o, story)
<1>. DEFINE rest == SubSeq(s, 1 + d, Len(s))
<1>1. /\ Len(s) \in Nat /\ DOMAIN s = 1 .. Len(s)
      /\ \A i \in 1 .. Len(s) : s[i] \in LogEvent
  BY OwnFinite
<1>2. /\ rest \in Seq(LogEvent) /\ Len(rest) = Len(s) - d
      /\ \A i \in 1 .. Len(s) - d : rest[i] = s[i + d]
  <2>1. 1 + d \in Int /\ Len(s) \in Int /\ \A i \in 1 + d .. Len(s) : s[i] \in LogEvent
    BY <1>1
  <2>2. /\ rest \in Seq(LogEvent)
        /\ Len(rest) = IF 1 + d <= Len(s) THEN Len(s) - (1 + d) + 1 ELSE 0
        /\ \A i \in 1 .. Len(s) - (1 + d) + 1 : rest[i] = s[(1 + d) + i - 1]
    BY <2>1, SubSeqProperties
  <2>. HIDE DEF rest
  <2>3. Len(rest) = Len(s) - d
    <3>1. Len(s) \in Nat /\ Len(rest) = IF 1 + d <= Len(s) THEN Len(s) - (1 + d) + 1 ELSE 0
      BY <1>1, <2>2
    <3>. QED  BY <3>1
  <2>4. ASSUME NEW i \in 1 .. Len(s) - d  PROVE rest[i] = s[i + d]
    <3>1. i \in 1 .. Len(s) - (1 + d) + 1 /\ (1 + d) + i - 1 = i + d
      BY <1>1
    <3>. QED  BY <2>2, <3>1
  <2>. QED  BY <2>2, <2>3, <2>4
<1>3. DOMAIN rest = 1 .. Len(s) - d
  BY <1>2, LenProperties
<1>. HIDE DEF rest
<1>4. ASSUME NEW o, NEW story, Tells(s, o, story)  PROVE Tells(rest, o, story)
  <2>. SUFFICES ASSUME NEW i \in Own(rest, o)
                PROVE  /\ Later(rest, o, i) < Len(story)
                       /\ <<rest[i].action, rest[i].outcome>>
                            = story[Len(story) - Later(rest, o, i)]
    BY DEF Tells
  <2>1. i \in 1 .. Len(s) - d /\ i + d \in Own(s, o) /\ rest[i] = s[i + d]
    BY <1>1, <1>2, <1>3 DEF Own
  <2>2. Later(rest, o, i) = Later(s, o, i + d)
    <3>. DEFINE A == {j \in Own(rest, o) : j > i}
                B == {j \in Own(s, o) : j > i + d}
                moved == [j \in A |-> j + d]
    <3>1. \A j \in A : j \in 1 .. Len(s) - d /\ j + d \in B
      BY <1>1, <1>2, <1>3, <2>1 DEF Own
    <3>2. ASSUME NEW k \in B  PROVE k - d \in A /\ (k - d) + d = k
      <4>1. k \in 1 .. Len(s) /\ k > i + d /\ s[k].operation = o
        BY <1>1 DEF Own
      <4>2. k - d \in 1 .. Len(s) - d /\ (k - d) + d = k /\ k - d > i
        BY <1>1, <2>1, <4>1
      <4>. QED  BY <1>2, <1>3, <4>1, <4>2 DEF Own
    <3>3. moved \in Bijection(A, B)
      <4>1. moved \in [A -> B]
        BY <3>1
      <4>2. \A a, b \in A : moved[a] = moved[b] => a = b
        BY <3>1
      <4>3. \A k \in B : \E j \in A : moved[j] = k
        BY <3>2
      <4>. QED  BY <4>1, <4>2, <4>3 DEF Bijection, Injection, Surjection, IsInjective
    <3>4. IsFiniteSet(A)
      BY <1>2, OwnFinite
    <3>. HIDE DEF A, B, moved
    <3>5. Cardinality(A) = Cardinality(B)
      BY <3>3, <3>4, FS_Bijection DEF ExistsBijection
    <3>. QED  BY <3>5 DEF A, B, Later
  <2>. QED  BY <1>4, <2>1, <2>2 DEF Tells
<1>. QED  BY <1>2, <1>4 DEF rest

\* The log as it is kept: nothing is lost while it is not full.
Newest(all) ==
  SubSeq(all, 1 + (IF Len(all) > MaxMemory THEN Len(all) - MaxMemory ELSE 0), Len(all))

LEMMA Remembering ==
  ASSUME NEW all \in Seq(LogEvent)
  PROVE  /\ Newest(all) \in Seq(LogEvent) /\ Len(Newest(all)) <= MaxMemory
         /\ \A o, story : Tells(all, o, story) => Tells(Newest(all), o, story)
         /\ Len(Newest(all)) < MaxMemory =>
              Newest(all) = all /\ Len(all) < MaxMemory
<1>. DEFINE d == IF Len(all) > MaxMemory THEN Len(all) - MaxMemory ELSE 0
            rest == SubSeq(all, 1 + d, Len(all))
<1>1. Len(all) \in Nat /\ MaxMemory \in Nat
  BY LenProperties, MemoryAssumption
<1>2. /\ d \in Nat /\ d <= Len(all) /\ Len(all) - d <= MaxMemory
      /\ Len(all) - d < MaxMemory => d = 0
  BY <1>1
<1>. HIDE DEF d
<1>3. /\ rest \in Seq(LogEvent) /\ Len(rest) = Len(all) - d
      /\ \A o, story : Tells(all, o, story) => Tells(rest, o, story)
  BY <1>2, Forgetting
<1>4. d = 0 => rest = all
  BY SubSeqFull
<1>. HIDE DEF rest
<1>5. /\ Len(rest) <= MaxMemory
      /\ Len(rest) < MaxMemory => rest = all /\ Len(all) < MaxMemory
  BY <1>1, <1>2, <1>3, <1>4
<1>. QED  BY <1>3, <1>5 DEF d, rest, Newest

\* The event of operation o that tells `pair`, linked to the h-th.
LinkedEvent(o, pair, h) == Event(o, pair[1], pair[2], h)
Longer(p, o, story, pair) == IF p = o THEN Append(story, pair) ELSE story

LEMMA Telling ==
  ASSUME NEW s \in Seq(LogEvent), NEW h \in Int,
         NEW o \in Operations, NEW pair \in Words \X Words
  PROVE  LET new == Append(s, LinkedEvent(o, pair, h))
         IN /\ LinkedEvent(o, pair, h) \in LogEvent
            /\ new \in Seq(LogEvent) /\ Len(new) = Len(s) + 1
            /\ \A p \in Operations, story \in Tellings :
                 /\ Longer(p, o, story, pair) \in Tellings
                 /\ Tells(s, p, story) =>
                      /\ Tells(new, p, Longer(p, o, story, pair))
                      /\ Whole(s, p, story) => Whole(new, p, Longer(p, o, story, pair))
<1>. DEFINE e == LinkedEvent(o, pair, h)
            new == Append(s, e)
<1>1. e \in LogEvent /\ e.operation = o /\ pair = <<e.action, e.outcome>> /\ e.previous = h
  BY DEF LinkedEvent, Event, LogEvent
<1>. HIDE DEF e
<1>2. /\ Len(s) \in Nat
      /\ new \in Seq(LogEvent) /\ Len(new) = Len(s) + 1
      /\ \A i \in 1 .. Len(s) : new[i] = s[i]
      /\ new[Len(s) + 1] = e
  BY <1>1, AppendProperties, LenProperties
<1>3. ASSUME NEW p \in Operations, NEW story \in Tellings
      PROVE  /\ Longer(p, o, story, pair) \in Tellings
             /\ Tells(s, p, story) =>
                  /\ Tells(new, p, Longer(p, o, story, pair))
                  /\ Whole(s, p, story) => Whole(new, p, Longer(p, o, story, pair))
  <2>1. Append(story, pair) \in Tellings
    BY AppendProperties DEF Tellings
  <2>. HIDE DEF new
  <2>2. CASE p = o
    <3>1. Longer(p, o, story, pair) = Append(story, pair)
      BY <2>2 DEF Longer
    <3>2. Tells(s, p, story) =>
            /\ Tells(new, p, Append(story, pair))
            /\ Whole(s, p, story) => Whole(new, p, Append(story, pair))
      BY <1>1, <2>2, OneMore DEF new
    <3>. QED  BY <2>1, <3>1, <3>2
  <2>3. CASE p # o
    <3>1. Longer(p, o, story, pair) = story
      BY <2>3 DEF Longer
    <3>2. Tells(s, p, story) =>
            /\ Tells(new, p, story)
            /\ Whole(s, p, story) => Whole(new, p, story)
      BY <1>1, <2>3, OneMore DEF new
    <3>. QED  BY <3>1, <3>2
  <2>. QED  BY <2>2, <2>3
<1>. HIDE DEF new
<1>. QED  BY <1>1, <1>2, <1>3 DEF e, new

\* What an operation has told, of a log s.
Told(s, p, story) ==
  Tells(s, p, story) /\ (Len(s) < MaxMemory => Whole(s, p, story))

LogKept == "audit log" \in registered

Proven == chain \in [Resources -> Seq([allowed : BOOLEAN, previous : Nat])]

LogShape ==
  /\ log \in Seq(LogEvent) /\ lastHash \in Int
  /\ Len(log) <= MaxMemory

TrustInv ==
  /\ LogShape
  /\ operation \in [Operations -> [stage : Stages]]
  /\ LogKept => \A p \in Operations :
                  operation[p].stage # "raised" => Told(log, p, Story(operation[p].stage))
  /\ EmitRaises => \A p \in Operations : operation[p].stage \in {"new", "raised"}
  /\ Proven
  /\ registered \in Registrations

\* The log after an event more, or two: LogShape, and what an operation has told.
LEMMA Kept ==
  ASSUME LogShape, NEW all \in Seq(LogEvent), NEW h \in Int,
         Len(all) > Len(log), log' = Newest(all), lastHash' = h
  PROVE  /\ LogShape'
         /\ \A p, story, longer :
              /\ Told(log, p, story) /\ Tells(all, p, longer)
              /\ Whole(log, p, story) => Whole(all, p, longer)
              => Told(log', p, longer)
<1>1. LogShape'
  BY Remembering DEF LogShape
<1>2. ASSUME NEW p, NEW story, NEW longer, Told(log, p, story), Tells(all, p, longer),
             Whole(log, p, story) => Whole(all, p, longer)
      PROVE  Told(log', p, longer)
  <2>1. Tells(log', p, longer)
    BY <1>2, Remembering
  <2>2. ASSUME Len(log') < MaxMemory  PROVE Whole(log', p, longer)
    <3>1. log' = all /\ Len(all) < MaxMemory
      BY <2>2, Remembering
    <3>2. Len(log) \in Nat /\ Len(all) \in Nat /\ MaxMemory \in Nat
      BY LenProperties, MemoryAssumption DEF LogShape
    <3>3. Len(log) < MaxMemory
      BY <3>1, <3>2
    <3>. QED  BY <1>2, <3>1, <3>3 DEF Told
  <2>. QED  BY <2>1, <2>2 DEF Told
<1>. QED  BY <1>1, <1>2

\* One event is told of an operation ...
LEMMA EmitOne ==
  ASSUME LogShape, NEW o \in Operations, NEW a \in Words \X Words, Emit(o, <<a>>)
  PROVE  /\ LogShape'
         /\ LogKept => \A p \in Operations, story \in Tellings :
                         Told(log, p, story) => Told(log', p, Longer(p, o, story, a))
<1>. DEFINE e == LinkedEvent(o, a, lastHash)
            all == Append(log, e)
<1>1. /\ e \in LogEvent /\ all \in Seq(LogEvent) /\ Len(all) = Len(log) + 1
      /\ lastHash + 1 \in Int /\ Len(log) \in Nat
      /\ \A p \in Operations, story \in Tellings :
           Tells(log, p, story) =>
             /\ Tells(all, p, Longer(p, o, story, a))
             /\ Whole(log, p, story) => Whole(all, p, Longer(p, o, story, a))
  BY Telling, LenProperties DEF LogShape
<1>2. CASE "audit log" \in registered
  <2>1. log' = Newest(all) /\ lastHash' = lastHash + 1
    <3>. DEFINE new == [i \in DOMAIN <<a>> |-> Event(o, <<a>>[i][1], <<a>>[i][2], lastHash + i - 1)]
    <3>1. new = <<e>>
      BY DEF LinkedEvent, LogShape
    <3>2. log \o <<e>> = all
      BY <1>1, AppendIsConcat DEF LogShape
    <3>. QED  BY <1>2, <3>1, <3>2 DEF Emit, Newest
  <2>. HIDE DEF all, e
  <2>2. Len(all) > Len(log)
    BY <1>1
  <2>3. /\ LogShape'
        /\ \A p, story, longer :
             /\ Told(log, p, story) /\ Tells(all, p, longer)
             /\ Whole(log, p, story) => Whole(all, p, longer)
             => Told(log', p, longer)
    BY <1>1, <2>1, <2>2, Kept
  <2>. QED  BY <1>1, <2>3 DEF Told
<1>3. CASE "audit log" \notin registered
  BY <1>3 DEF Emit, LogShape, LogKept
<1>. QED  BY <1>2, <1>3

\* ... or two in a row.
LEMMA EmitTwo ==
  ASSUME LogShape, NEW o \in Operations, NEW a \in Words \X Words,
         NEW b \in Words \X Words, Emit(o, <<a, b>>)
  PROVE  /\ LogShape'
         /\ LogKept => \A p \in Operations, story \in Tellings :
                         Told(log, p, story) =>
                           Told(log', p, Longer(p, o, Longer(p, o, story, a), b))
<1>. DEFINE e == LinkedEvent(o, a, lastHash)
            f == LinkedEvent(o, b, lastHash + 1)
            one == Append(log, e)
            all == Append(one, f)
<1>1. /\ e \in LogEvent /\ one \in Seq(LogEvent) /\ Len(one) = Len(log) + 1
      /\ lastHash + 1 \in Int /\ Len(log) \in Nat
      /\ \A p \in Operations, story \in Tellings :
           /\ Longer(p, o, story, a) \in Tellings
           /\ Tells(log, p, story) =>
                /\ Tells(one, p, Longer(p, o, story, a))
                /\ Whole(log, p, story) => Whole(one, p, Longer(p, o, story, a))
  BY Telling, LenProperties DEF LogShape
<1>. HIDE DEF one
<1>2. /\ f \in LogEvent /\ all \in Seq(LogEvent) /\ Len(all) = Len(one) + 1
      /\ \A p \in Operations, story \in Tellings :
           Tells(one, p, story) =>
             /\ Tells(all, p, Longer(p, o, story, b))
             /\ Whole(one, p, story) => Whole(all, p, Longer(p, o, story, b))
  BY <1>1, Telling
<1>3. CASE LogKept
  <2>1. log' = Newest(all) /\ lastHash' = lastHash + 1 + 1
    <3>. DEFINE new == [i \in DOMAIN <<a, b>> |->
                          Event(o, <<a, b>>[i][1], <<a, b>>[i][2], lastHash + i - 1)]
    <3>1. new = <<e, f>>
      BY DEF LinkedEvent, LogShape
    <3>2. log \o <<e, f>> = all
      <4>1. /\ log \in Seq(LogEvent) /\ <<e, f>> \in Seq(LogEvent)
            /\ Len(<<e, f>>) = 2 /\ <<e, f>>[1] = e /\ <<e, f>>[2] = f
        BY <1>1, <1>2 DEF LogShape
      <4>. QED  BY <1>1, <1>2, <4>1, ConcatProperties, AppendProperties, SeqEqual DEF one
    <3>3. Len(<<a, b>>) = 2 /\ lastHash + 2 = lastHash + 1 + 1
      BY DEF LogShape
    <3>. QED  BY <1>3, <3>1, <3>2, <3>3 DEF Emit, Newest, LogKept
  <2>. HIDE DEF all, e, f
  <2>2. Len(all) > Len(log) /\ lastHash + 1 + 1 \in Int
    BY <1>1, <1>2
  <2>3. /\ LogShape'
        /\ \A p, story, longer :
             /\ Told(log, p, story) /\ Tells(all, p, longer)
             /\ Whole(log, p, story) => Whole(all, p, longer)
             => Told(log', p, longer)
    BY <1>2, <2>1, <2>2, Kept
  <2>. QED  BY <1>1, <1>2, <2>3 DEF Told
<1>4. CASE "audit log" \notin registered
  BY <1>4 DEF Emit, LogShape, LogKept
<1>. QED  BY <1>3, <1>4 DEF LogKept

LEMMA StoryIsTelling ==
  ASSUME NEW to \in Stages
  PROVE  Story(to) \in Tellings
<1>1. \A a, b, c \in Words \X Words :
        {<<>>, <<a>>, <<a, b>>, <<a, b, c>>} \subseteq Tellings
  BY DEF Tellings
<1>2. /\ <<"AUTHENTICATE", "deny">> \in Words \X Words
      /\ to \in {"deny", "challenge"} => <<"AUTHORIZE", to>> \in Words \X Words
      /\ <<"AUTHORIZE", "allow">> \in Words \X Words
      /\ <<"DATA", "allow">> \in Words \X Words
      /\ <<"SECURITY_VIOLATION", "deny">> \in Words \X Words
  BY DEF Words
<1>3. /\ Story("unknown") \in Tellings /\ Story("inside") \in Tellings
      /\ Story("completed") \in Tellings /\ Story("failed") \in Tellings
      /\ Story("new") \in Tellings /\ Story("raised") \in Tellings
      /\ to \in {"deny", "challenge"} => Story(to) \in Tellings
  BY <1>1, <1>2 DEF Story
<1>. QED  BY <1>3 DEF Stages

\* An operation goes on to a stage and tells what belongs to it.
LEMMA OperationMoves ==
  ASSUME TrustInv, NEW o \in Operations, NEW to \in Stages, LogShape',
         Became(o, to), UNCHANGED registered,
         LogKept =>
           \A p \in Operations : operation[p].stage # "raised" =>
             Told(log', p, IF p = o THEN Story(to) ELSE Story(operation[p].stage)),
         operation[o].stage # "raised", Proven'
  PROVE  TrustInv'
<1>1. /\ operation' \in [Operations -> [stage : Stages]]
      /\ operation'[o].stage = IF EmitRaises THEN "raised" ELSE to
      /\ \A p \in Operations \ {o} : operation'[p] = operation[p]
  BY DEF TrustInv, Stages, Became
<1>2. ASSUME LogKept, NEW p \in Operations, operation'[p].stage # "raised"
      PROVE  Told(log', p, Story(operation'[p].stage))
  <2>1. Story(operation'[p].stage)
          = IF p = o THEN Story(to) ELSE Story(operation[p].stage)
    BY <1>1, <1>2
  <2>2. operation[p].stage # "raised"
    BY <1>1, <1>2
  <2>. QED  BY <1>2, <2>1, <2>2
<1>3. EmitRaises => \A p \in Operations : operation'[p].stage \in {"new", "raised"}
  BY <1>1 DEF TrustInv
<1>. QED  BY <1>1, <1>2, <1>3 DEF TrustInv, LogKept, EmitRaises

\* A step that tells one event.
LEMMA TellOneStep ==
  ASSUME TrustInv, NEW o \in Operations, NEW to \in Stages,
         NEW a \in Words \X Words, Emit(o, <<a>>), Became(o, to), UNCHANGED registered,
         operation[o].stage # "raised",
         Story(to) = Append(Story(operation[o].stage), a), Proven'
  PROVE  TrustInv'
<1>1. /\ LogShape'
      /\ LogKept => \A p \in Operations, story \in Tellings :
                      Told(log, p, story) => Told(log', p, Longer(p, o, story, a))
  BY EmitOne DEF TrustInv
<1>2. ASSUME LogKept, NEW p \in Operations, operation[p].stage # "raised"
      PROVE  Told(log', p, IF p = o THEN Story(to) ELSE Story(operation[p].stage))
  <2>1. Story(operation[p].stage) \in Tellings
    BY StoryIsTelling DEF TrustInv
  <2>2. Told(log, p, Story(operation[p].stage))
    BY <1>2 DEF TrustInv
  <2>3. Told(log', p, Longer(p, o, Story(operation[p].stage), a))
    BY <1>1, <1>2, <2>1, <2>2
  <2>. QED  BY <2>3 DEF Longer
<1>. QED  BY <1>1, <1>2, OperationMoves

LEMMA FailStep ==
  ASSUME TrustInv, NEW o \in Operations, Fail(o)
  PROVE  TrustInv'
<1>. DEFINE a == <<"SECURITY_VIOLATION", "deny">>
            b == <<"DATA", "allow">>
<1>1. /\ Emit(o, <<a, b>>) /\ operation[o].stage = "inside" /\ Became(o, "failed")
      /\ UNCHANGED <<chain, registered>>
  BY DEF Fail
<1>2. Proven' /\ a \in Words \X Words /\ b \in Words \X Words /\ "failed" \in Stages
  BY <1>1 DEF Stages, TrustInv, Proven, Words
<1>3. /\ LogShape'
      /\ LogKept => \A p \in Operations, story \in Tellings :
                      Told(log, p, story) =>
                        Told(log', p, Longer(p, o, Longer(p, o, story, a), b))
  BY <1>1, <1>2, EmitTwo DEF TrustInv
<1>4. ASSUME LogKept, NEW p \in Operations, operation[p].stage # "raised"
      PROVE  Told(log', p, IF p = o THEN Story("failed") ELSE Story(operation[p].stage))
  <2>1. Story(operation[p].stage) \in Tellings
    BY StoryIsTelling DEF TrustInv
  <2>2. Told(log, p, Story(operation[p].stage))
    BY <1>4 DEF TrustInv
  <2>3. Told(log', p, Longer(p, o, Longer(p, o, Story(operation[p].stage), a), b))
    BY <1>3, <1>4, <2>1, <2>2
  <2>4. Story("failed") = Append(Append(Story("inside"), a), b)
    BY DEF Story
  <2>. QED  BY <1>1, <2>3, <2>4 DEF Longer
<1>. QED  BY <1>1, <1>3, <1>4, <1>2, OperationMoves

LEMMA AuthorizeStep ==
  ASSUME TrustInv, NEW o \in Operations, NEW t, NEW r \in Resources, NEW kind, NEW action,
         Authorize(o, t, r, kind, action)
  PROVE  TrustInv'
<1>. DEFINE decision == Decision(token[t].context, EntityOf(r, kind), action)
            to == IF decision = "allow" THEN "inside" ELSE decision
            a == <<"AUTHORIZE", decision>>
<1>1. decision \in {"allow", "deny", "challenge"}
  BY DEF Decision
<1>2. /\ operation[o].stage = "new" /\ Emit(o, <<a>>) /\ Became(o, to)
      /\ chain' = [chain EXCEPT ![r] = WithRecord(@, decision)]
      /\ UNCHANGED registered
  BY DEF Authorize
<1>. HIDE DEF decision
<1>3. Story(to) = Append(Story("new"), a)
  BY <1>1 DEF Story
<1>4. Proven'
  <2>. DEFINE record == [allowed |-> decision # "deny", previous |-> Len(chain[r])]
  <2>1. chain[r] \in Seq([allowed : BOOLEAN, previous : Nat]) /\ Len(chain[r]) \in Nat
    BY LenProperties DEF TrustInv, Proven
  <2>2. record \in [allowed : BOOLEAN, previous : Nat]
    BY <2>1
  <2>3. chain' = [chain EXCEPT ![r] = Append(@, record)]
    BY <1>2 DEF WithRecord
  <2>. HIDE DEF record
  <2>4. Append(chain[r], record) \in Seq([allowed : BOOLEAN, previous : Nat])
    BY <2>1, <2>2, AppendProperties
  <2>. QED  BY <2>3, <2>4 DEF TrustInv, Proven
<1>5. /\ to \in Stages /\ a \in Words \X Words
      /\ Story(to) = Append(Story(operation[o].stage), a)
  BY <1>1, <1>2, <1>3 DEF Stages, Words
<1>. HIDE DEF to, a
<1>. QED  BY <1>2, <1>4, <1>5, TellOneStep

LEMMA TrustStep ==
  ASSUME TrustInv, [TrustNext]_trustVars
  PROVE  TrustInv'
<1>1. ASSUME UNCHANGED <<chain, log, lastHash, operation, registered>>  PROVE TrustInv'
  BY <1>1 DEF TrustInv, LogShape, Proven, LogKept, EmitRaises
<1>2. ASSUME NEW t \in Tokens, NEW context, RevokeToken(t) \/ IssueToken(t, context)
      PROVE  TrustInv'
  BY <1>1, <1>2 DEF RevokeToken, IssueToken
<1>3. CASE TokenTick \/ UNCHANGED trustVars
  BY <1>1, <1>3 DEF TokenTick, trustVars
<1>4. ASSUME NEW o \in Operations, NEW t, RefuseToken(o, t)  PROVE TrustInv'
  <2>. DEFINE a == <<"AUTHENTICATE", "deny">>
  <2>1. /\ operation[o].stage = "new" /\ Emit(o, <<a>>) /\ Became(o, "unknown")
        /\ UNCHANGED <<chain, registered>>
    BY <1>4 DEF RefuseToken
  <2>2. Proven' /\ a \in Words \X Words /\ "unknown" \in Stages
    BY <2>1 DEF TrustInv, Proven, Stages, Words
  <2>3. Story("unknown") = Append(Story(operation[o].stage), a)
    BY <2>1 DEF Story
  <2>. HIDE DEF a
  <2>. QED  BY <2>1, <2>2, <2>3, TellOneStep
<1>5. ASSUME NEW o \in Operations, Complete(o)  PROVE TrustInv'
  <2>. DEFINE a == <<"DATA", "allow">>
  <2>1. /\ operation[o].stage = "inside" /\ Emit(o, <<a>>) /\ Became(o, "completed")
        /\ UNCHANGED <<chain, registered>>
    BY <1>5 DEF Complete
  <2>2. Proven' /\ a \in Words \X Words /\ "completed" \in Stages
    BY <2>1 DEF TrustInv, Proven, Stages, Words
  <2>3. Story("completed") = Append(Story(operation[o].stage), a)
    BY <2>1 DEF Story
  <2>. HIDE DEF a
  <2>. QED  BY <2>1, <2>2, <2>3, TellOneStep
<1>. QED  BY <1>2, <1>3, <1>4, <1>5, AuthorizeStep, FailStep DEF TrustNext

LEMMA TrustInvariant == TrustSpec => []TrustInv
<1>1. TrustInit => TrustInv
  <2>. SUFFICES ASSUME TrustInit  PROVE TrustInv
    OBVIOUS
  <2>1. LogShape
    BY MemoryAssumption DEF TrustInit, LogShape
  <2>2. Proven
    BY DEF TrustInit, Proven
  <2>3. ASSUME NEW p \in Operations  PROVE Told(log, p, Story(operation[p].stage))
    <3>1. log = <<>> /\ Story(operation[p].stage) = <<>> /\ Own(<<>>, p) = {}
      BY DEF TrustInit, Story, Own
    <3>. QED  BY <3>1, FS_EmptySet DEF Told, Tells, Whole
  <2>. QED  BY <2>1, <2>2, <2>3 DEF TrustInit, TrustInv, Stages
<1>2. TrustInv /\ [TrustNext]_trustVars => TrustInv'
  BY TrustStep
<1>. QED  BY <1>1, <1>2, PTL DEF TrustSpec

\* For any tokens, resources, operations and size of the log, and whatever a process registers:
\* no operation acts unrecorded, and an audit log keeps the end of every operation's story.
THEOREM TrailsComplete == TrustSpec => []TrailComplete
<1>1. TrustInv => TrailComplete
  <2>. SUFFICES ASSUME TrustInv, NEW o \in Operations
                PROVE  /\ operation[o].stage \in {"inside", "completed", "failed"} => LogKept
                       /\ LogKept /\ operation[o].stage # "raised" => StoryTold(o)
    BY DEF TrailComplete, LogKept
  <2>1. EmitRaises \/ LogKept
    BY RegistrationAssumption, Zenon DEF TrustInv, EmitRaises, LogKept
  <2>2. ASSUME LogKept, operation[o].stage # "raised"  PROVE StoryTold(o)
    <3>1. Told(log, o, Story(operation[o].stage))
      BY <2>2 DEF TrustInv
    <3>2. EventsOf(o) = Own(log, o) /\ \A i : After(o, i) = Later(log, o, i)
      BY DEF EventsOf, Own, After, Later
    <3>. QED  BY <3>1, <3>2, Zenon DEF StoryTold, Told, Tells, Whole
  <2>. QED  BY <2>1, <2>2 DEF TrustInv
<1>. QED  BY <1>1, TrustInvariant, PTL

\* The types of the registry's state: a token's time never runs below its end, and the log
\* never outgrows its memory (EnterpriseAuditLog.append).
THEOREM RegistryTyped == ASSUME TokenTtl \in Nat PROVE TrustSpec => []TrustTypeOK
<1>. DEFINE Held == {NoToken} \cup [left : -1 .. TokenTtl, context : Contexts]
            Lasting == token \in [Tokens -> Held] /\ revoked \subseteq Tokens
            Described == entities \in [Resources -> Kinds \cup {NoEntity}]
            Counts == lastHash \in Nat /\ delivered \in Nat
<1>1. TrustInit => Lasting /\ Described /\ Counts
  BY DEF TrustInit
<1>2. ASSUME NEW o, NEW news, Len(news) \in Nat, Counts,
             Emit(o, news)
      PROVE  Counts'
  <2>1. /\ lastHash' \in {lastHash, lastHash + Len(news)}
        /\ delivered' \in {delivered, delivered + Len(news)}
    BY <1>2 DEF Emit
  <2>. QED  BY <1>2, <2>1
<1>3. ASSUME Lasting, UNCHANGED <<token, revoked>>  PROVE Lasting'
  BY <1>3
<1>4. Lasting /\ Described /\ Counts /\ [TrustNext]_trustVars => (Lasting /\ Described /\ Counts)'
  <2>. SUFFICES ASSUME Lasting, Described, Counts, [TrustNext]_trustVars
                PROVE  (Lasting /\ Described /\ Counts)'
    OBVIOUS
  <2>1. ASSUME NEW t \in Tokens, NEW context \in Contexts, IssueToken(t, context)
        PROVE  (Lasting /\ Described /\ Counts)'
    <3>1. [left |-> TokenTtl, context |-> context] \in Held
      OBVIOUS
    <3>. QED  BY <2>1, <3>1 DEF IssueToken
  <2>2. ASSUME NEW t \in Tokens, RevokeToken(t)  PROVE (Lasting /\ Described /\ Counts)'
    BY <2>2 DEF RevokeToken
  <2>3. CASE TokenTick
    <3>1. ASSUME NEW held \in Held, held.left > 0
          PROVE  [held EXCEPT !.left = @ - 1] \in Held
      BY <3>1 DEF NoToken
    <3>2. token' = [t \in Tokens |-> IF token[t].left > 0
                                     THEN [token[t] EXCEPT !.left = @ - 1] ELSE token[t]]
      BY <2>3 DEF TokenTick
    <3>3. UNCHANGED <<revoked, entities, lastHash, delivered>>
      BY <2>3 DEF TokenTick
    <3>. HIDE DEF Held
    <3>. QED  BY <3>1, <3>2, <3>3
  <2>4. ASSUME NEW o \in Operations, NEW t, RefuseToken(o, t) \/ Complete(o) \/ Fail(o)
        PROVE  (Lasting /\ Described /\ Counts)'
    <3>1. \E news : Len(news) \in Nat /\ Emit(o, news)
      <4>1. /\ Len(<<<<"AUTHENTICATE", "deny">>>>) \in Nat
            /\ Len(<<<<"DATA", "allow">>>>) \in Nat
            /\ Len(<<<<"SECURITY_VIOLATION", "deny">>, <<"DATA", "allow">>>>) \in Nat
        OBVIOUS
      <4>. QED  BY <2>4, <4>1, Zenon DEF RefuseToken, Complete, Fail
    <3>2. UNCHANGED <<token, revoked, entities>>
      BY <2>4 DEF RefuseToken, Complete, Fail
    <3>. HIDE DEF Held
    <3>. QED  BY <1>2, <3>1, <3>2
  <2>5. ASSUME NEW o \in Operations, NEW t, NEW r \in Resources, NEW kind \in Kinds,
               NEW action, Authorize(o, t, r, kind, action)
        PROVE  (Lasting /\ Described /\ Counts)'
    <3>1. \E news : Len(news) \in Nat /\ Emit(o, news)
      <4>1. \A decision : Len(<<<<"AUTHORIZE", decision>>>>) \in Nat
        OBVIOUS
      <4>. QED  BY <2>5, <4>1, Zenon DEF Authorize
    <3>2. /\ entities' = [entities EXCEPT ![r] = EntityOf(r, kind)]
          /\ UNCHANGED <<token, revoked>>
      BY <2>5 DEF Authorize
    <3>3. EntityOf(r, kind) \in Kinds \cup {NoEntity}
      BY DEF EntityOf
    <3>. HIDE DEF Held
    <3>. QED  BY <1>2, <3>1, <3>2, <3>3
  <2>6. CASE UNCHANGED trustVars
    BY <2>6 DEF trustVars
  <2>. QED  BY <2>1, <2>2, <2>3, <2>4, <2>5, <2>6, Zenon DEF TrustNext
<1>5. TrustInv /\ Lasting /\ Described /\ Counts => TrustTypeOK
  <2>1. \A held \in Held : held.left \in -1 .. TokenTtl
    BY DEF NoToken
  <2>. HIDE DEF Held
  <2>. QED  BY <2>1 DEF TrustInv, LogShape, Proven, TrustTypeOK
<1>. HIDE DEF Lasting, Described, Counts
<1>. QED  BY <1>1, <1>4, <1>5, TrustInvariant, PTL DEF TrustSpec

-------------------------------------------------------------------------------
(* Who is told *)

\* With the collector registered, as the application does (init_security.py:90), emit raises
\* before it comes to the subscribers (registry.py:163): none of them is ever told of anything,
\* and no operation gets in, whatever the operations, tokens and resources are.
Silenced ==
  /\ delivered = 0
  /\ \A o \in Operations : operation[o].stage \in {"new", "raised"}

THEOREM CollectorSilences == TrustSpec => []("collector" \in registered => Silenced)
<1>. DEFINE Silent == "collector" \in registered => delivered = 0
<1>1. TrustInit => Silent
  BY DEF TrustInit
<1>2. ASSUME NEW o, NEW news, Emit(o, news), UNCHANGED registered, Silent  PROVE Silent'
  BY <1>2, Zenon DEF Emit, EmitRaises
<1>3. Silent /\ [TrustNext]_trustVars => Silent'
  <2>. SUFFICES ASSUME Silent, [TrustNext]_trustVars  PROVE Silent'
    OBVIOUS
  <2>1. ASSUME NEW o, NEW t, RefuseToken(o, t) \/ Complete(o) \/ Fail(o)
        PROVE  Silent'
    BY <1>2, <2>1 DEF RefuseToken, Complete, Fail
  <2>2. ASSUME NEW o, NEW t, NEW r, NEW kind, NEW action, Authorize(o, t, r, kind, action)
        PROVE  Silent'
    BY <1>2, <2>2 DEF Authorize
  <2>3. ASSUME NEW t, NEW context, RevokeToken(t) \/ IssueToken(t, context)
        PROVE  Silent'
    BY <2>3 DEF RevokeToken, IssueToken
  <2>4. CASE TokenTick \/ UNCHANGED trustVars
    BY <2>4 DEF TokenTick, trustVars
  <2>. QED  BY <2>1, <2>2, <2>3, <2>4, Zenon DEF TrustNext
<1>4. Silent /\ TrustInv => ("collector" \in registered => Silenced)
  BY DEF Silenced, TrustInv, EmitRaises
<1>. HIDE DEF Silent
<1>. QED  BY <1>1, <1>3, <1>4, TrustInvariant, PTL DEF TrustSpec

\* The operations that came as far as an event.
Heard == {o \in Operations : operation[o].stage # "new"}

\* "Emit event to all layers and audit log" (registry.py:156): without the collector every
\* operation that was authorized or refused has been told to the subscribers, in every
\* interleaving and whether the audit log is registered or not.
THEOREM DeliversWithoutCollector ==
  ASSUME IsFiniteSet(Operations)
  PROVE  TrustSpec => []("collector" \notin registered => EmitDelivers)
<1>. DEFINE Counted ==
              /\ delivered \in Nat
              /\ "collector" \notin registered => delivered >= Cardinality(Heard)
<1>1. TrustInit => Counted
  <2>. SUFFICES ASSUME TrustInit  PROVE Counted
    OBVIOUS
  <2>1. Heard = {}
    BY DEF TrustInit, Heard
  <2>. QED  BY <2>1, FS_EmptySet DEF TrustInit
<1>2. IsFiniteSet(Heard) /\ Cardinality(Heard) \in Nat
  <2>1. Heard \subseteq Operations
    BY DEF Heard
  <2>. QED  BY <2>1, FS_Subset, FS_CardinalityType
<1>3. ASSUME TrustInv, Counted, NEW o \in Operations, NEW news, NEW where,
             Len(news) \in Nat \ {0}, Emit(o, news), Became(o, where), UNCHANGED registered
      PROVE  Counted'
  <2>1. delivered' = IF EmitRaises THEN delivered ELSE delivered + Len(news)
    BY <1>3, Zenon DEF Emit
  <2>2. Heard' \subseteq Heard \cup {o}
    BY <1>3 DEF Heard, Became, TrustInv
  <2>3. /\ IsFiniteSet(Heard \cup {o}) /\ Cardinality(Heard \cup {o}) \in Nat
        /\ Cardinality(Heard \cup {o}) <= Cardinality(Heard) + 1
    <3>1. CASE o \in Heard
      <4>1. /\ IsFiniteSet(Heard \cup {o})
            /\ Cardinality(Heard \cup {o}) = Cardinality(Heard)
        BY <1>2, <3>1, FS_AddElement, Zenon
      <4>. QED  BY <1>2, <4>1
    <3>2. CASE o \notin Heard
      <4>1. /\ IsFiniteSet(Heard \cup {o})
            /\ Cardinality(Heard \cup {o}) = Cardinality(Heard) + 1
        BY <1>2, <3>2, FS_AddElement, Zenon
      <4>. QED  BY <1>2, <4>1
    <3>. QED  BY <3>1, <3>2
  <2>4. Cardinality(Heard') <= Cardinality(Heard \cup {o}) /\ Cardinality(Heard') \in Nat
    BY <2>2, <2>3, FS_Subset, FS_CardinalityType
  <2>. QED  BY <1>2, <1>3, <2>1, <2>3, <2>4 DEF EmitRaises
<1>4. TrustInv /\ Counted /\ [TrustNext]_trustVars => Counted'
  <2>. SUFFICES ASSUME TrustInv, Counted, [TrustNext]_trustVars  PROVE Counted'
    OBVIOUS
  <2>1. ASSUME NEW o \in Operations, NEW t, RefuseToken(o, t) \/ Complete(o) \/ Fail(o)
        PROVE  Counted'
    <3>1. /\ \E news, where : Len(news) \in Nat \ {0} /\ Emit(o, news) /\ Became(o, where)
          /\ UNCHANGED registered
      <4>1. /\ Len(<<<<"AUTHENTICATE", "deny">>>>) \in Nat \ {0}
            /\ Len(<<<<"DATA", "allow">>>>) \in Nat \ {0}
            /\ Len(<<<<"SECURITY_VIOLATION", "deny">>, <<"DATA", "allow">>>>) \in Nat \ {0}
        OBVIOUS
      <4>. QED  BY <2>1, <4>1, Zenon DEF RefuseToken, Complete, Fail
    <3>. HIDE DEF Counted
    <3>. QED  BY <1>3, <3>1
  <2>2. ASSUME NEW o \in Operations, NEW t, NEW r, NEW kind, NEW action,
               Authorize(o, t, r, kind, action)
        PROVE  Counted'
    <3>1. /\ \E news, where : Len(news) \in Nat \ {0} /\ Emit(o, news) /\ Became(o, where)
          /\ UNCHANGED registered
      <4>1. \A decision : Len(<<<<"AUTHORIZE", decision>>>>) \in Nat \ {0}
        OBVIOUS
      <4>. QED  BY <2>2, <4>1, Zenon DEF Authorize
    <3>. HIDE DEF Counted
    <3>. QED  BY <1>3, <3>1
  <2>3. ASSUME UNCHANGED <<operation, delivered, registered>>  PROVE Counted'
    BY <2>3 DEF Heard
  <2>4. ASSUME NEW t, NEW context, RevokeToken(t) \/ IssueToken(t, context)  PROVE Counted'
    BY <2>3, <2>4 DEF RevokeToken, IssueToken
  <2>5. CASE TokenTick \/ UNCHANGED trustVars
    BY <2>3, <2>5 DEF TokenTick, trustVars
  <2>. HIDE DEF Counted
  <2>. QED  BY <2>1, <2>2, <2>4, <2>5, Zenon DEF TrustNext
<1>5. Counted => ("collector" \notin registered => EmitDelivers)
  BY DEF EmitDelivers, Heard
<1>. HIDE DEF Counted
<1>. QED  BY <1>1, <1>4, <1>5, TrustInvariant, PTL DEF TrustSpec
===============================================================================
