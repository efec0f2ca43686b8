----------------------------- MODULE DeliveryProofs ----------------------------
(***************************************************************************)
(* The events of the audit log on their way to the endpoints, for every    *)
(* number of requests and endpoints; the windows of the SOAR engine and    *)
(* the playbooks they start, for every set of playbooks; and the two side  *)
(* by side.                                                                *)
(***************************************************************************)
EXTENDS MCEvents, FiniteSetTheorems, SequenceTheorems, WellFoundedInduction, TLAPS

(* From the audit log to the endpoints *)

Targets == ToSet(Endpoints)

\* Events the endpoint e was offered, counting a batch in writing it was given already.
Offered(e) == Len(sent[e]) + IF e \in ToSet(flush.left) THEN Len(flush.batch) ELSE 0

Taken(e) == Offered(e) + Len(buffer)

\* Requests whose event is not in the buffer or in the batch yet.
Waiting == {r \in Requests : event[r] # 0 /\ ~(Flushing /\ r = Head(line))}

PipeTypes ==
  /\ log \in Nat
  /\ event \in [Requests -> Nat] /\ \A r \in Requests : event[r] <= log
  /\ buffer \in Seq(Nat)
  /\ line \in Seq(Requests \cup Loops)
  /\ flush \in [batch : Seq(Nat), left : Seq(Targets)]
  /\ loop \in [Loops -> {"unborn", "asleep", "awake", "over"}]
  /\ task \in Loops
  /\ stop \in {"no", "waiting", "done"}
  /\ sent \in [Targets -> Seq(Nat)]

\* The line: a request is in it exactly while it has an event, nobody is in it twice, and
\* those who came later have later events.
Lined ==
  /\ \A i, j \in 1 .. Len(line) : line[i] = line[j] => i = j
  /\ \A r \in Requests : event[r] # 0 <=> \E i \in 1 .. Len(line) : line[i] = r
  /\ \A k \in Loops : loop[k] = "awake" <=> \E i \in 1 .. Len(line) : line[i] = k
  /\ \A i, j \in 1 .. Len(line) :
       line[i] \in Requests /\ line[j] \in Requests /\ i < j => event[line[i]] < event[line[j]]

FlushShape ==
  /\ Flushing => line # <<>> /\ buffer = <<>> /\ flush.left # <<>>
  /\ ~Flushing => flush.left = <<>>
  /\ \A i, j \in 1 .. Len(flush.left) : flush.left[i] = flush.left[j] => i = j
  /\ Flushing /\ Head(line) \in Requests => event[Head(line)] \in ToSet(flush.batch)

\* The audit log is what an endpoint was offered, then the batch unless it was, then the
\* buffer, then the waiting requests' events.
SentFirst == \A e \in Targets : \A i \in 1 .. Len(sent[e]) : sent[e][i] = i
BatchNext ==
  \A e \in Targets : e \in ToSet(flush.left) =>
    \A i \in 1 .. Len(flush.batch) : flush.batch[i] = Len(sent[e]) + i
BufferNext == \A e \in Targets : \A i \in 1 .. Len(buffer) : buffer[i] = Offered(e) + i
WaitingLast ==
  \A e \in Targets :
    /\ Taken(e) <= log
    /\ \A r \in Waiting : event[r] \in Taken(e) + 1 .. log
    /\ \A n \in Taken(e) + 1 .. log : \E r \in Waiting : event[r] = n

Stopped ==
  /\ stop # "no" => \A r \in Requests : event[r] = 0
  /\ \A k \in Loops : loop[k] = "over" => stop # "no" /\ buffer = <<>>
  /\ \A k \in Loops : k > task => loop[k] = "unborn"
  /\ StopFlushes

PipeInv ==
  /\ PipeTypes /\ Lined /\ FlushShape
  /\ SentFirst /\ BatchNext /\ BufferNext /\ WaitingLast
  /\ Stopped

PipeConstants ==
  IsFiniteSet(Requests) /\ Requests \cap Loops = {} /\ Endpoints \in Seq(Targets)

-------------------------------------------------------------------------------
(* Sequences by their elements *)

LEMMA Appended ==
  ASSUME NEW S, NEW s \in Seq(S), NEW x \in S
  PROVE  /\ Append(s, x) \in Seq(S) /\ Len(Append(s, x)) = Len(s) + 1 /\ Len(s) \in Nat
         /\ \A i \in 1 .. Len(s) : Append(s, x)[i] = s[i]
         /\ Append(s, x)[Len(s) + 1] = x
  OBVIOUS

LEMMA Elementwise ==
  ASSUME NEW S, NEW R, NEW s \in Seq(S), \A i \in 1 .. Len(s) : s[i] \in R
  PROVE  s \in Seq(R)
  OBVIOUS

LEMMA Tailed ==
  ASSUME NEW S, NEW s \in Seq(S), s # <<>>
  PROVE  /\ Tail(s) \in Seq(S) /\ Len(Tail(s)) = Len(s) - 1 /\ Len(s) \in Nat \ {0}
         /\ \A i \in 1 .. Len(s) - 1 : Tail(s)[i] = s[i + 1]
         /\ Head(s) = s[1] /\ Head(s) \in S
  OBVIOUS

LEMMA Joined ==
  ASSUME NEW S, NEW s \in Seq(S), NEW t \in Seq(S)
  PROVE  /\ s \o t \in Seq(S) /\ Len(s \o t) = Len(s) + Len(t)
         /\ Len(s) \in Nat /\ Len(t) \in Nat
         /\ \A i \in 1 .. Len(s) : (s \o t)[i] = s[i]
         /\ \A i \in 1 .. Len(t) : (s \o t)[Len(s) + i] = t[i]
  OBVIOUS

LEMMA Differences ==
  \A a, b \in Nat : \A i \in 1 .. a + b :
    ~(i <= a) => i - a \in 1 .. b /\ i = a + (i - a)
  OBVIOUS

LEMMA Sums == \A a, b \in Nat : a + b \in Nat /\ a <= a + b
  OBVIOUS

LEMMA Heads ==
  ASSUME NEW S, NEW s \in Seq(S), NEW x \in S, s # <<>>
  PROVE  Append(s, x) # <<>> /\ Head(Append(s, x)) = Head(s) /\ Head(s) = s[1] /\ 1 \in 1 .. Len(s)
  OBVIOUS

LEMMA Elements ==
  ASSUME NEW S, NEW s \in Seq(S), NEW x
  PROVE  x \in ToSet(s) <=> \E i \in 1 .. Len(s) : s[i] = x
  BY DEF ToSet

LEMMA TailSet ==
  ASSUME NEW S, NEW s \in Seq(S), s # <<>>,
         \A i, j \in 1 .. Len(s) : s[i] = s[j] => i = j
  PROVE  /\ Head(s) \in ToSet(s)
         /\ \A x : x \in ToSet(Tail(s)) <=> x \in ToSet(s) /\ x # Head(s)
         /\ \A i, j \in 1 .. Len(Tail(s)) : Tail(s)[i] = Tail(s)[j] => i = j
<1>1. /\ Tail(s) \in Seq(S) /\ Len(Tail(s)) = Len(s) - 1 /\ Len(s) \in Nat \ {0}
      /\ \A i \in 1 .. Len(s) - 1 : Tail(s)[i] = s[i + 1]
      /\ Head(s) = s[1] /\ 1 \in 1 .. Len(s)
  BY Tailed
<1>2. Head(s) \in ToSet(s)
  BY <1>1, Elements
<1>3. \A x : x \in ToSet(s) <=> \E i \in 1 .. Len(s) : s[i] = x
  <2> TAKE x
  <2> QED
    BY Elements
<1>4. \A x : x \in ToSet(Tail(s)) <=> \E i \in 1 .. Len(Tail(s)) : Tail(s)[i] = x
  <2> DEFINE t == Tail(s)
  <2>1. t \in Seq(S)
    BY <1>1
  <2> HIDE DEF t
  <2>2. \A x : x \in ToSet(t) <=> \E i \in 1 .. Len(t) : t[i] = x
    <3> TAKE x
    <3> QED
      BY <2>1, Elements
  <2> QED
    BY <2>2 DEF t
<1>5. ASSUME NEW x, x \in ToSet(Tail(s))  PROVE x \in ToSet(s) /\ x # Head(s)
  <2>1. PICK i \in 1 .. Len(Tail(s)) : Tail(s)[i] = x
    BY <1>4, <1>5
  <2>2. i + 1 \in 1 .. Len(s) /\ s[i + 1] = x /\ i + 1 # 1
    BY <1>1, <2>1
  <2> QED
    BY <1>1, <1>3, <2>2
<1>6. ASSUME NEW x, x \in ToSet(s), x # Head(s)  PROVE x \in ToSet(Tail(s))
  <2>1. PICK i \in 1 .. Len(s) : s[i] = x
    BY <1>3, <1>6
  <2>2. i - 1 \in 1 .. Len(Tail(s)) /\ Tail(s)[i - 1] = s[(i - 1) + 1] /\ (i - 1) + 1 = i
    BY <1>1, <1>6, <2>1
  <2> QED
    BY <1>4, <2>1, <2>2
<1>7. ASSUME NEW i \in 1 .. Len(Tail(s)), NEW j \in 1 .. Len(Tail(s)), Tail(s)[i] = Tail(s)[j]
      PROVE  i = j
  <2>1. i + 1 \in 1 .. Len(s) /\ j + 1 \in 1 .. Len(s) /\ s[i + 1] = s[j + 1]
    BY <1>1, <1>7
  <2>2. i + 1 = j + 1
    BY <2>1
  <2> QED
    BY <1>1, <2>2
<1> QED
  BY <1>2, <1>5, <1>6, <1>7

-------------------------------------------------------------------------------
(* The line *)

\* Who joins the line was not in it, and has the latest event.
LEMMA Joins ==
  ASSUME PipeTypes, Lined, PipeConstants, NEW p \in Requests \cup Loops,
         \A i \in 1 .. Len(line) : line[i] # p,
         line' = Append(line, p),
         p \in Requests => /\ event'[p] # 0 /\ loop' = loop
                           /\ \A r \in Requests :
                                r # p => event'[r] = event[r] /\ event[r] < event'[p],
         p \in Loops => /\ loop'[p] = "awake" /\ event' = event
                        /\ \A k \in Loops : k # p => loop'[k] = loop[k]
  PROVE  Lined'
<1>1. /\ Len(line') = Len(line) + 1 /\ Len(line) \in Nat /\ line'[Len(line) + 1] = p
      /\ \A i \in 1 .. Len(line) : line'[i] = line[i]
  BY Appended DEF PipeTypes
<1>2. \A i, j \in 1 .. Len(line') : line'[i] = line'[j] => i = j
  BY <1>1 DEF Lined
<1>3. \A x : (\E i \in 1 .. Len(line') : line'[i] = x) <=>
               x = p \/ \E i \in 1 .. Len(line) : line[i] = x
  BY <1>1
<1>4. \A r \in Requests : event'[r] # 0 <=> r = p \/ event[r] # 0
  BY DEF PipeConstants
<1>5. \A k \in Loops : loop'[k] = "awake" <=> k = p \/ loop[k] = "awake"
  BY DEF PipeConstants
<1>6. ASSUME NEW i \in 1 .. Len(line'), NEW j \in 1 .. Len(line'),
             line'[i] \in Requests, line'[j] \in Requests, i < j
      PROVE  event'[line'[i]] < event'[line'[j]]
  <2>1. i \in 1 .. Len(line) /\ line'[i] = line[i] /\ line[i] # p
    BY <1>1, <1>6
  <2>2. CASE j = Len(line) + 1
    BY <1>1, <1>6, <2>1, <2>2
  <2>3. CASE j # Len(line) + 1
    <3>1. j \in 1 .. Len(line) /\ line'[j] = line[j] /\ line[j] # p
      BY <1>1, <1>6, <2>3
    <3>2. event[line[i]] < event[line[j]]
      BY <1>6, <2>1, <3>1 DEF Lined
    <3>3. event'[line[i]] = event[line[i]] /\ event'[line[j]] = event[line[j]]
      BY <1>6, <2>1, <3>1 DEF PipeConstants
    <3> QED
      BY <2>1, <3>1, <3>2, <3>3
  <2> QED
    BY <2>2, <2>3
<1> QED
  BY <1>2, <1>3, <1>4, <1>5, <1>6 DEF Lined

\* Who leaves it is its head.
LEMMA Leaves ==
  ASSUME PipeTypes, Lined, PipeConstants, line # <<>>, Leave(Head(line))
  PROVE  /\ Lined'
         /\ line' \in Seq(Requests \cup Loops)
         /\ event' \in [Requests -> Nat] /\ \A r \in Requests : event'[r] <= log
         /\ loop' \in [Loops -> {"unborn", "asleep", "awake", "over"}]
         /\ \A r \in Requests : event'[r] = IF r = Head(line) THEN 0 ELSE event[r]
<1> DEFINE p == Head(line)
<1>1. /\ line' = Tail(line) /\ line' \in Seq(Requests \cup Loops)
      /\ Len(line') = Len(line) - 1 /\ Len(line) \in Nat \ {0}
      /\ \A i \in 1 .. Len(line) - 1 : line'[i] = line[i + 1]
      /\ p = line[1] /\ p \in Requests \cup Loops
  BY Tailed DEF PipeTypes, Leave
<1>2. \A r \in Requests : event'[r] = IF r = p THEN 0 ELSE event[r]
  BY <1>1 DEF Leave, PipeTypes, PipeConstants
<1>3. /\ event' \in [Requests -> Nat] /\ \A r \in Requests : event'[r] <= log
      /\ loop' \in [Loops -> {"unborn", "asleep", "awake", "over"}]
  <2>1. CASE p \in Loops
    <3> DEFINE next == IF stop = "no" THEN "asleep" ELSE "over"
    <3>1. event' = event /\ loop' = [loop EXCEPT ![p] = next]
      BY <2>1 DEF Leave
    <3>2. next \in {"unborn", "asleep", "awake", "over"}
      OBVIOUS
    <3> HIDE DEF next, p
    <3>3. loop' \in [Loops -> {"unborn", "asleep", "awake", "over"}]
      BY <3>1, <3>2 DEF PipeTypes
    <3> QED
      BY <3>1, <3>3 DEF PipeTypes
  <2>2. CASE p \notin Loops
    <3>1. loop' = loop /\ event' = [event EXCEPT ![p] = 0]
      BY <2>2 DEF Leave
    <3> HIDE DEF p
    <3>2. event' \in [Requests -> Nat]
      BY <3>1 DEF PipeTypes
    <3>3. \A r \in Requests : event'[r] <= log
      <4> TAKE r \in Requests
      <4>1. CASE r = p
        BY <1>2, <4>1 DEF PipeTypes
      <4>2. CASE r # p
        BY <1>2, <4>2 DEF PipeTypes
      <4> QED
        BY <4>1, <4>2
    <3> QED
      BY <3>1, <3>2, <3>3 DEF PipeTypes
  <2> QED
    BY <2>1, <2>2
<1>4. \A k \in Loops : loop'[k] = "awake" <=> k # p /\ loop[k] = "awake"
  BY <1>1 DEF Leave, PipeTypes, PipeConstants
<1>5. \A i, j \in 1 .. Len(line') : line'[i] = line'[j] => i = j
  <2> SUFFICES ASSUME NEW i \in 1 .. Len(line'), NEW j \in 1 .. Len(line'), line'[i] = line'[j]
               PROVE  i = j
    OBVIOUS
  <2>1. i + 1 \in 1 .. Len(line) /\ j + 1 \in 1 .. Len(line) /\ line[i + 1] = line[j + 1]
    BY <1>1
  <2>2. i + 1 = j + 1
    BY <2>1 DEF Lined
  <2> QED
    BY <2>2, <1>1
<1>6. \A x : (\E i \in 1 .. Len(line') : line'[i] = x) <=>
               x # p /\ \E i \in 1 .. Len(line) : line[i] = x
  <2> TAKE x
  <2>1. ASSUME NEW i \in 1 .. Len(line'), line'[i] = x
        PROVE  x # p /\ \E j \in 1 .. Len(line) : line[j] = x
    <3>1. i + 1 \in 1 .. Len(line) /\ line[i + 1] = x /\ 1 \in 1 .. Len(line) /\ i + 1 # 1
      BY <1>1, <2>1
    <3> QED
      BY <1>1, <3>1 DEF Lined
  <2>2. ASSUME x # p, NEW i \in 1 .. Len(line), line[i] = x
        PROVE  \E j \in 1 .. Len(line') : line'[j] = x
    <3>1. i - 1 \in 1 .. Len(line') /\ line'[i - 1] = line[(i - 1) + 1] /\ (i - 1) + 1 = i
      BY <1>1, <2>2
    <3> QED
      BY <2>2, <3>1
  <2> QED
    BY <2>1, <2>2
<1>7. ASSUME NEW i \in 1 .. Len(line'), NEW j \in 1 .. Len(line'),
             line'[i] \in Requests, line'[j] \in Requests, i < j
      PROVE  event'[line'[i]] < event'[line'[j]]
  <2>1. /\ i + 1 \in 1 .. Len(line) /\ j + 1 \in 1 .. Len(line) /\ i + 1 < j + 1
        /\ line'[i] = line[i + 1] /\ line'[j] = line[j + 1]
    BY <1>1, <1>7
  <2>2. event[line[i + 1]] < event[line[j + 1]]
    BY <1>7, <2>1 DEF Lined
  <2>3. line'[i] # p /\ line'[j] # p
    BY <1>6
  <2> QED
    BY <1>2, <1>7, <2>1, <2>2, <2>3
<1>8. \A r \in Requests : event'[r] # 0 <=> \E i \in 1 .. Len(line') : line'[i] = r
  <2> TAKE r \in Requests
  <2>1. event'[r] # 0 <=> r # p /\ event[r] # 0
    BY <1>2
  <2>2. event[r] # 0 <=> \E i \in 1 .. Len(line) : line[i] = r
    BY DEF Lined
  <2> QED
    BY <1>6, <2>1, <2>2
<1>9. \A k \in Loops : loop'[k] = "awake" <=> \E i \in 1 .. Len(line') : line'[i] = k
  BY <1>4, <1>6 DEF Lined
<1>10. Lined'
  BY <1>5, <1>7, <1>8, <1>9 DEF Lined
<1> QED
  BY <1>1, <1>2, <1>3, <1>10

\* A loop that leaves the line sleeps, or is over if it was stopped.
LEMMA LoopLeaves ==
  ASSUME PipeTypes, Lined, Stopped, PipeConstants, line # <<>>, Leave(Head(line)), task' = task
  PROVE  /\ \A k \in Loops : loop'[k] = "over" => loop[k] = "over" \/ stop # "no"
         /\ \A k \in Loops : k > task => loop'[k] = "unborn"
<1> DEFINE p == Head(line)
<1>1. CASE p \in Loops
  <2> DEFINE next == IF stop = "no" THEN "asleep" ELSE "over"
  <2>1. loop' = [loop EXCEPT ![p] = next]
    BY <1>1 DEF Leave
  <2>2. loop[p] = "awake"
    <3>1. p = line[1] /\ 1 \in 1 .. Len(line)
      BY Tailed DEF PipeTypes
    <3> QED
      BY <1>1, <3>1 DEF Lined
  <2>3. next = "over" => stop # "no"
    OBVIOUS
  <2> HIDE DEF next, p
  <2>4. \A k \in Loops : loop'[k] = IF k = p THEN next ELSE loop[k]
    BY <2>1 DEF PipeTypes
  <2> QED
    BY <2>2, <2>3, <2>4 DEF Stopped
<1>2. CASE p \notin Loops
  BY <1>2 DEF Leave, Stopped
<1> QED
  BY <1>1, <1>2

-------------------------------------------------------------------------------
(* Flushes *)

LEMMA NotFlushing ==
  ASSUME PipeTypes, FlushShape, ~Flushing
  PROVE  /\ flush.batch = <<>> /\ flush.left = <<>>
         /\ \A e \in Targets : e \notin ToSet(flush.left) /\ Offered(e) = Len(sent[e])
         /\ Waiting = {r \in Requests : event[r] # 0}
<1>1. flush.batch = <<>> /\ flush.left = <<>>
  BY DEF FlushShape, Flushing
<1>2. \A e \in Targets : e \notin ToSet(flush.left)
  BY <1>1 DEF ToSet
<1>3. \A e \in Targets : Len(sent[e]) \in Nat
  BY DEF PipeTypes
<1>4. \A e \in Targets : Offered(e) = Len(sent[e])
  <2> TAKE e \in Targets
  <2>1. Offered(e) = Len(sent[e]) + 0
    BY <1>2 DEF Offered
  <2> QED
    BY <1>3, <2>1
<1> QED
  BY <1>1, <1>2, <1>4 DEF Waiting

LEMMA TakenIsNat ==
  ASSUME PipeTypes
  PROVE  \A e \in Targets : Offered(e) \in Nat /\ Taken(e) \in Nat
<1> TAKE e \in Targets
<1>1. sent[e] \in Seq(Nat) /\ buffer \in Seq(Nat) /\ flush.batch \in Seq(Nat)
  BY DEF PipeTypes
<1>2. Len(sent[e]) \in Nat /\ Len(buffer) \in Nat /\ Len(flush.batch) \in Nat
  BY <1>1
<1>3. Offered(e) \in Nat
  <2>1. CASE e \in ToSet(flush.left)
    <3>1. Offered(e) = Len(sent[e]) + Len(flush.batch)
      BY <2>1 DEF Offered
    <3>2. Len(sent[e]) + Len(flush.batch) \in Nat
      BY <1>2, Sums
    <3> QED
      BY <3>1, <3>2, Zenon
  <2>2. CASE e \notin ToSet(flush.left)
    <3>1. Offered(e) = Len(sent[e]) + 0
      BY <2>2 DEF Offered
    <3>2. Len(sent[e]) + 0 \in Nat
      BY <1>2, Sums
    <3> QED
      BY <3>1, <3>2, Zenon
  <2> QED
    BY <2>1, <2>2
<1> QED
  BY <1>2, <1>3 DEF Taken

\* The request whose turn it is has the earliest event that waits.
LEMMA TurnIsNext ==
  ASSUME PipeTypes, Lined, FlushShape, WaitingLast, NEW r \in Requests, Turn(r), NEW e \in Targets
  PROVE  /\ event[r] = Taken(e) + 1
         /\ \A q \in Requests : event[q] # 0 /\ q # r => event[q] > event[r]
<1> DEFINE n == Taken(e) + 1
<1>1. /\ line # <<>> /\ ~Flushing /\ Len(line) \in Nat \ {0}
      /\ line[1] = r /\ 1 \in 1 .. Len(line)
  BY Tailed DEF Turn, PipeTypes
<1>2. event[r] # 0
  BY <1>1 DEF Lined
<1>3. \A q \in Requests : event[q] # 0 /\ q # r => event[q] > event[r]
  <2> SUFFICES ASSUME NEW q \in Requests, event[q] # 0, q # r  PROVE event[q] > event[r]
    OBVIOUS
  <2>1. PICK j \in 1 .. Len(line) : line[j] = q
    BY DEF Lined
  <2>2. j # 1 /\ 1 < j
    BY <1>1, <2>1
  <2>3. event[line[1]] < event[line[j]]
    BY <1>1, <2>1, <2>2 DEF Lined
  <2>4. event[r] \in Nat /\ event[q] \in Nat
    BY DEF PipeTypes
  <2> QED
    BY <1>1, <2>1, <2>3, <2>4
<1>4. r \in Waiting
  BY <1>1, <1>2, NotFlushing
<1>5. event[r] \in n .. log
  BY <1>4 DEF WaitingLast
<1>6. Taken(e) \in Nat /\ log \in Nat
  <2>1. Len(sent[e]) \in Nat /\ Len(buffer) \in Nat /\ log \in Nat
    BY DEF PipeTypes
  <2>2. Offered(e) = Len(sent[e])
    BY <1>1, NotFlushing
  <2> QED
    BY <2>1, <2>2 DEF Taken
<1>7. n \in n .. log
  BY <1>5, <1>6
<1>8. PICK q \in Waiting : event[q] = n
  BY <1>7 DEF WaitingLast
<1>9. q \in Requests /\ event[q] # 0
  BY <1>8 DEF Waiting
<1>10. q = r \/ event[q] > event[r]
  BY <1>3, <1>9
<1> HIDE DEF n
<1>11. event[r] = n
  <2>1. CASE q = r
    BY <1>8, <2>1
  <2>2. CASE q # r
    <3>1. n > event[r]
      BY <1>8, <1>10, <2>2
    <3>2. n \in Int /\ event[r] \in Nat
      BY <1>8, <1>9 DEF PipeTypes
    <3> QED
      BY <1>5, <1>6, <3>1, <3>2
  <2> QED
    BY <2>1, <2>2
<1> QED
  BY <1>3, <1>11 DEF n

\* The events that wait stay what they are when nobody starts or stops waiting.
LEMMA SameWait ==
  ASSUME WaitingLast, log' = log, Waiting' = Waiting,
         \A r \in Waiting : event'[r] = event[r],
         \A e \in Targets : Taken(e)' = Taken(e)
  PROVE  WaitingLast'
<1>1. Targets' = Targets
  BY DEF Targets
<1> SUFFICES ASSUME NEW e \in Targets
             PROVE  /\ Taken(e)' <= log'
                    /\ \A r \in Waiting' : event'[r] \in Taken(e)' + 1 .. log'
                    /\ \A n \in Taken(e)' + 1 .. log' : \E r \in Waiting' : event'[r] = n
  BY <1>1 DEF WaitingLast
<1> QED
  BY DEF WaitingLast

\* A step that leaves the events where they are.
Untouched == UNCHANGED <<log, event, buffer, flush, sent>>

LEMMA SameEvents ==
  ASSUME PipeInv, Untouched, Waiting' = Waiting
  PROVE  SentFirst' /\ BatchNext' /\ BufferNext' /\ WaitingLast'
<1>1. UNCHANGED <<log, event, buffer, flush, sent>>
  BY DEF Untouched
<1>2. SentFirst' /\ BatchNext'
  BY <1>1 DEF PipeInv, SentFirst, BatchNext, Targets
<1>3. \A e \in Targets : Offered(e)' = Offered(e) /\ Taken(e)' = Taken(e)
  BY <1>1 DEF Offered, Taken
<1>4. BufferNext'
  BY <1>1, <1>3 DEF PipeInv, BufferNext, Targets
<1>5. WaitingLast'
  BY <1>1, <1>3, SameWait DEF PipeInv
<1> QED
  BY <1>2, <1>4, <1>5

\* Nor does a step that leaves the line, its requests and its loops.
LEMMA SameLine ==
  ASSUME Lined, UNCHANGED <<line, event, loop>>
  PROVE  Lined'
BY DEF Lined

\* A flush takes up what the buffer and its owner had.
LEMMA Begins ==
  ASSUME PipeInv, PipeConstants, NEW p, Turn(p), NEW evs \in Seq(Nat), evs # <<>>,
         StartFlush(evs), UNCHANGED <<log, task, stop, sent>>,
         p \in Requests => event[p] \in ToSet(evs),
         NEW more \in Nat, Len(evs) = Len(buffer) + more,
         \A e \in Targets :
           /\ Taken(e) + more <= log
           /\ \A i \in 1 .. Len(evs) : evs[i] = Offered(e) + i
           /\ \A r \in Requests : event[r] # 0 /\ r # p => event[r] \in Taken(e) + more + 1 .. log
           /\ \A n \in Taken(e) + more + 1 .. log :
                \E r \in Requests : event[r] # 0 /\ r # p /\ event[r] = n
  PROVE  PipeInv'
<1>1. /\ flush' = [batch |-> evs, left |-> Endpoints] /\ buffer' = <<>>
      /\ UNCHANGED <<line, event, loop, log, task, stop, sent>>
  BY DEF StartFlush
<1>2. flush'.batch = evs /\ flush'.left = Endpoints /\ Flushing'
  BY <1>1 DEF Flushing
<1>3. line # <<>> /\ Head(line) = p /\ ~Flushing
  BY DEF Turn
<1>4. PipeTypes'
  BY <1>1 DEF PipeInv, PipeTypes, PipeConstants
<1>5. Lined'
  BY <1>1, SameLine DEF PipeInv
<1>6. FlushShape'
  <2>1. \A i, j \in 1 .. Len(Endpoints) : Endpoints[i] = Endpoints[j] => i = j
    BY PipelineAssumption DEF IsInjective, PipeConstants
  <2>2. Endpoints # <<>>
    BY PipelineAssumption
  <2> QED
    BY <1>1, <1>2, <1>3, <2>1, <2>2 DEF FlushShape
<1>7. \A e \in Targets :
        /\ e \in ToSet(flush'.left) /\ Offered(e) = Len(sent[e]) /\ Offered(e) \in Nat
        /\ Offered(e)' = Offered(e) + Len(evs) /\ Taken(e)' = Taken(e) + more
  <2> SUFFICES ASSUME NEW e \in Targets
               PROVE  /\ e \in ToSet(flush'.left) /\ Offered(e) = Len(sent[e])
                      /\ Offered(e) \in Nat
                      /\ Offered(e)' = Offered(e) + Len(evs) /\ Taken(e)' = Taken(e) + more
    OBVIOUS
  <2>1. Offered(e) = Len(sent[e])
    BY <1>3, NotFlushing DEF PipeInv
  <2>2. sent[e] \in Seq(Nat) /\ buffer \in Seq(Nat)
    BY DEF PipeInv, PipeTypes
  <2>3. Len(sent[e]) \in Nat /\ Len(buffer) \in Nat /\ Len(evs) \in Nat /\ Len(buffer') = 0
    BY <1>1, <2>2
  <2>4. e \in ToSet(flush'.left)
    BY <1>2 DEF Targets
  <2>5. Offered(e)' = Len(sent'[e]) + Len(evs)
    BY <1>2, <2>4 DEF Offered
  <2>6. sent' = sent
    BY <1>1
  <2>7. Offered(e)' = Offered(e) + Len(evs)
    BY <2>1, <2>5, <2>6
  <2>8. Taken(e)' = Taken(e) + more
    <3>1. Taken(e)' = Offered(e)' + 0
      BY <2>3 DEF Taken
    <3>2. Taken(e) = Offered(e) + Len(buffer)
      BY DEF Taken
    <3>3. Offered(e) \in Nat
      BY <2>1, <2>3
    <3> QED
      BY <2>3, <2>7, <3>1, <3>2, <3>3
  <2> QED
    BY <2>1, <2>3, <2>4, <2>7, <2>8
<1>8. Waiting' = {r \in Requests : event[r] # 0 /\ r # p}
  BY <1>1, <1>2, <1>3 DEF Waiting
<1>9. SentFirst'
  BY <1>1 DEF PipeInv, SentFirst, Targets
<1>10. BatchNext'
  <2> SUFFICES ASSUME NEW e \in Targets, NEW i \in 1 .. Len(flush'.batch)
               PROVE  flush'.batch[i] = Len(sent'[e]) + i
    BY DEF BatchNext, Targets
  <2>1. flush'.batch = evs /\ sent' = sent
    BY <1>1, <1>2
  <2>2. evs[i] = Offered(e) + i
    BY <2>1
  <2> QED
    BY <1>7, <2>1, <2>2
<1>11. BufferNext'
  BY <1>1 DEF BufferNext
<1>12. WaitingLast'
  <2> SUFFICES ASSUME NEW e \in Targets
               PROVE  /\ Taken(e)' <= log'
                      /\ \A r \in Waiting' : event'[r] \in Taken(e)' + 1 .. log'
                      /\ \A n \in Taken(e)' + 1 .. log' : \E r \in Waiting' : event'[r] = n
    BY DEF WaitingLast, Targets
  <2>1. Taken(e)' = Taken(e) + more /\ log' = log /\ event' = event
    BY <1>1, <1>7
  <2> QED
    BY <1>8, <2>1
<1>13. Stopped'
  BY <1>1 DEF PipeInv, Stopped, StopFlushes
<1> QED
  BY <1>4, <1>5, <1>6, <1>9, <1>10, <1>11, <1>12, <1>13 DEF PipeInv

-------------------------------------------------------------------------------
(* The steps *)

LEMMA RecordStep ==
  ASSUME PipeInv, PipeConstants, NEW r \in Requests, Record(r)
  PROVE  PipeInv'
<1>1. /\ event[r] = 0 /\ stop = "no" /\ log' = log + 1 /\ log \in Nat
      /\ event' = [event EXCEPT ![r] = log + 1] /\ line' = Append(line, r)
      /\ UNCHANGED <<buffer, flush, loop, task, stop, sent>>
  BY DEF Record, PipeInv, PipeTypes
<1>2. \A q \in Requests : event'[q] = IF q = r THEN log + 1 ELSE event[q]
  BY <1>1 DEF PipeInv, PipeTypes
<1>3. event' \in [Requests -> Nat]
  BY <1>1 DEF PipeInv, PipeTypes
<1>4. \A q \in Requests : event[q] \in Nat /\ event[q] <= log
  BY DEF PipeInv, PipeTypes
<1>5. \A q \in Requests : event'[q] <= log'
  <2> TAKE q \in Requests
  <2>1. CASE q = r
    BY <1>1, <1>2, <2>1
  <2>2. CASE q # r
    BY <1>1, <1>2, <1>4, <2>2
  <2> QED
    BY <2>1, <2>2
<1>6. line' \in Seq(Requests \cup Loops)
  BY <1>1, Appended DEF PipeInv, PipeTypes
<1>7. PipeTypes'
  <2>1. log' \in Nat
    BY <1>1
  <2> QED
    BY <1>1, <1>3, <1>5, <1>6, <2>1 DEF PipeInv, PipeTypes, Targets
<1>8. Lined'
  <2>1. \A i \in 1 .. Len(line) : line[i] # r
    BY <1>1 DEF PipeInv, Lined
  <2>2. event'[r] # 0
    BY <1>1, <1>2
  <2>3. \A q \in Requests : q # r => event'[q] = event[q] /\ event[q] < event'[r]
    BY <1>1, <1>2, <1>4
  <2>4. r \notin Loops
    BY DEF PipeConstants
  <2> QED
    BY <1>1, <2>1, <2>2, <2>3, <2>4, Joins DEF PipeInv
<1>9. line # <<>> => line' # <<>> /\ Head(line') = Head(line) /\ Head(line) # r
  BY <1>1, Heads, SMTT(30) DEF PipeInv, PipeTypes, Lined
<1>10. FlushShape'
  <2>1. Flushing' <=> Flushing
    BY <1>1 DEF Flushing
  <2>2. Flushing /\ Head(line') \in Requests => event'[Head(line')] \in ToSet(flush'.batch)
    BY <1>1, <1>2, <1>9 DEF PipeInv, FlushShape
  <2> QED
    BY <1>1, <1>9, <2>1, <2>2 DEF PipeInv, FlushShape
<1>11. \A e \in Targets : Offered(e)' = Offered(e) /\ Taken(e)' = Taken(e) /\ Taken(e) \in Nat
  BY <1>1, TakenIsNat DEF Offered, Taken, PipeInv
<1>12. SentFirst' /\ BatchNext' /\ BufferNext'
  <2>1. SentFirst' /\ BatchNext'
    BY <1>1 DEF PipeInv, SentFirst, BatchNext, Targets
  <2>2. BufferNext'
    BY <1>1, <1>11 DEF PipeInv, BufferNext, Targets
  <2> QED
    BY <2>1, <2>2
<1>13. \A q \in Requests : q \in Waiting' <=> q = r \/ q \in Waiting
  <2> TAKE q \in Requests
  <2>1. Flushing' <=> Flushing
    BY <1>1 DEF Flushing
  <2>2. Flushing => line # <<>>
    BY DEF PipeInv, FlushShape
  <2>3. event'[q] # 0 <=> q = r \/ event[q] # 0
    BY <1>1, <1>2
  <2>4. Flushing => Head(line') = Head(line) /\ Head(line) # r
    BY <1>9, <2>2
  <2> QED
    BY <2>1, <2>3, <2>4 DEF Waiting
<1>14. WaitingLast'
  <2> SUFFICES ASSUME NEW e \in Targets
               PROVE  /\ Taken(e)' <= log'
                      /\ \A q \in Waiting' : event'[q] \in Taken(e)' + 1 .. log'
                      /\ \A n \in Taken(e)' + 1 .. log' : \E q \in Waiting' : event'[q] = n
    BY DEF WaitingLast, Targets
  <2>1. /\ Taken(e) <= log
        /\ \A q \in Waiting : event[q] \in Taken(e) + 1 .. log
        /\ \A n \in Taken(e) + 1 .. log : \E q \in Waiting : event[q] = n
    BY DEF PipeInv, WaitingLast
  <2>2. Taken(e)' = Taken(e) /\ Taken(e) \in Nat
    BY <1>11
  <2>3. Taken(e)' <= log'
    BY <1>1, <2>1, <2>2
  <2>4. ASSUME NEW q \in Waiting'  PROVE event'[q] \in Taken(e)' + 1 .. log'
    <3>1. q \in Requests
      BY DEF Waiting
    <3>2. CASE q = r
      BY <1>1, <1>2, <2>1, <2>2, <3>2
    <3>3. CASE q # r
      <4>1. event'[q] = event[q] /\ event[q] \in Taken(e) + 1 .. log
        BY <1>2, <1>13, <2>1, <3>1, <3>3
      <4> QED
        BY <1>1, <2>2, <4>1
    <3> QED
      BY <3>2, <3>3
  <2>5. ASSUME NEW n \in Taken(e)' + 1 .. log'  PROVE \E q \in Waiting' : event'[q] = n
    <3>1. CASE n = log + 1
      BY <1>1, <1>2, <1>13, <3>1
    <3>2. CASE n # log + 1
      <4>1. n \in Taken(e) + 1 .. log
        BY <1>1, <2>2, <3>2
      <4>2. PICK q \in Waiting : event[q] = n
        BY <2>1, <4>1
      <4>3. q \in Requests /\ q # r
        BY <1>1, <4>2 DEF Waiting
      <4> QED
        BY <1>2, <1>13, <4>2, <4>3
    <3> QED
      BY <3>1, <3>2
  <2> QED
    BY <2>3, <2>4, <2>5
<1>15. Stopped'
  BY <1>1 DEF PipeInv, Stopped, StopFlushes
<1> QED
  BY <1>7, <1>8, <1>10, <1>12, <1>14, <1>15 DEF PipeInv

LEMMA WakeStep ==
  ASSUME PipeInv, PipeConstants, NEW k \in Loops, Wake(k)
  PROVE  PipeInv'
<1>1. /\ loop[k] = "asleep" /\ loop' = [loop EXCEPT ![k] = "awake"] /\ line' = Append(line, k)
      /\ UNCHANGED <<log, event, buffer, flush, task, stop, sent>>
  BY DEF Wake
<1>2. \A q \in Loops : loop'[q] = IF q = k THEN "awake" ELSE loop[q]
  BY <1>1 DEF PipeInv, PipeTypes
<1>3. loop' \in [Loops -> {"unborn", "asleep", "awake", "over"}]
  BY <1>1 DEF PipeInv, PipeTypes
<1>4. line' \in Seq(Requests \cup Loops)
  BY <1>1, Appended DEF PipeInv, PipeTypes
<1>5. PipeTypes'
  BY <1>1, <1>3, <1>4 DEF PipeInv, PipeTypes, Targets
<1>6. Lined'
  <2>1. \A i \in 1 .. Len(line) : line[i] # k
    BY <1>1 DEF PipeInv, Lined
  <2>2. loop'[k] = "awake" /\ \A q \in Loops : q # k => loop'[q] = loop[q]
    BY <1>2
  <2>3. k \notin Requests
    BY DEF PipeConstants
  <2> QED
    BY <1>1, <2>1, <2>2, <2>3, Joins DEF PipeInv
<1>7. line # <<>> => line' # <<>> /\ Head(line') = Head(line)
  BY <1>1, Heads DEF PipeInv, PipeTypes
<1>8. (Flushing' <=> Flushing) /\ (Flushing => line # <<>>)
  BY <1>1 DEF Flushing, PipeInv, FlushShape
<1>9. FlushShape'
  BY <1>1, <1>7, <1>8 DEF PipeInv, FlushShape
<1>10. Waiting' = Waiting
  BY <1>1, <1>7, <1>8 DEF Waiting
<1>11. Untouched
  BY <1>1 DEF Untouched
<1>12. SentFirst' /\ BatchNext' /\ BufferNext' /\ WaitingLast'
  BY <1>1, <1>10, <1>11, SameEvents DEF PipeInv
<1>13. Stopped'
  BY <1>1, <1>2 DEF PipeInv, Stopped, StopFlushes
<1> QED
  BY <1>5, <1>6, <1>9, <1>12, <1>13 DEF PipeInv

LEMMA StartAgainStep ==
  ASSUME PipeInv, PipeConstants, StartAgain
  PROVE  PipeInv'
<1>1. /\ task < Starts /\ stop = "no" /\ task' = task + 1
      /\ loop' = [loop EXCEPT ![task + 1] = "asleep"]
      /\ UNCHANGED <<log, event, buffer, line, flush, stop, sent>>
  BY DEF StartAgain
<1>2. task + 1 \in Loops /\ task \in Loops /\ task + 1 > task
  BY <1>1, PipelineAssumption DEF PipeInv, PipeTypes, Loops
<1>3. loop[task + 1] = "unborn"
  BY <1>2 DEF PipeInv, Stopped
<1>4. \A k \in Loops : loop'[k] = IF k = task + 1 THEN "asleep" ELSE loop[k]
  BY <1>1, <1>2 DEF PipeInv, PipeTypes
<1>5. loop' \in [Loops -> {"unborn", "asleep", "awake", "over"}]
  BY <1>1, <1>2 DEF PipeInv, PipeTypes
<1>6. PipeTypes'
  BY <1>1, <1>2, <1>5 DEF PipeInv, PipeTypes, Targets
<1>7. Lined'
  BY <1>1, <1>3, <1>4 DEF PipeInv, Lined
<1>8. FlushShape'
  BY <1>1 DEF PipeInv, FlushShape, Flushing
<1>9. Untouched /\ Waiting' = Waiting
  BY <1>1 DEF Untouched, Waiting, Flushing
<1>10. SentFirst' /\ BatchNext' /\ BufferNext' /\ WaitingLast'
  BY <1>1, <1>9, SameEvents DEF PipeInv
<1>11. Stopped'
  <2>1. \A k \in Loops : loop'[k] = "over" => stop # "no" /\ buffer = <<>>
    BY <1>4 DEF PipeInv, Stopped
  <2>2. \A k \in Loops : k > task' => loop'[k] = "unborn"
    BY <1>1, <1>2, <1>4 DEF PipeInv, Stopped, Loops
  <2> QED
    BY <1>1, <2>1, <2>2 DEF PipeInv, Stopped, StopFlushes
<1> QED
  BY <1>6, <1>7, <1>8, <1>10, <1>11 DEF PipeInv

LEMMA StopStep ==
  ASSUME PipeInv, PipeConstants, Stop \/ StopReturns \/ UNCHANGED vars
  PROVE  PipeInv'
<1>1. UNCHANGED <<log, event, buffer, line, flush, loop, task, sent>>
  BY DEF Stop, StopReturns, vars
<1>2. stop' \in {"no", "waiting", "done"}
  BY DEF Stop, StopReturns, vars, PipeInv, PipeTypes
<1>3. PipeTypes'
  BY <1>1, <1>2 DEF PipeInv, PipeTypes, Targets
<1>4. Lined' /\ FlushShape'
  BY <1>1 DEF PipeInv, Lined, FlushShape, Flushing
<1>5. Untouched /\ Waiting' = Waiting
  BY <1>1 DEF Untouched, Waiting, Flushing
<1>6. SentFirst' /\ BatchNext' /\ BufferNext' /\ WaitingLast'
  BY <1>1, <1>5, SameEvents DEF PipeInv
<1>7. Stopped'
  <2>1. CASE Stop
    BY <1>1, <2>1 DEF Stop, PipeInv, Stopped, StopFlushes
  <2>2. CASE StopReturns
    <3>1. task \in Loops /\ loop[task] = "over" /\ stop = "waiting" /\ stop' = "done"
      BY <2>2 DEF StopReturns, PipeInv, PipeTypes
    <3>2. buffer = <<>>
      BY <3>1 DEF PipeInv, Stopped
    <3> QED
      BY <1>1, <3>1, <3>2 DEF PipeInv, Stopped, StopFlushes
  <2>3. CASE UNCHANGED vars
    BY <2>3 DEF vars, PipeInv, Stopped, StopFlushes
  <2> QED
    BY <2>1, <2>2, <2>3
<1> QED
  BY <1>3, <1>4, <1>6, <1>7 DEF PipeInv

LEMMA SomeTarget == ASSUME PipeConstants PROVE \E e : e \in Targets
<1>1. Endpoints \in Seq(Targets) /\ Endpoints # <<>>
  BY PipelineAssumption DEF PipeConstants
<1> QED
  BY <1>1, Tailed

LEMMA BufferStep ==
  ASSUME PipeInv, PipeConstants, NEW r \in Requests, Buffer(r)
  PROVE  PipeInv'
<1>1. /\ Turn(r) /\ line # <<>> /\ Head(line) = r /\ ~Flushing
      /\ UNCHANGED <<log, task, stop, sent>>
  BY DEF Buffer, Turn
<1> DEFINE evs == Append(buffer, event[r])
<1>2. /\ evs \in Seq(Nat) /\ evs # <<>> /\ Len(evs) = Len(buffer) + 1 /\ Len(buffer) \in Nat
      /\ \A i \in 1 .. Len(buffer) : evs[i] = buffer[i]
      /\ evs[Len(buffer) + 1] = event[r]
  <2>1. buffer \in Seq(Nat) /\ event[r] \in Nat
    BY DEF PipeInv, PipeTypes
  <2> QED
    BY <2>1, Appended
<1> HIDE DEF evs
<1>3. \A e \in Targets :
        /\ event[r] = Taken(e) + 1 /\ Taken(e) = Offered(e) + Len(buffer)
        /\ Taken(e) \in Nat /\ Offered(e) \in Nat /\ Taken(e) + 1 <= log
  <2> TAKE e \in Targets
  <2>1. event[r] = Taken(e) + 1
    BY <1>1, TurnIsNext DEF PipeInv
  <2>2. event[r] <= log
    BY DEF PipeInv, PipeTypes
  <2> QED
    BY <2>1, <2>2, TakenIsNat DEF PipeInv, Taken
<1>4. \A e \in Targets : \A i \in 1 .. Len(evs) : evs[i] = Offered(e) + i
  <2> SUFFICES ASSUME NEW e \in Targets, NEW i \in 1 .. Len(evs)
               PROVE  evs[i] = Offered(e) + i
    OBVIOUS
  <2>1. CASE i = Len(buffer) + 1
    BY <1>2, <1>3, <2>1
  <2>2. CASE i # Len(buffer) + 1
    <3>1. i \in 1 .. Len(buffer)
      BY <1>2, <2>2
    <3> QED
      BY <1>2, <3>1 DEF PipeInv, BufferNext
  <2> QED
    BY <2>1, <2>2
<1>5. Waiting = {q \in Requests : event[q] # 0}
  BY <1>1, NotFlushing DEF PipeInv
<1>6. ASSUME NEW e \in Targets
      PROVE  /\ \A q \in Requests : event[q] # 0 /\ q # r => event[q] \in Taken(e) + 1 + 1 .. log
             /\ \A n \in Taken(e) + 1 + 1 .. log :
                  \E q \in Requests : event[q] # 0 /\ q # r /\ event[q] = n
  <2>1. /\ \A q \in Waiting : event[q] \in Taken(e) + 1 .. log
        /\ \A n \in Taken(e) + 1 .. log : \E q \in Waiting : event[q] = n
    BY DEF PipeInv, WaitingLast
  <2>2. \A q \in Requests : event[q] # 0 /\ q # r => event[q] > event[r]
    BY <1>1, TurnIsNext DEF PipeInv
  <2>3. ASSUME NEW q \in Requests, event[q] # 0, q # r
        PROVE  event[q] \in Taken(e) + 1 + 1 .. log
    <3>1. event[q] > Taken(e) + 1
      BY <1>3, <2>2, <2>3
    <3>2. event[q] \in Taken(e) + 1 .. log
      BY <1>5, <2>1, <2>3
    <3> QED
      BY <1>3, <3>1, <3>2
  <2>4. ASSUME NEW n \in Taken(e) + 1 + 1 .. log
        PROVE  \E q \in Requests : event[q] # 0 /\ q # r /\ event[q] = n
    <3>1. n \in Taken(e) + 1 .. log /\ n # Taken(e) + 1
      BY <1>3
    <3>2. PICK q \in Waiting : event[q] = n
      BY <2>1, <3>1
    <3> QED
      BY <1>3, <1>5, <3>1, <3>2
  <2> QED
    BY <2>3, <2>4
<1>7. CASE StartFlush(evs)
  <2>1. event[r] \in ToSet(evs)
    <3>1. Len(buffer) + 1 \in 1 .. Len(evs)
      BY <1>2
    <3> QED
      BY <1>2, <3>1, Elements
  <2> DEFINE more == 1
  <2>2. more \in Nat /\ Len(evs) = Len(buffer) + more
    BY <1>2
  <2>3. \A e \in Targets :
          /\ Taken(e) + more <= log
          /\ \A i \in 1 .. Len(evs) : evs[i] = Offered(e) + i
          /\ \A q \in Requests : event[q] # 0 /\ q # r => event[q] \in Taken(e) + more + 1 .. log
          /\ \A n \in Taken(e) + more + 1 .. log :
               \E q \in Requests : event[q] # 0 /\ q # r /\ event[q] = n
    BY <1>3, <1>4, <1>6
  <2> HIDE DEF more
  <2> QED
    BY <1>1, <1>2, <1>7, <2>1, <2>2, <2>3, Begins
<1>8. CASE buffer' = evs /\ Leave(r) /\ UNCHANGED flush
  <2>1. /\ Lined' /\ line' \in Seq(Requests \cup Loops)
        /\ event' \in [Requests -> Nat] /\ \A q \in Requests : event'[q] <= log
        /\ loop' \in [Loops -> {"unborn", "asleep", "awake", "over"}]
        /\ \A q \in Requests : event'[q] = IF q = r THEN 0 ELSE event[q]
    BY <1>1, <1>8, Leaves DEF PipeInv
  <2>2. UNCHANGED <<log, task, stop, sent, flush, loop>>
    BY <1>1, <1>8 DEF Leave, PipeConstants
  <2>3. PipeTypes'
    BY <1>2, <1>8, <2>1, <2>2 DEF PipeInv, PipeTypes, Targets
  <2>4. ~Flushing'
    BY <1>1, <2>2 DEF Flushing
  <2>5. FlushShape'
    BY <1>1, <2>2, <2>4 DEF PipeInv, FlushShape
  <2>6. \A e \in Targets : Offered(e)' = Offered(e) /\ Taken(e)' = Taken(e) + 1
    <3> TAKE e \in Targets
    <3>1. Offered(e)' = Offered(e)
      BY <2>2 DEF Offered
    <3>2. Taken(e)' = Offered(e)' + Len(evs)
      BY <1>8 DEF Taken
    <3> QED
      BY <1>2, <1>3, <3>1, <3>2
  <2>7. Waiting' = {q \in Requests : event[q] # 0 /\ q # r}
    BY <2>1, <2>4 DEF Waiting
  <2>8. SentFirst' /\ BatchNext'
    BY <2>2 DEF PipeInv, SentFirst, BatchNext, Targets
  <2>9. BufferNext'
    <3> SUFFICES ASSUME NEW e \in Targets, NEW i \in 1 .. Len(buffer')
                 PROVE  buffer'[i] = Offered(e)' + i
      BY DEF BufferNext, Targets
    <3> QED
      BY <1>4, <1>8, <2>6
  <2>10. WaitingLast'
    <3> SUFFICES ASSUME NEW e \in Targets
                 PROVE  /\ Taken(e)' <= log'
                        /\ \A q \in Waiting' : event'[q] \in Taken(e)' + 1 .. log'
                        /\ \A n \in Taken(e)' + 1 .. log' : \E q \in Waiting' : event'[q] = n
      BY DEF WaitingLast, Targets
    <3>1. Taken(e)' = Taken(e) + 1 /\ log' = log
      BY <2>2, <2>6
    <3>2. \A q \in Waiting' : q \in Requests /\ event[q] # 0 /\ q # r /\ event'[q] = event[q]
      BY <2>1, <2>7
    <3>3. \A q \in Requests : event[q] # 0 /\ q # r => q \in Waiting' /\ event'[q] = event[q]
      BY <2>1, <2>7
    <3>4. Taken(e)' <= log'
      BY <1>3, <3>1
    <3>5. \A q \in Waiting' : event'[q] \in Taken(e)' + 1 .. log'
      BY <1>6, <3>1, <3>2
    <3>6. \A n \in Taken(e)' + 1 .. log' : \E q \in Waiting' : event'[q] = n
      BY <1>6, <3>1, <3>3
    <3> QED
      BY <3>4, <3>5, <3>6
  <2>11. Stopped'
    <3>1. event[r] # 0
      BY <1>3, SomeTarget
    <3>2. stop = "no"
      BY <3>1 DEF PipeInv, Stopped
    <3>3. \A k \in Loops : loop[k] # "over"
      BY <3>2 DEF PipeInv, Stopped
    <3> QED
      BY <2>2, <3>2, <3>3 DEF PipeInv, Stopped, StopFlushes
  <2> QED
    BY <2>1, <2>3, <2>5, <2>8, <2>9, <2>10, <2>11 DEF PipeInv
<1> QED
  BY <1>7, <1>8 DEF Buffer, evs

LEMMA LoopFlushStep ==
  ASSUME PipeInv, PipeConstants, NEW k \in Loops, LoopFlush(k)
  PROVE  PipeInv'
<1>1. /\ Turn(k) /\ line # <<>> /\ Head(line) = k /\ ~Flushing
      /\ UNCHANGED <<log, task, stop, sent>>
  BY DEF LoopFlush, Turn
<1>2. k \notin Requests
  BY DEF PipeConstants
<1>3. Waiting = {q \in Requests : event[q] # 0}
  BY <1>1, NotFlushing DEF PipeInv
<1>4. CASE buffer # <<>> /\ StartFlush(buffer)
  <2>1. buffer \in Seq(Nat) /\ Len(buffer) \in Nat
    BY DEF PipeInv, PipeTypes
  <2> DEFINE more == 0
  <2>2. more \in Nat /\ Len(buffer) = Len(buffer) + more
    BY <2>1
  <2>3. \A e \in Targets : Taken(e) + more = Taken(e)
    BY TakenIsNat DEF PipeInv
  <2>4. \A e \in Targets :
          /\ Taken(e) <= log
          /\ \A i \in 1 .. Len(buffer) : buffer[i] = Offered(e) + i
          /\ \A q \in Requests : event[q] # 0 /\ q # k => event[q] \in Taken(e) + 1 .. log
          /\ \A n \in Taken(e) + 1 .. log :
               \E q \in Requests : event[q] # 0 /\ q # k /\ event[q] = n
    BY <1>2, <1>3 DEF PipeInv, WaitingLast, BufferNext
  <2> HIDE DEF more
  <2>5. \A e \in Targets :
          /\ Taken(e) + more <= log
          /\ \A i \in 1 .. Len(buffer) : buffer[i] = Offered(e) + i
          /\ \A q \in Requests : event[q] # 0 /\ q # k => event[q] \in Taken(e) + more + 1 .. log
          /\ \A n \in Taken(e) + more + 1 .. log :
               \E q \in Requests : event[q] # 0 /\ q # k /\ event[q] = n
    BY <2>3, <2>4
  <2> QED
    BY <1>1, <1>2, <1>4, <2>1, <2>2, <2>5, Begins
<1>5. CASE buffer = <<>> /\ Leave(k) /\ UNCHANGED <<buffer, flush>>
  <2>1. /\ Lined' /\ line' \in Seq(Requests \cup Loops)
        /\ event' \in [Requests -> Nat] /\ \A q \in Requests : event'[q] <= log
        /\ loop' \in [Loops -> {"unborn", "asleep", "awake", "over"}]
    BY <1>1, <1>5, Leaves DEF PipeInv
  <2>2. UNCHANGED <<log, event, buffer, task, stop, sent, flush>>
    BY <1>1, <1>5 DEF Leave
  <2>3. PipeTypes'
    BY <2>1, <2>2 DEF PipeInv, PipeTypes, Targets
  <2>4. FlushShape'
    BY <1>1, <2>2 DEF PipeInv, FlushShape, Flushing
  <2>5. Untouched /\ Waiting' = Waiting
    BY <1>1, <2>2 DEF Untouched, Waiting, Flushing
  <2>6. SentFirst' /\ BatchNext' /\ BufferNext' /\ WaitingLast'
    BY <2>5, SameEvents DEF PipeInv
  <2>7. Stopped'
    BY <1>1, <1>5, <2>2, LoopLeaves DEF PipeInv, Stopped, StopFlushes
  <2> QED
    BY <2>1, <2>3, <2>4, <2>6, <2>7 DEF PipeInv
<1> QED
  BY <1>4, <1>5 DEF LoopFlush

\* What a send does to the events, whoever is left.
LEMMA SendMoves ==
  ASSUME PipeInv, PipeConstants, Flushing,
         sent' = [sent EXCEPT ![Head(flush.left)] = @ \o flush.batch],
         UNCHANGED <<log, buffer>>,
         flush'.left = Tail(flush.left), flush'.left # <<>> => flush'.batch = flush.batch
  PROVE  /\ sent' \in [Targets -> Seq(Nat)] /\ flush'.left \in Seq(Targets)
         /\ SentFirst' /\ BatchNext' /\ BufferNext'
         /\ \A e \in Targets : Offered(e)' = Offered(e) /\ Taken(e)' = Taken(e)
<1> DEFINE e0 == Head(flush.left)
<1>1. /\ flush.left # <<>> /\ buffer = <<>> /\ buffer' = <<>>
      /\ flush.left \in Seq(Targets) /\ flush.batch \in Seq(Nat) /\ sent \in [Targets -> Seq(Nat)]
      /\ \A i, j \in 1 .. Len(flush.left) : flush.left[i] = flush.left[j] => i = j
  BY DEF PipeInv, FlushShape, PipeTypes
<1>2. /\ e0 \in ToSet(flush.left) /\ e0 \in Targets
      /\ flush'.left \in Seq(Targets)
      /\ \A x : x \in ToSet(flush'.left) <=> x \in ToSet(flush.left) /\ x # e0
  <2>1. e0 \in Targets /\ Tail(flush.left) \in Seq(Targets)
    BY <1>1, Tailed
  <2>2. /\ e0 \in ToSet(flush.left)
        /\ \A x : x \in ToSet(Tail(flush.left)) <=> x \in ToSet(flush.left) /\ x # e0
    BY <1>1, TailSet
  <2> QED
    BY <2>1, <2>2
<1> HIDE DEF e0
<1>3. sent' = [sent EXCEPT ![e0] = sent[e0] \o flush.batch]
  BY <1>1 DEF e0
<1>4. /\ sent[e0] \in Seq(Nat)
      /\ sent[e0] \o flush.batch \in Seq(Nat)
      /\ Len(sent[e0] \o flush.batch) = Len(sent[e0]) + Len(flush.batch)
      /\ Len(sent[e0]) \in Nat /\ Len(flush.batch) \in Nat
      /\ \A i \in 1 .. Len(sent[e0]) : (sent[e0] \o flush.batch)[i] = sent[e0][i]
      /\ \A i \in 1 .. Len(flush.batch) :
           (sent[e0] \o flush.batch)[Len(sent[e0]) + i] = flush.batch[i]
  BY <1>1, <1>2, Joined
<1> DEFINE new == sent[e0] \o flush.batch
<1>5. new = sent[e0] \o flush.batch
  OBVIOUS
<1> HIDE DEF new
<1>6. sent' \in [Targets -> Seq(Nat)]
  BY <1>1, <1>3, <1>4, <1>5, SMTT(30)
<1>7. sent'[e0] = new /\ \A e \in Targets : e # e0 => sent'[e] = sent[e]
  BY <1>1, <1>2, <1>3, <1>5
<1>8. \A i \in 1 .. Len(new) : new[i] = i
  <2> SUFFICES ASSUME NEW i \in 1 .. Len(new)  PROVE new[i] = i
    OBVIOUS
  <2>1. /\ \A j \in 1 .. Len(sent[e0]) : sent[e0][j] = j
        /\ \A j \in 1 .. Len(flush.batch) : flush.batch[j] = Len(sent[e0]) + j
    BY <1>2 DEF PipeInv, SentFirst, BatchNext
  <2>2. CASE i <= Len(sent[e0])
    BY <1>4, <1>5, <2>1, <2>2
  <2>3. CASE ~(i <= Len(sent[e0]))
    <3>1. PICK j \in 1 .. Len(flush.batch) : i = Len(sent[e0]) + j
      <4>1. i \in 1 .. Len(sent[e0]) + Len(flush.batch)
        BY <1>4, <1>5
      <4>2. i - Len(sent[e0]) \in 1 .. Len(flush.batch) /\ i = Len(sent[e0]) + (i - Len(sent[e0]))
        BY <1>4, <2>3, <4>1, Differences
      <4> QED
        BY <4>2
    <3>2. new[i] = flush.batch[j]
      BY <1>4, <1>5, <3>1
    <3> QED
      BY <2>1, <3>1, <3>2
  <2> QED
    BY <2>2, <2>3
<1>9. SentFirst'
  BY <1>7, <1>8 DEF SentFirst, Targets, PipeInv
<1>10. BatchNext'
  <2> SUFFICES ASSUME NEW e \in Targets, e \in ToSet(flush'.left), NEW i \in 1 .. Len(flush'.batch)
               PROVE  flush'.batch[i] = Len(sent'[e]) + i
    BY DEF BatchNext, Targets
  <2>1. e \in ToSet(flush.left) /\ e # e0 /\ sent'[e] = sent[e]
    BY <1>2, <1>7
  <2>2. flush'.left # <<>>
    BY DEF ToSet
  <2> QED
    BY <2>1, <2>2 DEF PipeInv, BatchNext
<1>11. \A e \in Targets : Offered(e)' = Offered(e)
  <2> TAKE e \in Targets
  <2>1. CASE e = e0
    <3>1. Offered(e)' = Len(new) + 0
      BY <1>2, <1>7, <2>1 DEF Offered
    <3>2. Offered(e) = Len(sent[e0]) + Len(flush.batch)
      BY <1>2, <2>1 DEF Offered
    <3> QED
      BY <1>4, <1>5, <3>1, <3>2
  <2>2. CASE e # e0 /\ e \in ToSet(flush.left)
    <3>1. e \in ToSet(flush'.left)
      BY <1>2, <2>2
    <3>2. flush'.left # <<>>
      BY <3>1 DEF ToSet
    <3>3. Offered(e)' = Len(sent'[e]) + Len(flush'.batch)
      BY <3>1 DEF Offered
    <3>4. Offered(e) = Len(sent[e]) + Len(flush.batch)
      BY <2>2 DEF Offered
    <3> QED
      BY <1>7, <2>2, <3>2, <3>3, <3>4
  <2>3. CASE e # e0 /\ e \notin ToSet(flush.left)
    <3>1. Offered(e)' = Len(sent'[e]) + 0
      BY <1>2, <2>3 DEF Offered
    <3>2. Offered(e) = Len(sent[e]) + 0
      BY <2>3 DEF Offered
    <3> QED
      BY <1>7, <2>3, <3>1, <3>2
  <2> QED
    BY <2>1, <2>2, <2>3
<1>12. \A e \in Targets : Taken(e)' = Taken(e)
  BY <1>11 DEF Taken
<1>13. BufferNext'
  BY <1>1 DEF BufferNext
<1> QED
  BY <1>2, <1>6, <1>9, <1>10, <1>11, <1>12, <1>13

LEMMA SendStep ==
  ASSUME PipeInv, PipeConstants, SendBatch
  PROVE  PipeInv'
<1>1. /\ Flushing /\ line # <<>> /\ buffer = <<>>
      /\ sent' = [sent EXCEPT ![Head(flush.left)] = @ \o flush.batch]
      /\ UNCHANGED <<log, buffer, task, stop>>
  BY DEF SendBatch, PipeInv, FlushShape
<1>2. flush \in [batch : Seq(Nat), left : Seq(Targets)]
  BY DEF PipeInv, PipeTypes
<1>3. flush.left \in Seq(Targets) /\ flush.left # <<>>
  BY <1>1, <1>2 DEF PipeInv, FlushShape
<1>4. CASE /\ Tail(flush.left) # <<>> /\ flush' = [flush EXCEPT !.left = Tail(flush.left)]
           /\ UNCHANGED <<line, event, loop>>
  <2>1. flush'.left = Tail(flush.left) /\ flush'.batch = flush.batch
    BY <1>2, <1>4
  <2>2. /\ sent' \in [Targets -> Seq(Nat)] /\ flush'.left \in Seq(Targets)
        /\ SentFirst' /\ BatchNext' /\ BufferNext'
        /\ \A e \in Targets : Taken(e)' = Taken(e)
    BY <1>1, <2>1, SendMoves
  <2>3. flush' \in [batch : Seq(Nat), left : Seq(Targets)]
    BY <1>2, <1>4, <2>2
  <2>4. PipeTypes'
    BY <1>1, <1>4, <2>2, <2>3 DEF PipeInv, PipeTypes, Targets
  <2>5. Lined'
    BY <1>4 DEF PipeInv, Lined
  <2>6. Flushing' /\ Waiting' = Waiting
    BY <1>1, <1>4, <2>1 DEF Flushing, Waiting
  <2>7. \A i, j \in 1 .. Len(flush'.left) : flush'.left[i] = flush'.left[j] => i = j
    BY <1>3, <2>1, TailSet DEF PipeInv, FlushShape
  <2>8. FlushShape'
    BY <1>1, <1>4, <2>1, <2>6, <2>7 DEF PipeInv, FlushShape
  <2>9. WaitingLast'
    BY <1>1, <1>4, <2>2, <2>6, SameWait DEF PipeInv
  <2>10. Stopped'
    BY <1>1, <1>4 DEF PipeInv, Stopped, StopFlushes
  <2> QED
    BY <2>2, <2>4, <2>5, <2>8, <2>9, <2>10 DEF PipeInv
<1>5. CASE Tail(flush.left) = <<>> /\ flush' = NoFlush /\ Leave(Head(line))
  <2>1. flush'.left = <<>> /\ flush'.batch = <<>> /\ flush'.left = Tail(flush.left)
    BY <1>5 DEF NoFlush
  <2>2. /\ sent' \in [Targets -> Seq(Nat)]
        /\ SentFirst' /\ BatchNext' /\ BufferNext'
        /\ \A e \in Targets : Taken(e)' = Taken(e)
    BY <1>1, <2>1, SendMoves
  <2>3. /\ Lined' /\ line' \in Seq(Requests \cup Loops)
        /\ event' \in [Requests -> Nat] /\ \A r \in Requests : event'[r] <= log
        /\ loop' \in [Loops -> {"unborn", "asleep", "awake", "over"}]
        /\ \A r \in Requests : event'[r] = IF r = Head(line) THEN 0 ELSE event[r]
    BY <1>1, <1>5, Leaves DEF PipeInv
  <2>4. flush' \in [batch : Seq(Nat), left : Seq(Targets)]
    BY <1>5 DEF NoFlush
  <2>5. PipeTypes'
    BY <1>1, <2>2, <2>3, <2>4 DEF PipeInv, PipeTypes, Targets
  <2>6. ~Flushing'
    BY <2>1 DEF Flushing
  <2>7. FlushShape'
    BY <2>1, <2>6 DEF FlushShape
  <2>8. Waiting' = Waiting
    BY <1>1, <2>3, <2>6 DEF Waiting
  <2>9. \A r \in Waiting : event'[r] = event[r]
    BY <1>1, <2>3 DEF Waiting
  <2>10. WaitingLast'
    BY <1>1, <2>2, <2>8, <2>9, SameWait DEF PipeInv
  <2>11. Stopped'
    <3>1. stop # "no" => \A r \in Requests : event'[r] = 0
      BY <2>3 DEF PipeInv, Stopped
    <3> QED
      BY <1>1, <1>5, <3>1, LoopLeaves DEF PipeInv, Stopped, StopFlushes
  <2> QED
    BY <2>2, <2>3, <2>5, <2>7, <2>10, <2>11 DEF PipeInv
<1> QED
  BY <1>4, <1>5 DEF SendBatch

LEMMA PipeStep ==
  ASSUME PipeConstants, PipeInv, [Next]_vars
  PROVE  PipeInv'
<1>1. CASE \E r \in Requests : Record(r) \/ Buffer(r)
  BY <1>1, RecordStep, BufferStep
<1>2. CASE \E k \in Loops : Wake(k) \/ LoopFlush(k)
  BY <1>2, WakeStep, LoopFlushStep
<1>3. CASE StartAgain
  BY <1>3, StartAgainStep
<1>4. CASE SendBatch
  BY <1>4, SendStep
<1>5. CASE Stop \/ StopReturns \/ UNCHANGED vars
  BY <1>5, StopStep
<1> QED
  BY <1>1, <1>2, <1>3, <1>4, <1>5 DEF Next

-------------------------------------------------------------------------------
(* What it tells *)

\* Nothing was recorded yet.
LEMMA PipeStart ==
  ASSUME PipeConstants, Init
  PROVE  PipeInv
<1>1. /\ log = 0 /\ buffer = <<>> /\ line = <<>> /\ flush = NoFlush /\ task = 1 /\ stop = "no"
      /\ \A r \in Requests : event[r] = 0
      /\ \A k \in Loops : loop[k] = IF k = 1 THEN "asleep" ELSE "unborn"
      /\ \A e \in Targets : sent[e] = <<>>
  BY DEF Init, Targets
<1>2. flush.batch = <<>> /\ flush.left = <<>> /\ ~Flushing
  BY <1>1 DEF NoFlush, Flushing
<1>3. PipeTypes
  <2>1. event \in [Requests -> Nat] /\ \A r \in Requests : event[r] <= log
    BY <1>1 DEF Init
  <2>2. loop \in [Loops -> {"unborn", "asleep", "awake", "over"}]
    BY DEF Init
  <2>3. task \in Loops
    BY <1>1, PipelineAssumption DEF Loops
  <2>4. flush \in [batch : Seq(Nat), left : Seq(Targets)]
    BY <1>1 DEF NoFlush
  <2>5. sent \in [Targets -> Seq(Nat)]
    BY DEF Init, Targets
  <2> QED
    BY <1>1, <2>1, <2>2, <2>3, <2>4, <2>5 DEF PipeTypes
<1>4. Lined
  BY <1>1 DEF Lined
<1>5. FlushShape
  BY <1>2 DEF FlushShape
<1>6. \A e \in Targets : Offered(e) = 0 /\ Taken(e) = 0
  <2> TAKE e \in Targets
  <2>1. Offered(e) = Len(sent[e]) + 0
    BY <1>2 DEF Offered, ToSet
  <2>2. Offered(e) = 0
    BY <1>1, <2>1
  <2> QED
    BY <1>1, <2>2 DEF Taken
<1>7. Waiting = {}
  BY <1>1 DEF Waiting
<1>8. SentFirst /\ BatchNext /\ BufferNext
  BY <1>1, <1>2 DEF SentFirst, BatchNext, BufferNext
<1>9. WaitingLast
  BY <1>1, <1>6, <1>7 DEF WaitingLast
<1>10. Stopped
  <2>1. \A k \in Loops : k > task => loop[k] = "unborn"
    BY <1>1
  <2> QED
    BY <1>1, <2>1 DEF Stopped, StopFlushes
<1> QED
  BY <1>3, <1>4, <1>5, <1>8, <1>9, <1>10 DEF PipeInv

\* While a batch is written, its events are those of no request but the lock's owner.
LEMMA InBatch ==
  ASSUME PipeInv, PipeConstants
  PROVE  \A r \in Requests : event[r] \in ToSet(flush.batch) <=> Flushing /\ r = Head(line)
                                                                  /\ event[r] # 0
<1> SUFFICES ASSUME NEW r \in Requests
             PROVE  event[r] \in ToSet(flush.batch) <=> Flushing /\ r = Head(line) /\ event[r] # 0
  OBVIOUS
<1>1. CASE ~Flushing
  <2>1. flush.batch = <<>>
    BY <1>1 DEF Flushing
  <2> QED
    BY <1>1, <2>1 DEF ToSet
<1>2. CASE Flushing /\ r = Head(line)
  <2>1. line # <<>> /\ event[r] \in ToSet(flush.batch)
    BY <1>2 DEF PipeInv, FlushShape
  <2>2. line[1] = r /\ 1 \in 1 .. Len(line)
    BY <1>2, <2>1, Tailed DEF PipeInv, PipeTypes
  <2>3. event[r] # 0
    BY <2>2 DEF PipeInv, Lined
  <2> QED
    BY <1>2, <2>1, <2>3
<1>3. CASE Flushing /\ r # Head(line)
  <2>1. flush.left # <<>> /\ flush.left \in Seq(Targets) /\ flush.batch \in Seq(Nat)
    BY <1>3 DEF PipeInv, FlushShape, PipeTypes
  <2>2. PICK e \in Targets : e \in ToSet(flush.left)
    <3>1. flush.left[1] \in Targets /\ 1 \in 1 .. Len(flush.left)
      BY <2>1, Tailed
    <3> QED
      BY <2>1, <3>1, Elements
  <2>3. \A i \in 1 .. Len(flush.batch) : flush.batch[i] = Len(sent[e]) + i
    BY <2>2 DEF PipeInv, BatchNext
  <2>4. /\ Offered(e) = Len(sent[e]) + Len(flush.batch)
        /\ Len(sent[e]) \in Nat /\ Len(flush.batch) \in Nat /\ Len(buffer) \in Nat
    <3>1. sent[e] \in Seq(Nat) /\ buffer \in Seq(Nat)
      BY DEF PipeInv, PipeTypes
    <3>2. Offered(e) = Len(sent[e]) + Len(flush.batch)
      BY <2>2 DEF Offered
    <3> QED
      BY <2>1, <3>1, <3>2
  <2>5. Taken(e) = Offered(e) + Len(buffer)
    BY DEF Taken
  <2>6. event[r] # 0 => event[r] \in Taken(e) + 1 .. log
    BY <1>3 DEF PipeInv, WaitingLast, Waiting
  <2>7. event[r] \in Nat
    BY DEF PipeInv, PipeTypes
  <2>8. ASSUME NEW i \in 1 .. Len(flush.batch), flush.batch[i] = event[r]  PROVE FALSE
    <3>1. event[r] = Len(sent[e]) + i
      BY <2>3, <2>8
    <3>2. event[r] # 0 /\ event[r] <= Offered(e)
      BY <2>4, <3>1
    <3>3. Taken(e) \in Nat /\ Offered(e) \in Nat
      BY TakenIsNat DEF PipeInv
    <3>4. Offered(e) <= Taken(e)
      BY <2>4, <2>5, <3>3, Sums
    <3>5. event[r] >= Taken(e) + 1
      BY <2>6, <3>2, <3>3
    <3> QED
      BY <2>7, <3>2, <3>3, <3>4, <3>5
  <2>9. event[r] \notin ToSet(flush.batch)
    BY <2>1, <2>8, Elements
  <2> QED
    BY <1>3, <2>9
<1> QED
  BY <1>1, <1>2, <1>3

\* As many requests wait as events are not taken yet.
LEMMA WaitingCount ==
  ASSUME PipeInv, PipeConstants, NEW e \in Targets
  PROVE  log = Cardinality(Waiting) + Taken(e)
<1> DEFINE Left == Taken(e) + 1 .. log
           f == [r \in Waiting |-> event[r]]
<1>1. Taken(e) \in Nat /\ log \in Nat /\ Taken(e) <= log
  BY TakenIsNat DEF PipeInv, PipeTypes, WaitingLast
<1>2. /\ \A r \in Waiting : event[r] \in Left
      /\ \A n \in Left : \E r \in Waiting : event[r] = n
  BY DEF PipeInv, WaitingLast
<1>3. ASSUME NEW q \in Waiting, NEW r \in Waiting, event[q] = event[r]
      PROVE  q = r
  <2>1. q \in Requests /\ r \in Requests /\ event[q] # 0 /\ event[r] # 0
    BY DEF Waiting
  <2>2. PICK i \in 1 .. Len(line) : line[i] = q
    BY <2>1 DEF PipeInv, Lined
  <2>3. PICK j \in 1 .. Len(line) : line[j] = r
    BY <2>1 DEF PipeInv, Lined
  <2>4. event[q] \in Nat
    BY <2>1 DEF PipeInv, PipeTypes
  <2>5. ~(i < j) /\ ~(j < i)
    BY <1>3, <2>1, <2>2, <2>3, <2>4 DEF PipeInv, Lined
  <2>6. i = j
    BY <2>5
  <2> QED
    BY <2>2, <2>3, <2>6
<1>4. f \in Bijection(Waiting, Left)
  <2>1. f \in [Waiting -> Left]
    BY <1>2
  <2>2. \A q, r \in Waiting : f[q] = f[r] => q = r
    BY <1>3
  <2>3. \A n \in Left : \E r \in Waiting : f[r] = n
    BY <1>2
  <2> HIDE DEF f, Left
  <2> QED
    BY <2>1, <2>2, <2>3 DEF Bijection, Injection, Surjection, IsInjective
<1>5. IsFiniteSet(Waiting)
  BY FS_Subset DEF PipeConstants, Waiting
<1>6. Cardinality(Left) = Cardinality(Waiting)
  <2> HIDE DEF f, Left
  <2>1. ExistsBijection(Waiting, Left)
    BY <1>4 DEF ExistsBijection
  <2> QED
    BY <1>5, <2>1, FS_Bijection
<1>7. Cardinality(Left) = log - Taken(e)
  <2>1. Taken(e) + 1 \in Int /\ log \in Int
    BY <1>1
  <2>2. Cardinality(Left) = IF Taken(e) + 1 > log THEN 0 ELSE log - (Taken(e) + 1) + 1
    BY <2>1, FS_Interval
  <2> QED
    BY <1>1, <2>2
<1> HIDE DEF Left
<1> QED
  BY <1>1, <1>6, <1>7

\* However requests, flushes and loops overlap, and with every number of requests and
\* endpoints: an endpoint is offered the audit log's events in their order, no event is
\* lost between the log and the endpoint, and stop leaves nothing in the buffer.
THEOREM AuditIsKept == ASSUME PipeConstants PROVE Spec => []AuditKept
<1>1. Init => PipeInv
  BY PipeStart
<1>2. PipeInv /\ [Next]_vars => PipeInv'
  BY PipeStep
<1>3. PipeInv => AuditKept
  <2> SUFFICES ASSUME PipeInv PROVE AuditKept
    OBVIOUS
  <2>1. AuditOrder
    <3> SUFFICES ASSUME NEW e \in Targets, NEW i \in DOMAIN sent[e]  PROVE sent[e][i] = i
      BY DEF AuditOrder, Targets
    <3>1. sent[e] \in Seq(Nat)
      BY DEF PipeInv, PipeTypes
    <3>2. i \in 1 .. Len(sent[e])
      BY <3>1
    <3> QED
      BY <3>2 DEF PipeInv, SentFirst
  <2>2. Accounted
    <3> SUFFICES
          ASSUME NEW e \in Targets
          PROVE  log = Cardinality({r \in Requests : event[r] \notin {0} \cup ToSet(flush.batch)})
                         + Len(buffer)
                         + (IF e \in ToSet(flush.left) THEN Len(flush.batch) ELSE 0)
                         + Len(sent[e])
      BY DEF Accounted, Targets
    <3>1. {r \in Requests : event[r] \notin {0} \cup ToSet(flush.batch)} = Waiting
      BY InBatch DEF Waiting
    <3> DEFINE given == IF e \in ToSet(flush.left) THEN Len(flush.batch) ELSE 0
               count == Cardinality(Waiting)
    <3>2. log = count + Taken(e)
      BY WaitingCount
    <3>3. Taken(e) = Offered(e) + Len(buffer) /\ Offered(e) = Len(sent[e]) + given
      BY DEF Taken, Offered
    <3>4. sent[e] \in Seq(Nat) /\ buffer \in Seq(Nat) /\ flush.batch \in Seq(Nat)
      BY DEF PipeInv, PipeTypes
    <3>5. Len(sent[e]) \in Nat /\ Len(buffer) \in Nat /\ given \in Nat
      BY <3>4
    <3>6. count \in Nat
      BY FS_Subset, FS_CardinalityType DEF PipeConstants, Waiting
    <3> HIDE DEF given, count
    <3>7. log = count + Len(buffer) + given + Len(sent[e])
      <4>1. log = count + (Len(sent[e]) + given + Len(buffer))
        BY <3>2, <3>3, Zenon
      <4>2. count + (Len(sent[e]) + given + Len(buffer)) =
              count + Len(buffer) + given + Len(sent[e])
        <5> DEFINE s == Len(sent[e])
                   b == Len(buffer)
        <5>1. s \in Nat /\ b \in Nat /\ given \in Nat /\ count \in Nat
          BY <3>5, <3>6
        <5> HIDE DEF s, b
        <5>2. count + (s + given + b) = count + b + given + s
          BY <5>1
        <5> QED
          BY <5>2 DEF s, b
      <4> QED
        BY <4>1, <4>2, Zenon
    <3> QED
      BY <3>1, <3>7 DEF given, count
  <2>3. StopFlushes
    BY DEF PipeInv, Stopped
  <2> QED
    BY <2>1, <2>2, <2>3 DEF AuditKept
<1> QED
  BY <1>1, <1>2, <1>3, PTL DEF Spec, Safety

\* The loop stop waits for has ended when it returns, and an ended loop stays so.
LEMMA LastLoopEnds ==
  ASSUME PipeConstants
  PROVE  Spec => [](PipeInv /\ (stop = "done" => loop[task] = "over"))
<1> DEFINE Ended == stop = "done" => loop[task] = "over"
<1>1. Init => PipeInv /\ Ended
  BY PipeStart DEF Init
<1>2. PipeInv /\ Ended /\ [Next]_vars => PipeInv' /\ Ended'
  <2> SUFFICES ASSUME PipeInv, Ended, [Next]_vars  PROVE PipeInv' /\ Ended'
    OBVIOUS
  <2>1. PipeInv' /\ task \in Loops /\ loop \in [Loops -> {"unborn", "asleep", "awake", "over"}]
    BY PipeStep DEF PipeInv, PipeTypes
  <2>2. ASSUME line # <<>>, Leave(Head(line)), UNCHANGED <<task, stop>>  PROVE Ended'
    <3> DEFINE p == Head(line)
    <3>1. \E i \in 1 .. Len(line) : line[i] = p
      <4>1. line \in Seq(Requests \cup Loops)
        BY DEF PipeInv, PipeTypes
      <4> QED
        BY <2>2, <4>1
    <3>2. CASE p \in Loops
      <4>1. loop[p] = "awake"
        BY <3>1, <3>2 DEF PipeInv, Lined
      <4>2. loop' = [loop EXCEPT ![p] = IF stop = "no" THEN "asleep" ELSE "over"]
        BY <2>2, <3>2 DEF Leave
      <4> QED
        BY <2>1, <2>2, <4>1, <4>2
    <3>3. CASE p \notin Loops
      BY <2>2, <3>3 DEF Leave
    <3> QED
      BY <3>2, <3>3
  <2>3. ASSUME UNCHANGED <<loop, task, stop>>  PROVE Ended'
    BY <2>3
  <2>4. ASSUME NEW r \in Requests, Record(r) \/ Buffer(r)  PROVE Ended'
    <3>1. CASE Record(r)
      BY <2>3, <3>1 DEF Record
    <3>2. CASE Buffer(r)
      BY <2>2, <2>3, <3>2 DEF Buffer, Turn, StartFlush
    <3> QED
      BY <2>4, <3>1, <3>2
  <2>5. ASSUME NEW k \in Loops, Wake(k) \/ LoopFlush(k)  PROVE Ended'
    <3>1. CASE Wake(k)
      BY <2>1, <3>1 DEF Wake
    <3>2. CASE LoopFlush(k)
      BY <2>2, <2>3, <3>2 DEF LoopFlush, Turn, StartFlush
    <3> QED
      BY <2>5, <3>1, <3>2
  <2>6. ASSUME SendBatch  PROVE Ended'
    <3>1. line # <<>>
      BY <2>6 DEF SendBatch, PipeInv, FlushShape
    <3> QED
      BY <2>2, <2>3, <2>6, <3>1 DEF SendBatch
  <2>7. ASSUME StartAgain \/ Stop \/ StopReturns \/ UNCHANGED vars  PROVE Ended'
    BY <2>7 DEF StartAgain, Stop, StopReturns, vars
  <2> QED
    BY <2>1, <2>4, <2>5, <2>6, <2>7 DEF Next
<1> HIDE DEF Ended
<1>3. Spec => [](PipeInv /\ Ended)
  BY <1>1, <1>2, PTL DEF Spec, Safety
<1> QED
  BY <1>3 DEF Ended

\* "Graceful shutdown of all security components": a process that starts its telemetry once
\* has no flush loop left when stop has returned.  It is the second initialize of the
\* middleware's first request (integration.py:111) that leaves one (telemetry.py:363).
THEOREM StartedOnceEnds ==
  ASSUME PipeConstants, Starts = 1
  PROVE  Spec => []NoLoopLeft
<1>1. PipeInv /\ (stop = "done" => loop[task] = "over") => NoLoopLeft
  BY DEF PipeInv, PipeTypes, Loops, NoLoopLeft
<1> QED
  BY <1>1, LastLoopEnds, PTL

\* The buffer never holds a full batch, however requests and flush loops take turns at its
\* lock; nobody lines up twice; and what is told is in the log (stream, _flush_loop).
THEOREM BufferBounded == ASSUME PipeConstants PROVE Safety => []TypeOK
<1> DEFINE Small == log <= MaxEvents /\ Len(buffer) < BatchSize
<1>0. BatchSize \in Nat \ {0} /\ MaxEvents \in Nat
  BY PipelineAssumption
<1>1. Init => PipeInv /\ Small
  BY <1>0, PipeStart DEF Init
<1>2. PipeInv /\ Small /\ [Next]_vars => Small'
  <2> SUFFICES ASSUME PipeInv, Small, [Next]_vars  PROVE Small'
    OBVIOUS
  <2>0. buffer \in Seq(Nat) /\ log \in Nat /\ event \in [Requests -> Nat]
    BY DEF PipeInv, PipeTypes
  <2>1. ASSUME NEW r \in Requests, Record(r)  PROVE Small'
    BY <1>0, <2>0, <2>1 DEF Record
  <2>2. ASSUME NEW r \in Requests, Buffer(r)  PROVE Small'
    <3>1. log' = log
      BY <2>2 DEF Buffer
    <3>2. CASE Len(buffer) + 1 >= BatchSize
      BY <1>0, <2>2, <3>1, <3>2 DEF Buffer, StartFlush
    <3>3. CASE ~(Len(buffer) + 1 >= BatchSize)
      <4>1. buffer' = Append(buffer, event[r])
        BY <2>2, <3>3 DEF Buffer
      <4>2. Len(buffer') = Len(buffer) + 1
        BY <2>0, <4>1, Appended
      <4> QED
        BY <1>0, <2>0, <3>1, <3>3, <4>2
    <3> QED
      BY <3>2, <3>3
  <2>3. ASSUME NEW k \in Loops, Wake(k) \/ LoopFlush(k)  PROVE Small'
    BY <1>0, <2>3 DEF Wake, LoopFlush, StartFlush
  <2>4. CASE StartAgain \/ SendBatch \/ Stop \/ StopReturns \/ UNCHANGED vars
    BY <2>4 DEF StartAgain, SendBatch, Stop, StopReturns, vars
  <2> QED
    BY <2>1, <2>2, <2>3, <2>4 DEF Next
<1>3. PipeInv /\ Small => TypeOK
  <2> SUFFICES ASSUME PipeInv, Small  PROVE TypeOK
    OBVIOUS
  <2>1. PipeTypes /\ log \in Nat /\ buffer \in Seq(Nat) /\ sent \in [Targets -> Seq(Nat)]
    BY DEF PipeInv, PipeTypes
  <2>2. \A e \in Targets : /\ Offered(e) \in Nat /\ Len(sent[e]) \in Nat
                           /\ Len(sent[e]) <= Offered(e)
                           /\ Offered(e) + Len(buffer) <= log
    <3> SUFFICES ASSUME NEW e \in Targets
                 PROVE  /\ Offered(e) \in Nat /\ Len(sent[e]) \in Nat
                        /\ Len(sent[e]) <= Offered(e) /\ Offered(e) + Len(buffer) <= log
      OBVIOUS
    <3>1. sent[e] \in Seq(Nat) /\ flush.batch \in Seq(Nat)
      BY <2>1 DEF PipeTypes
    <3>2. Len(sent[e]) \in Nat /\ Len(flush.batch) \in Nat
      BY <3>1
    <3> DEFINE told == Len(sent[e])
               given == Len(flush.batch)
    <3>3. Offered(e) = told + 0 \/ Offered(e) = told + given
      <4>1. CASE e \in ToSet(flush.left)
        BY <4>1 DEF Offered
      <4>2. CASE e \notin ToSet(flush.left)
        BY <4>2 DEF Offered
      <4> QED
        BY <4>1, <4>2
    <3>4. Offered(e) \in Nat /\ Offered(e) + Len(buffer) <= log
      BY <2>1, TakenIsNat DEF PipeInv, WaitingLast, Taken
    <3>5. told \in Nat /\ given \in Nat
      BY <3>2
    <3> HIDE DEF told, given
    <3>6. told <= Offered(e)
      BY <3>3, <3>5
    <3> QED
      BY <3>2, <3>4, <3>6 DEF told
  <2>3. buffer \in Seq(1 .. log)
    <3>1. PICK e : e \in Targets
      BY SomeTarget
    <3>2. \A i \in 1 .. Len(buffer) : buffer[i] = Offered(e) + i
      BY <3>1 DEF PipeInv, BufferNext
    <3>3. \A i \in 1 .. Len(buffer) : buffer[i] \in 1 .. log
      BY <2>1, <2>2, <3>1, <3>2
    <3> QED
      BY <2>1, <3>3, Elementwise
  <2>4. sent \in [Targets -> Seq(1 .. log)]
    <3> SUFFICES ASSUME NEW e \in Targets  PROVE sent[e] \in Seq(1 .. log)
      BY <2>1
    <3>1. sent[e] \in Seq(Nat) /\ Len(sent[e]) <= log
      BY <2>1, <2>2
    <3>2. \A i \in 1 .. Len(sent[e]) : sent[e][i] \in 1 .. log
      BY <2>1, <3>1 DEF PipeInv, SentFirst
    <3> QED
      BY <3>1, <3>2, Elementwise
  <2>5. line \in Seq(Requests \cup Loops) /\ IsInjective(line)
    <3>1. line \in Seq(Requests \cup Loops)
      BY DEF PipeInv, PipeTypes
    <3> QED
      BY <3>1 DEF PipeInv, Lined, IsInjective
  <2>6. event \in [Requests -> 0 .. log] /\ log \in 0 .. MaxEvents
    BY <1>0, <2>1 DEF PipeTypes
  <2> QED
    BY <2>3, <2>4, <2>5, <2>6 DEF TypeOK, PipeInv, PipeTypes, FlushShape, Targets
<1>4. PipeInv /\ [Next]_vars => PipeInv'
  BY PipeStep
<1> HIDE DEF Small
<1> QED
  BY <1>1, <1>2, <1>3, <1>4, PTL DEF Safety

\* What SendBatch writes is the next piece of the log.
LEMMA BatchIsNext ==
  ASSUME PipeInv, NEW e \in Targets, e \in ToSet(flush.left), Flushing
  PROVE  /\ Len(flush.batch) \in 1 .. log - Len(sent[e])
         /\ flush.batch = [i \in 1 .. Len(flush.batch) |-> Len(sent[e]) + i]
<1>1. /\ flush.batch \in Seq(Nat) /\ sent[e] \in Seq(Nat) /\ buffer \in Seq(Nat) /\ log \in Nat
      /\ \A i \in 1 .. Len(flush.batch) : flush.batch[i] = Len(sent[e]) + i
  BY DEF PipeInv, PipeTypes, BatchNext
<1>2. Taken(e) <= log /\ Taken(e) = Len(sent[e]) + Len(flush.batch) + Len(buffer)
  BY DEF PipeInv, WaitingLast, Taken, Offered
<1>3. Len(flush.batch) # 0
  BY <1>1 DEF Flushing
<1>4. Len(flush.batch) \in Nat /\ Len(sent[e]) \in Nat /\ Len(buffer) \in Nat
  BY <1>1
<1>5. Len(flush.batch) \in 1 .. log - Len(sent[e])
  <2> DEFINE b == Len(flush.batch)
             a == Len(sent[e])
             c == Len(buffer)
  <2>1. b \in Nat /\ a \in Nat /\ c \in Nat /\ log \in Nat /\ b # 0 /\ a + b + c <= log
    BY <1>1, <1>2, <1>3, <1>4
  <2> HIDE DEF a, b, c
  <2>2. b \in 1 .. log - a
    BY <2>1
  <2> QED
    BY <2>2 DEF a, b
<1>6. flush.batch = [i \in 1 .. Len(flush.batch) |-> flush.batch[i]]
  BY <1>1
<1> QED
  BY <1>1, <1>5, <1>6

\* The pipeline implements the delivery of an event log, the promise that it ends aside:
\* a request that records an event adds it to the log, a batch that was sent tells an
\* endpoint of the next events, and nothing else is told.
THEOREM DeliveryRefined == ASSUME PipeConstants PROVE Spec => Delivery!SafeDelivery
<1>1. Init => Delivery!DeliveryInit
  BY DEF Init, Delivery!DeliveryInit
<1>2. PipeInv /\ [Next]_vars => [Delivery!DeliveryNext]_(Delivery!deliveryVars)
  <2> SUFFICES ASSUME PipeInv, [Next]_vars
               PROVE  [Delivery!DeliveryNext]_(Delivery!deliveryVars)
    OBVIOUS
  <2>1. ASSUME NEW r \in Requests, Record(r)  PROVE Delivery!EventRecorded
    BY <2>1 DEF Record, Delivery!EventRecorded
  <2>2. CASE SendBatch
    <3> DEFINE e == Head(flush.left)
               n == Len(flush.batch)
    <3>1. Flushing /\ log' = log /\ sent' = [sent EXCEPT ![e] = @ \o flush.batch]
      BY <2>2 DEF SendBatch
    <3>2. e \in Targets /\ e \in ToSet(flush.left)
      <4>1. flush.left \in Seq(Targets) /\ flush.left # <<>>
        BY <3>1 DEF PipeInv, PipeTypes, FlushShape
      <4>2. 1 \in 1 .. Len(flush.left) /\ e = flush.left[1] /\ e \in Targets
        BY <4>1, Tailed
      <4> QED
        BY <4>1, <4>2, Elements
    <3>3. n \in 1 .. log - Len(sent[e]) /\ flush.batch = [i \in 1 .. n |-> Len(sent[e]) + i]
      BY <3>1, <3>2, BatchIsNext
    <3>4. sent' = [sent EXCEPT ![e] = sent[e] \o [i \in 1 .. n |-> Len(sent[e]) + i]]
      BY <3>1, <3>3
    <3> HIDE DEF e, n
    <3>5. Delivery!Tell(e)
      BY <3>1, <3>3, <3>4 DEF Delivery!Tell
    <3> QED
      BY <3>2, <3>5 DEF Delivery!DeliveryNext, Targets
  <2>3. ASSUME NEW r \in Requests, Buffer(r)  PROVE log' = log /\ sent' = sent
    BY <2>3 DEF Buffer
  <2>4. ASSUME NEW k \in Loops, Wake(k) \/ LoopFlush(k)  PROVE log' = log /\ sent' = sent
    BY <2>4 DEF Wake, LoopFlush
  <2>5. CASE StartAgain \/ Stop \/ StopReturns
    BY <2>5 DEF StartAgain, Stop, StopReturns, Delivery!deliveryVars
  <2>6. CASE UNCHANGED vars
    BY <2>6 DEF vars, Delivery!deliveryVars
  <2> QED
    BY <2>1, <2>2, <2>3, <2>4, <2>5, <2>6 DEF Next, Delivery!DeliveryNext, Delivery!deliveryVars
<1>3. Init => PipeInv
  BY PipeStart
<1>4. PipeInv /\ [Next]_vars => PipeInv'
  BY PipeStep
<1> QED
  BY <1>1, <1>2, <1>3, <1>4, PTL DEF Spec, Safety, Delivery!SafeDelivery

\* The less-than relation on the naturals is well founded: a nonempty set of them has a
\* least member.
Less == {p \in Nat \X Nat : p[1] < p[2]}

LEMMA LeastMember ==
  ASSUME NEW S \in SUBSET Nat, S # {}
  PROVE  \E m \in S : \A k \in S : m <= k
<1>1. IsWellFoundedOn(Less, Nat)
  BY Zenon, NatLessThanWellFounded DEF OpToRel, Less
<1>2. PICK m \in S : \A k \in S : ~ (<<k, m>> \in Less)
  BY <1>1, WFMin
<1>3. ASSUME NEW k \in S  PROVE m <= k
  <2>1. k \in Nat /\ m \in Nat
    OBVIOUS
  <2>2. k < m => <<k, m>> \in Less
    BY <2>1 DEF Less
  <2>. QED  BY <1>2, <2>1, <2>2
<1>. QED  BY <1>3

-------------------------------------------------------------------------------
(* The SOAR engine *)

Actions == DOMAIN Works
Busy == [event : Events, at : RuleIds, left : Seq(Actions), ok : BOOLEAN]

\* The tasks that run the playbook of rule i.
Playing(i) == {t \in Tasks : playing[t].at = i}

SoarShape ==
  /\ recent \in [RuleIds -> [Keys -> Nat]]
  /\ history \in [RuleIds -> Nat]
  /\ playing \in [Tasks -> {Free} \cup Busy]

\* Executions in the cooldown and those under way, together.
SoarCap ==
  \A i \in RuleIds : history[i] + Cardinality(Playing(i)) <= Cap - 1 + Cardinality(Tasks)

\* The actions of a playbook that are left are its last ones; it is a success so far only
\* if those before could be called.
Sound ==
  {p \in Busy :
     LET actions == Rules[p.at].actions
     IN /\ Len(p.left) <= Len(actions)
        /\ \A n \in 1 .. Len(p.left) : p.left[n] = actions[Len(actions) - Len(p.left) + n]
        /\ p.ok => \A n \in 1 .. Len(actions) - Len(p.left) : Works[actions[n]]}

OkTells == \A t \in Tasks : playing[t] # Free => playing[t] \in Sound

DoneTells ==
  /\ \A d \in done : d.rule \in RuleIds
  /\ \A i \in RuleIds : history[i] > 0 => \E d \in done : d.rule = i

\* A task that is still to run the playbook of rule i, or to look at it.
Owes(t, i) ==
  /\ playing[t] \in Busy
  /\ playing[t].at <= i
  /\ Matches(playing[t].event, i)
  /\ recent[i][LastKey(playing[t].event)] >= Rules[i].min

OwedPlays ==
  /\ owed \subseteq RuleIds
  /\ \A i \in owed \cap OwnKeyed : \/ \E d \in done : d.rule = i
                                   \/ \E t \in Tasks : Owes(t, i)

SoarInv == SoarShape /\ SoarCap /\ OkTells /\ DoneTells /\ OwedPlays /\ HonestSuccess

Rule == [by : {"ip_address", "user_id", "asn"}, types : SUBSET STRING,
         min : Nat, actions : Seq(Actions)]

LEMMA RuleNumbers ==
  /\ Len(Rules) \in Nat /\ RuleIds = 1 .. Len(Rules)
  /\ \A i \in RuleIds : Rules[i] \in Rule
  /\ Cardinality(Tasks) \in Nat /\ Cap \in Nat \ {0}
<1>1. Rules \in Seq(Rule)
  BY SoarAssumption DEF Rule, Actions
<1>2. Len(Rules) \in Nat /\ RuleIds = 1 .. Len(Rules)
  BY <1>1, LenProperties DEF RuleIds
<1>. QED  BY <1>1, <1>2, ElementOfSeq, SoarAssumption, FS_CardinalityType

\* What an event is grouped by is one of its keys.
LEMMA KeyOfEvent ==
  ASSUME NEW e \in Events, NEW i \in RuleIds
  PROVE  GroupKey(e, i) \in Keys /\ LastKey(e) \in Keys
<1>1. ASSUME NEW n \in Nat, n <= Len(Rules)  PROVE GroupKey(e, n) \in Keys
  <2>. DEFINE setters == {j \in 1 .. n : Rules[j].by # "ip_address"}
  <2>1. CASE setters = {}
    BY <2>1 DEF GroupKey, Keys
  <2>2. CASE setters # {}
    <3>1. \E m \in setters : \A k \in setters : m >= k
      <4>. DEFINE rest == {n - k : k \in setters}
      <4>1. rest \in SUBSET Nat /\ rest # {}
        BY <2>2
      <4>2. PICK m \in rest : \A k \in rest : m <= k
        BY <4>1, LeastMember
      <4>3. PICK s \in setters : m = n - s
        OBVIOUS
      <4>4. \A k \in setters : n - s <= n - k
        BY <4>2, <4>3
      <4>. QED  BY <4>4
    <3>2. Max(setters) \in setters
      BY <3>1 DEF Max
    <3>3. Max(setters) \in RuleIds
      BY <1>1, <3>2, RuleNumbers
    <3>4. Rules[Max(setters)].by \in {"ip_address", "user_id", "asn"}
      BY <3>3, RuleNumbers DEF Rule
    <3>5. \A by \in {"ip_address", "user_id", "asn"} : e[by] \in Keys
      BY DEF Keys
    <3>6. e[Rules[Max(setters)].by] \in Keys
      BY <3>4, <3>5
    <3>. QED  BY <2>2, <3>6 DEF GroupKey
  <2>. QED  BY <2>1, <2>2
<1>2. i \in Nat /\ i <= Len(Rules) /\ Len(Rules) \in Nat
  BY RuleNumbers, SMTT(30)
<1>. QED  BY <1>1, <1>2 DEF LastKey

\* The rules grouped like the last one, if that is not by address.
LEMMA LastRulesOwnKeyed ==
  ASSUME NEW i \in RuleIds, Rules[i].by = Rules[Len(Rules)].by, Rules[i].by # "ip_address"
  PROVE  i \in OwnKeyed
<1>. DEFINE setters == {j \in 1 .. Len(Rules) : Rules[j].by # "ip_address"}
<1>1. Len(Rules) \in Nat /\ i \in 1 .. Len(Rules)
  BY RuleNumbers
<1>2. Len(Rules) \in setters /\ \A k \in setters : Len(Rules) >= k
  BY <1>1
<1>3. Max(setters) \in setters /\ Max(setters) >= Len(Rules)
  BY <1>2 DEF Max
<1>4. Max(setters) = Len(Rules)
  BY <1>1, <1>3
<1>. QED  BY <1>2, <1>4 DEF OwnKeyed, LastKey, GroupKey

\* What a task does next: nothing, or the first playbook that is due, from its start.
LEMMA GoesOn ==
  ASSUME SoarShape, NEW t \in Tasks, NEW e \in Events, NEW due \in SUBSET RuleIds,
         GoOn(t, e, due)
  PROVE  /\ playing' \in [Tasks -> {Free} \cup Busy]
         /\ \A q \in Tasks : q # t => playing'[q] = playing[q]
         /\ \/ due = {} /\ playing'[t] = Free
            \/ \E m \in due : /\ \A k \in due : m <= k
                              /\ playing'[t] = [event |-> e, at |-> m,
                                                left |-> Rules[m].actions, ok |-> TRUE]
                              /\ playing'[t] \in Busy /\ playing'[t] \in Sound
<1>1. playing \in [Tasks -> {Free} \cup Busy]
  BY DEF SoarShape
<1>2. CASE due = {}
  BY <1>1, <1>2 DEF GoOn
<1>3. CASE due # {}
  <2>1. due \in SUBSET Nat
    BY RuleNumbers
  <2>2. \E m \in due : \A k \in due : m <= k
    BY <1>3, <2>1, LeastMember
  <2>3. Min(due) \in due /\ \A k \in due : Min(due) <= k
    BY <2>2 DEF Min
  <2>. DEFINE m == Min(due)
              p == [event |-> e, at |-> m, left |-> Rules[m].actions, ok |-> TRUE]
  <2>4. m \in due /\ \A k \in due : m <= k
    BY <2>3
  <2>5. playing' = [playing EXCEPT ![t] = p]
    BY <1>3 DEF GoOn
  <2>. HIDE DEF m
  <2>6. m \in RuleIds /\ Rules[m].actions \in Seq(Actions)
    BY <2>4, RuleNumbers DEF Rule
  <2>7. p \in Busy
    BY <2>6 DEF Busy
  <2>8. p \in Sound
    <3>1. Len(Rules[m].actions) \in Nat
      BY <2>6, LenProperties
    <3>. QED  BY <2>7, <3>1 DEF Sound
  <2>9. /\ playing' \in [Tasks -> {Free} \cup Busy] /\ playing'[t] = p
        /\ \A q \in Tasks : q # t => playing'[q] = playing[q]
    BY <1>1, <2>5, <2>7
  <2>. QED  BY <2>4, <2>7, <2>8, <2>9
<1>. QED  BY <1>2, <1>3

\* A free task is at no rule, a busy one is.
LEMMA FreeOrBusy ==
  /\ Free \notin Busy /\ Free.at = 0 /\ Free.left = <<>>
  /\ 0 \notin RuleIds
BY RuleNumbers DEF Free, Busy

LEMMA PlayingFinite ==
  ASSUME NEW i
  PROVE  /\ IsFiniteSet(Playing(i)) /\ Cardinality(Playing(i)) \in Nat
         /\ Cardinality(Playing(i)) <= Cardinality(Tasks)
         /\ IsFiniteSet(Playing(i)') /\ Cardinality(Playing(i)') \in Nat
         /\ Cardinality(Playing(i)') <= Cardinality(Tasks)
<1>1. Playing(i) \in SUBSET Tasks /\ Playing(i)' \in SUBSET Tasks
  BY DEF Playing
<1>. QED  BY <1>1, SoarAssumption, FS_Subset, FS_CardinalityType

\* The cap, when a task goes on from one rule to another below its cap, or ends.
LEMMA SoarCapMoved ==
  ASSUME SoarInv, history' \in [RuleIds -> Nat], NEW t \in Tasks,
         \A q \in Tasks \ {t} : playing'[q] = playing[q],
         \A i \in RuleIds :
           \/ playing'[t].at = i /\ history[i] < Cap /\ history'[i] = history[i]
           \/ /\ playing'[t].at # i
              /\ \/ history'[i] = history[i]
                 \/ playing[t].at = i /\ history'[i] = history[i] + 1
  PROVE  SoarCap'
<1>. SUFFICES ASSUME NEW i \in RuleIds
              PROVE  history'[i] + Cardinality(Playing(i)') <= Cap - 1 + Cardinality(Tasks)
  BY DEF SoarCap
<1>1. /\ history[i] \in Nat /\ history'[i] \in Nat
      /\ history[i] + Cardinality(Playing(i)) <= Cap - 1 + Cardinality(Tasks)
  BY DEF SoarInv, SoarCap, SoarShape
<1>2. Cap \in Nat \ {0} /\ Cardinality(Tasks) \in Nat
  BY RuleNumbers
<1>3. /\ IsFiniteSet(Playing(i)) /\ Cardinality(Playing(i)) \in Nat
      /\ Cardinality(Playing(i)') \in Nat /\ Cardinality(Playing(i)') <= Cardinality(Tasks)
  BY PlayingFinite
<1>4. CASE playing'[t].at = i /\ history[i] < Cap /\ history'[i] = history[i]
  BY <1>1, <1>2, <1>3, <1>4
<1>5. CASE playing'[t].at # i
  <2>1. Playing(i)' = Playing(i) \ {t}
    BY <1>5 DEF Playing
  <2>2. CASE t \in Playing(i)
    <3>1. Cardinality(Playing(i)') = Cardinality(Playing(i)) - 1
      BY <1>3, <2>1, <2>2, FS_RemoveElement
    <3>2. history'[i] <= history[i] + 1
      BY <1>1, <1>5
    <3>. QED  BY <1>1, <1>2, <1>3, <3>1, <3>2
  <2>3. CASE t \notin Playing(i)
    <3>1. Playing(i)' = Playing(i) /\ history'[i] = history[i]
      BY <1>5, <2>1, <2>3 DEF Playing
    <3>. QED  BY <1>1, <3>1
  <2>. QED  BY <2>2, <2>3
<1>. QED  BY <1>4, <1>5

LEMMA ProcessStep ==
  ASSUME SoarInv, NEW t \in Tasks, NEW e \in Events, Process(t, e)
  PROVE  SoarInv'
<1>. DEFINE fed == [i \in RuleIds |-> [recent[i] EXCEPT ![GroupKey(e, i)] = @ + 1]]
            due == Due(e, 1, fed)
<1>1. /\ playing[t] = Free /\ recent' = fed /\ GoOn(t, e, due)
      /\ owed' = owed \cup {i \in RuleIds : /\ Matches(e, i) /\ Cool(i)
                                            /\ fed[i][e[Rules[i].by]] >= Rules[i].min}
      /\ UNCHANGED <<history, done>>
  BY DEF Process
<1>2. SoarShape
  BY DEF SoarInv
<1>3. \A i \in RuleIds :
        /\ fed[i] \in [Keys -> Nat]
        /\ \A k \in Keys : recent[i][k] \in Nat /\ fed[i][k] >= recent[i][k]
  <2>. SUFFICES ASSUME NEW i \in RuleIds
                PROVE  /\ fed[i] \in [Keys -> Nat]
                       /\ \A k \in Keys : recent[i][k] \in Nat /\ fed[i][k] >= recent[i][k]
    OBVIOUS
  <2>1. GroupKey(e, i) \in Keys /\ recent[i] \in [Keys -> Nat]
    BY <1>2, KeyOfEvent DEF SoarShape
  <2>. QED  BY <2>1
<1>4. fed \in [RuleIds -> [Keys -> Nat]]
  BY <1>3
<1>5. /\ due \in SUBSET RuleIds
      /\ due = {i \in RuleIds : /\ Matches(e, i) /\ Cool(i)
                                /\ fed[i][LastKey(e)] >= Rules[i].min}
  BY RuleNumbers DEF Due
<1>. HIDE DEF fed, due
<1>6. GoOn(t, e, due) /\ due \in SUBSET RuleIds
  BY <1>1, <1>5
<1>7. /\ playing' \in [Tasks -> {Free} \cup Busy]
      /\ \A q \in Tasks : q # t => playing'[q] = playing[q]
      /\ \/ due = {} /\ playing'[t] = Free
         \/ \E m \in due : /\ \A k \in due : m <= k
                           /\ playing'[t] = [event |-> e, at |-> m,
                                             left |-> Rules[m].actions, ok |-> TRUE]
                           /\ playing'[t] \in Busy /\ playing'[t] \in Sound
  BY <1>2, <1>6, GoesOn
<1>8. SoarShape'
  BY <1>1, <1>2, <1>4, <1>7 DEF SoarShape
<1>9. SoarCap'
  <2>1. \A i \in RuleIds : playing'[t].at = i => history[i] < Cap
    BY <1>5, <1>7, FreeOrBusy DEF Cool
  <2>. QED  BY <1>1, <1>7, <1>8, <2>1, SoarCapMoved DEF SoarShape
<1>10. OkTells'
  BY <1>7 DEF SoarInv, OkTells
<1>11. DoneTells' /\ HonestSuccess'
  BY <1>1 DEF SoarInv, DoneTells, HonestSuccess
<1>12. OwedPlays'
  <2>1. owed' \subseteq RuleIds
    BY <1>1 DEF SoarInv, OwedPlays
  <2>2. ASSUME NEW i \in owed' \cap OwnKeyed
        PROVE  \/ \E d \in done' : d.rule = i
               \/ \E q \in Tasks : Owes(q, i)'
    <3>1. i \in RuleIds
      BY <2>1
    <3>2. CASE i \in owed /\ \E d \in done : d.rule = i
      BY <1>1, <3>2
    <3>3. CASE i \in owed /\ ~ \E d \in done : d.rule = i
      <4>1. PICK q \in Tasks : Owes(q, i)
        BY <3>3 DEF SoarInv, OwedPlays
      <4>2. q # t /\ playing'[q] = playing[q] /\ playing[q] \in Busy
        BY <1>1, <1>7, <4>1, FreeOrBusy DEF Owes
      <4>3. LastKey(playing[q].event) \in Keys
        BY <3>1, <4>2, KeyOfEvent DEF Busy
      <4>4. /\ recent[i][LastKey(playing[q].event)] \in Nat
            /\ recent'[i][LastKey(playing[q].event)] \in Nat
            /\ recent'[i][LastKey(playing[q].event)] >= recent[i][LastKey(playing[q].event)]
        BY <1>1, <1>3, <3>1, <4>3
      <4>5. Rules[i].min \in Nat
        BY <3>1, RuleNumbers DEF Rule
      <4>6. Owes(q, i)'
        BY <4>1, <4>2, <4>4, <4>5 DEF Owes
      <4>. QED  BY <4>6
    <3>4. CASE i \notin owed
      <4>1. Matches(e, i) /\ Cool(i) /\ fed[i][e[Rules[i].by]] >= Rules[i].min
        BY <1>1, <2>2, <3>4
      <4>2. LastKey(e) = e[Rules[i].by]
        BY <2>2 DEF OwnKeyed
      <4>3. i \in due
        BY <1>5, <3>1, <4>1, <4>2
      <4>4. PICK m \in due :
              /\ m <= i /\ playing'[t] \in Busy
              /\ playing'[t].at = m /\ playing'[t].event = e
        BY <1>7, <4>3
      <4>5. Owes(t, i)'
        BY <1>1, <4>1, <4>2, <4>4 DEF Owes
      <4>. QED  BY <4>5
    <3>. QED  BY <3>2, <3>3, <3>4
  <2>. QED  BY <2>1, <2>2 DEF OwedPlays
<1>. QED  BY <1>8, <1>9, <1>10, <1>11, <1>12 DEF SoarInv

LEMMA ActStep ==
  ASSUME SoarInv, NEW t \in Tasks, Act(t)
  PROVE  SoarInv'
<1>. DEFINE p == playing[t]
            actions == Rules[p.at].actions
            q == [p EXCEPT !.left = Tail(@), !.ok = @ /\ Works[Head(p.left)]]
<1>1. p \in Busy /\ p.left # <<>>
  BY FreeOrBusy DEF Act, SoarInv, SoarShape
<1>2. /\ playing' = [playing EXCEPT ![t].left = Tail(@),
                                    ![t].ok = @ /\ Works[Head(playing[t].left)]]
      /\ UNCHANGED <<recent, history, done, owed>>
  BY DEF Act
<1>3. /\ p.left \in Seq(Actions) /\ p.at \in RuleIds /\ actions \in Seq(Actions)
      /\ p.ok \in BOOLEAN /\ p.event \in Events
  BY <1>1, RuleNumbers DEF Busy, Rule
<1>4. /\ Head(p.left) = p.left[1] /\ Head(p.left) \in Actions
      /\ Tail(p.left) \in Seq(Actions)
      /\ Len(Tail(p.left)) = Len(p.left) - 1 /\ Len(p.left) \in Nat \ {0}
      /\ \A n \in 1 .. Len(p.left) - 1 : Tail(p.left)[n] = p.left[n + 1]
  BY <1>1, <1>3, HeadTailProperties, EmptySeq
<1>5. /\ playing'[t] = q /\ q.at = p.at /\ q.event = p.event /\ q.left = Tail(p.left)
      /\ q.ok = (p.ok /\ Works[Head(p.left)])
      /\ \A s \in Tasks : s # t => playing'[s] = playing[s]
  BY <1>1, <1>2 DEF SoarInv, SoarShape, Busy
<1>6. Works[Head(p.left)] \in BOOLEAN
  BY <1>4, SoarAssumption DEF Actions
<1>7. q \in Busy
  BY <1>1, <1>3, <1>4, <1>6 DEF Busy
<1>. HIDE DEF q
<1>8. playing' \in [Tasks -> {Free} \cup Busy]
  BY <1>2, <1>5, <1>7 DEF SoarInv, SoarShape
<1>9. SoarShape' /\ DoneTells' /\ HonestSuccess'
  BY <1>2, <1>8 DEF SoarInv, SoarShape, DoneTells, HonestSuccess
<1>10. SoarCap'
  <2>1. \A i \in RuleIds : Playing(i)' = Playing(i)
    BY <1>5 DEF Playing
  <2>. QED  BY <1>2, <2>1 DEF SoarInv, SoarCap
<1>11. q \in Sound
  <2>1. p \in Sound
    BY <1>1, FreeOrBusy DEF SoarInv, OkTells
  <2>. DEFINE left == Tail(p.left)
              L == Len(actions)
              K == Len(p.left)
  <2>2. L \in Nat /\ K \in Nat \ {0}
    BY <1>3, <1>4, LenProperties
  <2>3. /\ K <= L
        /\ \A n \in 1 .. K : p.left[n] = actions[L - K + n]
        /\ p.ok => \A n \in 1 .. L - K : Works[actions[n]]
    BY <2>1 DEF Sound
  <2>4. Len(left) = K - 1 /\ \A n \in 1 .. K - 1 : left[n] = p.left[n + 1]
    BY <1>4
  <2>5. Len(Rules[q.at].actions) = L /\ Rules[q.at].actions = actions
        /\ Len(q.left) = K - 1 /\ q.left = left
    BY <1>5, <2>4
  <2>. HIDE DEF L, K, left
  <2>6. \A n \in 1 .. K - 1 : left[n] = actions[L - (K - 1) + n]
    <3>. SUFFICES ASSUME NEW n \in 1 .. K - 1  PROVE left[n] = actions[L - (K - 1) + n]
      OBVIOUS
    <3>1. left[n] = p.left[n + 1] /\ n + 1 \in 1 .. K
      BY <2>2, <2>4
    <3>2. p.left[n + 1] = actions[L - K + (n + 1)]
      BY <2>3, <3>1
    <3>3. L - K + (n + 1) = L - (K - 1) + n
      BY <2>2
    <3>. QED  BY <3>1, <3>2, <3>3, Zenon
  <2>7. q.ok => \A n \in 1 .. L - (K - 1) : Works[actions[n]]
    <3>. SUFFICES ASSUME q.ok, NEW n \in 1 .. L - (K - 1)  PROVE Works[actions[n]]
      OBVIOUS
    <3>1. p.ok /\ Works[Head(p.left)]
      BY <1>5
    <3>2. CASE n = L - K + 1
      <4>1. 1 \in 1 .. K
        BY <2>2
      <4>2. p.left[1] = actions[L - K + 1]
        BY <2>3, <4>1
      <4>. QED  BY <1>4, <3>1, <3>2, <4>2, Zenon
    <3>3. CASE n # L - K + 1
      <4>1. n \in 1 .. L - K
        BY <2>2, <2>3, <3>3
      <4>. QED  BY <2>3, <3>1, <4>1
    <3>. QED  BY <3>2, <3>3
  <2>8. K - 1 <= L
    BY <2>2, <2>3
  <2>. HIDE DEF actions
  <2>. QED  BY <1>7, <2>5, <2>6, <2>7, <2>8 DEF Sound
<1>12. OkTells'
  BY <1>5, <1>11 DEF SoarInv, OkTells
<1>13. OwedPlays'
  <2>1. \A s \in Tasks, i \in RuleIds : Owes(s, i) => Owes(s, i)'
    BY <1>2, <1>5, <1>7 DEF Owes
  <2>. QED  BY <1>2, <2>1 DEF SoarInv, OwedPlays
<1>. QED  BY <1>9, <1>10, <1>12, <1>13 DEF SoarInv

LEMMA FinishStep ==
  ASSUME SoarInv, NEW t \in Tasks, Finish(t)
  PROVE  SoarInv'
<1>. DEFINE p == playing[t]
<1>1. p \in Busy /\ p \in Sound /\ p.left = <<>>
  BY FreeOrBusy DEF Finish, SoarInv, SoarShape, OkTells
<1>2. PICK i \in RuleIds, e \in Events : p.at = i /\ p.event = e
  BY <1>1 DEF Busy
<1>. DEFINE due == Due(e, i + 1, recent)
            told == [rule |-> i, key |-> LastKey(e), ok |-> p.ok]
<1>3. /\ done' = done \cup {told} /\ history' = [history EXCEPT ![i] = @ + 1]
      /\ GoOn(t, e, due) /\ UNCHANGED <<recent, owed>>
  BY <1>2 DEF Finish
<1>4. /\ due \in SUBSET RuleIds
      /\ due = {j \in RuleIds : /\ j > i /\ Matches(e, j) /\ Cool(j)
                                /\ recent[j][LastKey(e)] >= Rules[j].min}
  BY RuleNumbers DEF Due
<1>. HIDE DEF due
<1>5. SoarShape /\ GoOn(t, e, due) /\ due \in SUBSET RuleIds
  BY <1>3, <1>4 DEF SoarInv
<1>6. /\ playing' \in [Tasks -> {Free} \cup Busy]
      /\ \A q \in Tasks : q # t => playing'[q] = playing[q]
      /\ \/ due = {} /\ playing'[t] = Free
         \/ \E m \in due : /\ \A k \in due : m <= k
                           /\ playing'[t] = [event |-> e, at |-> m,
                                             left |-> Rules[m].actions, ok |-> TRUE]
                           /\ playing'[t] \in Busy /\ playing'[t] \in Sound
  BY <1>5, GoesOn
<1>7. /\ history[i] \in Nat /\ history'[i] = history[i] + 1 /\ history' \in [RuleIds -> Nat]
      /\ \A j \in RuleIds : j # i => history'[j] = history[j]
  BY <1>3, <1>5 DEF SoarShape
<1>8. SoarShape'
  BY <1>3, <1>5, <1>6, <1>7 DEF SoarShape
<1>9. SoarCap'
  <2>1. i \notin due /\ 0 \notin RuleIds
    BY <1>4, RuleNumbers
  <2>2. \A j \in RuleIds : playing'[t].at = j => j # i /\ history[j] < Cap
    BY <1>4, <1>6, <2>1, FreeOrBusy DEF Cool
  <2>. QED  BY <1>2, <1>6, <1>7, <2>2, SoarCapMoved
<1>10. OkTells'
  BY <1>6 DEF SoarInv, OkTells
<1>11. told.rule = i /\ told \in done' /\ told.ok = p.ok
  BY <1>3
<1>12. DoneTells'
  <2>1. ASSUME NEW j \in RuleIds, history'[j] > 0  PROVE \E d \in done' : d.rule = j
    BY <1>3, <1>7, <1>11, <2>1 DEF SoarInv, DoneTells
  <2>. QED  BY <1>3, <2>1 DEF SoarInv, DoneTells
<1>13. HonestSuccess'
  <2>1. ASSUME told.ok, NEW n \in DOMAIN Rules[i].actions
        PROVE  Works[Rules[i].actions[n]]
    <3>1. Rules[i].actions \in Seq(Actions)
      BY RuleNumbers DEF Rule
    <3>2. Len(p.left) = 0
      BY <1>1, EmptySeq
    <3>3. n \in 1 .. Len(Rules[i].actions) - 0
      BY <3>1, LenProperties
    <3>. QED  BY <1>1, <1>2, <2>1, <3>2, <3>3 DEF Sound
  <2>. QED  BY <1>3, <2>1 DEF SoarInv, HonestSuccess
<1>14. OwedPlays'
  <2>1. ASSUME NEW j \in owed \cap OwnKeyed
        PROVE  \/ \E d \in done' : d.rule = j
               \/ \E q \in Tasks : Owes(q, j)'
    <3>1. j \in RuleIds
      BY DEF SoarInv, OwedPlays
    <3>2. CASE \E d \in done : d.rule = j
      BY <1>3, <3>2
    <3>3. CASE j = i
      BY <1>11, <3>3
    <3>4. CASE j # i /\ ~ \E d \in done : d.rule = j
      <4>1. PICK q \in Tasks : Owes(q, j)
        BY <3>4 DEF SoarInv, OwedPlays
      <4>2. CASE q # t
        BY <1>3, <1>6, <4>1, <4>2 DEF Owes
      <4>3. CASE q = t
        <5>1. Cool(j)
          <6>1. history[j] \in Nat /\ ~ history[j] > 0
            BY <3>1, <3>4, <1>5 DEF SoarInv, DoneTells, SoarShape
          <6>. QED  BY <6>1, RuleNumbers DEF Cool
        <5>2. /\ i <= j /\ Matches(e, j)
              /\ recent[j][LastKey(e)] >= Rules[j].min
          BY <1>2, <4>1, <4>3 DEF Owes
        <5>3. j \in due
          BY <1>4, <3>1, <3>4, <5>1, <5>2, RuleNumbers
        <5>4. PICK m \in due :
                /\ m <= j /\ playing'[t] \in Busy
                /\ playing'[t].at = m /\ playing'[t].event = e
          BY <1>6, <5>3
        <5>5. Owes(t, j)'
          BY <1>3, <5>2, <5>4 DEF Owes
        <5>. QED  BY <5>5
      <4>. QED  BY <4>2, <4>3
    <3>. QED  BY <3>2, <3>3, <3>4
  <2>. QED  BY <1>3, <2>1 DEF SoarInv, OwedPlays
<1>. QED  BY <1>8, <1>9, <1>10, <1>12, <1>13, <1>14 DEF SoarInv

\* While nothing is being processed nothing is owed: minutes that pass then are harmless.
LEMMA QuietOwesNothing ==
  ASSUME SoarInv, Quiet
  PROVE  LastGroupRuns /\ \A i \in owed \cap OwnKeyed : \E d \in done : d.rule = i
<1>1. \A t \in Tasks, i \in RuleIds : ~ Owes(t, i)
  BY FreeOrBusy DEF Owes, Quiet
<1>. QED  BY <1>1 DEF SoarInv, OwedPlays, LastGroupRuns

LEMMA AgeStep ==
  ASSUME SoarInv, NEW i \in RuleIds, (\E k \in Keys : Age(i, k)) \/ CoolDown(i)
  PROVE  SoarInv'
<1>1. UNCHANGED <<playing, done, owed>> /\ Quiet
  BY DEF Age, CoolDown
<1>2. SoarShape' /\ \A j \in RuleIds : history'[j] <= history[j] /\ history[j] \in Nat
  <2>1. ASSUME NEW k \in Keys, Age(i, k)
        PROVE  SoarShape' /\ \A j \in RuleIds : history'[j] <= history[j] /\ history[j] \in Nat
    <3>1. recent[i] \in [Keys -> Nat] /\ recent[i][k] > 0
      BY <2>1 DEF Age, SoarInv, SoarShape
    <3>2. [recent[i] EXCEPT ![k] = @ - 1] \in [Keys -> Nat]
      BY <3>1
    <3>3. recent' \in [RuleIds -> [Keys -> Nat]]
      BY <2>1, <3>2 DEF Age, SoarInv, SoarShape
    <3>. QED  BY <1>1, <2>1, <3>3 DEF Age, SoarInv, SoarShape
  <2>2. CASE CoolDown(i)
    BY <1>1, <2>2 DEF CoolDown, SoarInv, SoarShape
  <2>. QED  BY <2>1, <2>2
<1>3. SoarCap'
  <2>1. ASSUME NEW j \in RuleIds
        PROVE  history'[j] + Cardinality(Playing(j)') <= Cap - 1 + Cardinality(Tasks)
    <3>1. Playing(j)' = Playing(j)
      BY <1>1 DEF Playing
    <3>2. history'[j] \in Nat /\ history[j] \in Nat /\ history'[j] <= history[j]
      BY <1>2 DEF SoarShape
    <3>3. history[j] + Cardinality(Playing(j)) <= Cap - 1 + Cardinality(Tasks)
      BY DEF SoarInv, SoarCap
    <3>. QED  BY <3>1, <3>2, <3>3, PlayingFinite, RuleNumbers
  <2>. QED  BY <2>1 DEF SoarCap
<1>4. OkTells' /\ HonestSuccess'
  BY <1>1 DEF SoarInv, OkTells, HonestSuccess
<1>5. DoneTells'
  <2>1. \A j \in RuleIds : history'[j] > 0 => history[j] > 0
    BY <1>2 DEF SoarShape
  <2>. QED  BY <1>1, <2>1 DEF SoarInv, DoneTells
<1>6. OwedPlays'
  BY <1>1, QuietOwesNothing DEF SoarInv, OwedPlays
<1>. QED  BY <1>2, <1>3, <1>4, <1>5, <1>6 DEF SoarInv

LEMMA SoarStep ==
  ASSUME SoarInv, [SoarNext]_soarVars
  PROVE  SoarInv'
<1>1. CASE UNCHANGED soarVars
  BY <1>1 DEF soarVars, SoarInv, SoarShape, SoarCap, Playing, OkTells, DoneTells, OwedPlays,
              Owes, HonestSuccess
<1>. QED  BY <1>1, ProcessStep, ActStep, FinishStep, AgeStep DEF SoarNext

LEMMA SoarInvariant == SoarInit /\ [][SoarNext]_soarVars => []SoarInv
<1>1. SoarInit => SoarInv
  <2>. SUFFICES ASSUME SoarInit  PROVE SoarInv
    OBVIOUS
  <2>1. SoarShape /\ OkTells /\ DoneTells /\ OwedPlays /\ HonestSuccess
    BY DEF SoarInit, SoarShape, OkTells, DoneTells, OwedPlays, HonestSuccess
  <2>2. ASSUME NEW i \in RuleIds
        PROVE  history[i] + Cardinality(Playing(i)) <= Cap - 1 + Cardinality(Tasks)
    <3>1. history[i] = 0 /\ Playing(i) = {}
      BY FreeOrBusy DEF SoarInit, Playing
    <3>. QED  BY <3>1, FS_EmptySet, RuleNumbers
  <2>. QED  BY <2>1, <2>2 DEF SoarInv, SoarCap
<1>2. SoarInv /\ [SoarNext]_soarVars => SoarInv'
  BY SoarStep
<1>. QED  BY <1>1, <1>2, PTL

\* For any rules, events and number of requests at once, however their handlers
\* interleave: the cap on a rule's executions is overshot by less than that number.
THEOREM OvershootBounded == SoarSpec => []CapOvershootBounded
<1>1. SoarInv => CapOvershootBounded
  <2>. SUFFICES ASSUME SoarInv, NEW i \in RuleIds
                PROVE  history[i] <= Cap - 1 + Cardinality(Tasks)
    BY DEF CapOvershootBounded
  <2>1. /\ history[i] \in Nat
        /\ history[i] + Cardinality(Playing(i)) <= Cap - 1 + Cardinality(Tasks)
    BY DEF SoarInv, SoarShape, SoarCap
  <2>. QED  BY <2>1, PlayingFinite, RuleNumbers
<1>. QED  BY <1>1, SoarInvariant, PTL DEF SoarSpec

\* For any rules: a playbook whose rule looks at its own group is not lost, whatever else
\* is processed meanwhile, and an execution told as a success had no action that failed.
THEOREM PlaybooksDone == SoarSpec => []PlaybooksRun
<1>1. SoarInv => PlaybooksRun
  <2>. SUFFICES ASSUME SoarInv  PROVE LastGroupRuns /\ HonestSuccess
    BY DEF PlaybooksRun
  <2>1. LastGroupRuns
    BY QuietOwesNothing DEF LastGroupRuns
  <2>. QED  BY <2>1 DEF SoarInv
<1>. QED  BY <1>1, SoarInvariant, PTL DEF SoarSpec

\* For any rules: windows keep to their bound, a task is at a rule only while it plays, and
\* what was executed names a rule and a group (process_event, _execute_playbook).
THEOREM SoarTyped ==
  ASSUME MaxRecent \in Nat
  PROVE  SoarInit /\ [][SoarNext]_soarVars => []SoarTypeOK
<1>. DEFINE Windowed == \A i \in RuleIds, k \in Keys : recent[i][k] <= MaxRecent
            Keyed == \A d \in done : d.key \in Keys
<1>1. SoarInit => Windowed /\ Keyed
  BY DEF SoarInit
<1>2. SoarInv /\ Windowed /\ [SoarNext]_soarVars => Windowed'
  <2>. SUFFICES ASSUME SoarInv, Windowed, [SoarNext]_soarVars  PROVE Windowed'
    OBVIOUS
  <2>0. recent \in [RuleIds -> [Keys -> Nat]]
    BY DEF SoarInv, SoarShape
  <2>1. ASSUME NEW t \in Tasks, NEW e \in Events, Process(t, e)  PROVE Windowed'
    <3>1. /\ recent' = [i \in RuleIds |-> [recent[i] EXCEPT ![GroupKey(e, i)] = @ + 1]]
          /\ \A i \in RuleIds : recent[i][GroupKey(e, i)] < MaxRecent
      BY <2>1 DEF Process
    <3>2. ASSUME NEW i \in RuleIds, NEW k \in Keys  PROVE recent'[i][k] <= MaxRecent
      <4>1. recent[i] \in [Keys -> Nat] /\ recent[i][k] \in Nat
        BY <2>0
      <4>2. recent'[i][k] = IF k = GroupKey(e, i) THEN recent[i][k] + 1 ELSE recent[i][k]
        BY <3>1, <4>1
      <4>. QED  BY <3>1, <4>1, <4>2
    <3>. QED  BY <3>2
  <2>2. ASSUME NEW i \in RuleIds, NEW k \in Keys, Age(i, k)  PROVE Windowed'
    <3>1. recent' = [recent EXCEPT ![i] = [recent[i] EXCEPT ![k] = recent[i][k] - 1]]
      BY <2>2 DEF Age
    <3>2. ASSUME NEW j \in RuleIds, NEW q \in Keys  PROVE recent'[j][q] <= MaxRecent
      <4>1. recent[j] \in [Keys -> Nat] /\ recent[j][q] \in Nat /\ recent[i] \in [Keys -> Nat]
        BY <2>0
      <4>2. recent'[j][q] \in {recent[j][q], recent[j][q] - 1}
        BY <2>0, <3>1, <4>1
      <4>. QED  BY <4>1, <4>2
    <3>. QED  BY <3>2
  <2>3. CASE UNCHANGED recent
    BY <2>3
  <2>. QED
    BY <2>1, <2>2, <2>3 DEF SoarNext, soarVars, Act, Finish, CoolDown
<1>3. SoarInv /\ Keyed /\ [SoarNext]_soarVars => Keyed'
  <2>. SUFFICES ASSUME SoarInv, Keyed, [SoarNext]_soarVars  PROVE Keyed'
    OBVIOUS
  <2>1. ASSUME NEW t \in Tasks, Finish(t)  PROVE Keyed'
    <3>1. playing[t] \in Busy
      BY <2>1, FreeOrBusy DEF Finish, SoarInv, SoarShape
    <3>2. LastKey(playing[t].event) \in Keys
      BY <3>1, KeyOfEvent DEF Busy
    <3>. QED  BY <2>1, <3>2 DEF Finish
  <2>2. CASE UNCHANGED done
    BY <2>2
  <2>. QED
    BY <2>1, <2>2 DEF SoarNext, soarVars, Process, Act, Age, CoolDown
<1>4. SoarInv /\ Windowed /\ Keyed => SoarTypeOK
  <2>. SUFFICES ASSUME SoarInv, Windowed, Keyed  PROVE SoarTypeOK
    OBVIOUS
  <2>0. recent \in [RuleIds -> [Keys -> Nat]]
    BY DEF SoarInv, SoarShape
  <2>1. ASSUME NEW i \in RuleIds  PROVE recent[i] \in [Keys -> 0 .. MaxRecent]
    BY <2>0
  <2>2. ASSUME NEW t \in Tasks
        PROVE  playing[t].at \in {0} \cup RuleIds /\ (playing[t].at = 0 <=> playing[t] = Free)
    <3>1. playing[t] \in {Free} \cup Busy
      BY DEF SoarInv, SoarShape
    <3>. QED  BY <3>1, FreeOrBusy DEF Busy
  <2>. QED
    BY <2>0, <2>1, <2>2 DEF SoarInv, SoarShape, DoneTells, OwedPlays, SoarTypeOK
<1>. HIDE DEF Windowed, Keyed
<1>. QED  BY <1>1, <1>2, <1>3, <1>4, SoarInvariant, PTL

\* What the events of a rule are counted under, and what the second loop looks for.
GroupsOf(i) == {GroupKey(f, i) : f \in Events}
LookedFor == {LastKey(e) : e \in Events}

\* The rules that are cut off: they ask for events, and what these are counted under is
\* never looked for.
Cut == {i \in RuleIds : Rules[i].min > 0 /\ GroupsOf(i) \cap LookedFor = {}}

\* What is counted, was counted under a group of its rule; and a playbook that runs was set
\* off by such a group.
Counted ==
  /\ \A i \in RuleIds, k \in Keys : recent[i][k] > 0 => k \in GroupsOf(i)
  /\ \A t \in Tasks : playing[t] # Free => playing[t].at \notin Cut
  /\ \A d \in done : d.rule \notin Cut

\* A rule that is due for an event has counted it under what is looked for.
LEMMA DueIsNotCut ==
  ASSUME NEW e \in Events, NEW from \in Nat, NEW i \in RuleIds,
         NEW events \in [RuleIds -> [Keys -> Nat]], i \in Due(e, from, events),
         \A j \in RuleIds, k \in Keys : events[j][k] > 0 => k \in GroupsOf(j)
  PROVE  i \notin Cut
<1>1. events[i][LastKey(e)] >= Rules[i].min /\ Rules[i].min \in Nat
  BY RuleNumbers DEF Due, Rule
<1>2. LastKey(e) \in Keys /\ LastKey(e) \in LookedFor
  BY KeyOfEvent DEF LookedFor
<1>3. events[i][LastKey(e)] \in Nat
  BY <1>2
<1>. QED  BY <1>1, <1>2, <1>3 DEF Cut

\* Going on with a playbook that is due keeps what is said of the playbooks that run.
LEMMA GoesOnUncut ==
  ASSUME SoarShape, Counted, NEW t \in Tasks, NEW e \in Events, NEW from \in Nat \ {0},
         NEW events \in [RuleIds -> [Keys -> Nat]], GoOn(t, e, Due(e, from, events)),
         \A j \in RuleIds, k \in Keys : events[j][k] > 0 => k \in GroupsOf(j)
  PROVE  \A q \in Tasks : playing'[q] # Free => playing'[q].at \notin Cut
<1>. DEFINE due == Due(e, from, events)
<1>1. due \in SUBSET RuleIds
  BY RuleNumbers DEF Due
<1>2. \A i \in due : i \notin Cut
  BY <1>1, DueIsNotCut
<1>. HIDE DEF due
<1>3. GoOn(t, e, due)
  BY DEF due
<1>4. /\ \A q \in Tasks : q # t => playing'[q] = playing[q]
      /\ \/ due = {} /\ playing'[t] = Free
         \/ \E m \in due : /\ \A k \in due : m <= k
                           /\ playing'[t] = [event |-> e, at |-> m,
                                             left |-> Rules[m].actions, ok |-> TRUE]
                           /\ playing'[t] \in Busy /\ playing'[t] \in Sound
  BY <1>1, <1>3, GoesOn
<1>5. playing'[t] = Free \/ playing'[t].at \in due
  <2>1. ASSUME NEW m \in due,
               playing'[t] = [event |-> e, at |-> m, left |-> Rules[m].actions, ok |-> TRUE]
        PROVE  playing'[t].at \in due
    BY <2>1
  <2>. QED  BY <1>4, <2>1
<1>. QED  BY <1>2, <1>4, <1>5 DEF Counted

\* The rules that never run (telemetry.py:645), for any list of rules: where the group the
\* last rule leaves behind is none of a rule's own, its playbook is never executed, however
\* many of its events there are and whatever the operator made of its threshold.
THEOREM CutRulesNeverRun == SoarSpec => [](\A d \in done : d.rule \notin Cut)
<1>1. SoarInit => Counted
  BY DEF SoarInit, Counted
<1>2. SoarInv /\ Counted /\ [SoarNext]_soarVars => Counted'
  <2>. SUFFICES ASSUME SoarInv, Counted, [SoarNext]_soarVars  PROVE Counted'
    OBVIOUS
  <2>0. SoarShape /\ recent \in [RuleIds -> [Keys -> Nat]]
    BY DEF SoarInv, SoarShape
  <2>1. ASSUME NEW t \in Tasks, NEW e \in Events, Process(t, e)  PROVE Counted'
    <3>. DEFINE fed == [i \in RuleIds |-> [recent[i] EXCEPT ![GroupKey(e, i)] = @ + 1]]
    <3>1. recent' = fed /\ GoOn(t, e, Due(e, 1, fed)) /\ UNCHANGED done
      BY <2>1 DEF Process
    <3>2. fed \in [RuleIds -> [Keys -> Nat]]
      <4>. SUFFICES ASSUME NEW i \in RuleIds
                    PROVE  [recent[i] EXCEPT ![GroupKey(e, i)] = @ + 1] \in [Keys -> Nat]
        OBVIOUS
      <4>. QED  BY <2>0, KeyOfEvent
    <3>3. ASSUME NEW i \in RuleIds, NEW k \in Keys, fed[i][k] > 0  PROVE k \in GroupsOf(i)
      <4>1. recent[i] \in [Keys -> Nat] /\ GroupKey(e, i) \in GroupsOf(i)
        BY <2>0 DEF GroupsOf
      <4>2. k = GroupKey(e, i) \/ fed[i][k] = recent[i][k]
        BY <4>1
      <4>. QED  BY <3>3, <4>1, <4>2 DEF Counted
    <3>. HIDE DEF fed
    <3>4. \A q \in Tasks : playing'[q] # Free => playing'[q].at \notin Cut
      BY <2>0, <3>1, <3>2, <3>3, GoesOnUncut
    <3>. QED  BY <3>1, <3>3, <3>4 DEF Counted
  <2>2. ASSUME NEW t \in Tasks, Act(t)  PROVE Counted'
    <3>1. playing[t] \in Busy
      BY <2>0, <2>2, FreeOrBusy DEF Act, SoarShape
    <3>2. \A q \in Tasks : playing'[q] # Free => playing[q] # Free /\ playing'[q].at = playing[q].at
      BY <2>0, <2>2, <3>1, FreeOrBusy DEF Act, SoarShape, Busy
    <3>. QED  BY <2>2, <3>2 DEF Act, Counted
  <2>3. ASSUME NEW t \in Tasks, Finish(t)  PROVE Counted'
    <3>1. playing[t] \in Busy
      BY <2>0, <2>3, FreeOrBusy DEF Finish, SoarShape
    <3>2. PICK i \in RuleIds, e \in Events : playing[t].at = i /\ playing[t].event = e
      BY <3>1 DEF Busy
    <3>3. /\ done' = done \cup {[rule |-> i, key |-> LastKey(e), ok |-> playing[t].ok]}
          /\ GoOn(t, e, Due(e, i + 1, recent)) /\ UNCHANGED recent
      BY <2>3, <3>2 DEF Finish
    <3>4. i \notin Cut
      BY <3>1, <3>2, FreeOrBusy DEF Counted
    <3>5. i + 1 \in Nat \ {0}
      BY <3>2, RuleNumbers
    <3>6. \A j \in RuleIds, k \in Keys : recent[j][k] > 0 => k \in GroupsOf(j)
      BY DEF Counted
    <3>7. \A q \in Tasks : playing'[q] # Free => playing'[q].at \notin Cut
      BY <2>0, <3>3, <3>5, <3>6, GoesOnUncut
    <3>. QED  BY <3>3, <3>4, <3>7 DEF Counted
  <2>4. ASSUME NEW i \in RuleIds, NEW k \in Keys, Age(i, k)  PROVE Counted'
    <3>1. recent' = [recent EXCEPT ![i] = [recent[i] EXCEPT ![k] = recent[i][k] - 1]]
      BY <2>4 DEF Age
    <3>2. ASSUME NEW j \in RuleIds, NEW q \in Keys, recent'[j][q] > 0  PROVE recent[j][q] > 0
      <4>1. recent[j] \in [Keys -> Nat] /\ recent[j][q] \in Nat /\ recent[i] \in [Keys -> Nat]
        BY <2>0
      <4>2. recent'[j][q] \in {recent[j][q], recent[j][q] - 1}
        BY <2>0, <3>1, <4>1
      <4>. QED  BY <3>2, <4>1, <4>2
    <3>. QED  BY <2>4, <3>2 DEF Age, Counted
  <2>5. CASE UNCHANGED <<recent, playing, done>>
    BY <2>5 DEF Counted
  <2>. QED
    BY <2>1, <2>2, <2>3, <2>4, <2>5 DEF SoarNext, soarVars, CoolDown
<1>3. Counted => \A d \in done : d.rule \notin Cut
  BY DEF Counted
<1>. QED  BY <1>1, <1>2, <1>3, SoarInvariant, PTL DEF SoarSpec

\* Such are the first rules of a list, as long as they group by address, when the last one
\* groups by user or network and no address is the name of either (the default rules begin
\* with brute force by address and end with breached credentials by user).
LEMMA AddressRulesCut ==
  ASSUME NEW i \in RuleIds, Rules[i].min > 0,
         \A j \in 1 .. i : Rules[j].by = "ip_address",
         Rules[Len(Rules)].by # "ip_address",
         \A e, f \in Events : f.ip_address \notin {e.user_id, e.asn}
  PROVE  i \in Cut
<1>. DEFINE setters == {j \in 1 .. Len(Rules) : Rules[j].by # "ip_address"}
<1>1. Len(Rules) \in Nat /\ i \in 1 .. Len(Rules)
  BY RuleNumbers
<1>2. Len(Rules) \in setters /\ \A k \in setters : Len(Rules) >= k
  BY <1>1
<1>3. Max(setters) \in setters /\ Max(setters) >= Len(Rules)
  BY <1>2 DEF Max
<1>4. Max(setters) = Len(Rules)
  BY <1>1, <1>3
<1>5. Rules[Len(Rules)].by \in {"user_id", "asn"}
  BY <1>1, RuleNumbers DEF Rule
<1>6. ASSUME NEW e \in Events  PROVE LastKey(e) \in {e.user_id, e.asn}
  <2>1. LastKey(e) = e[Rules[Len(Rules)].by]
    BY <1>2, <1>4 DEF LastKey, GroupKey
  <2>. QED  BY <1>5, <2>1, SMTT(30)
<1>7. \A f \in Events : GroupKey(f, i) = f.ip_address
  BY <1>1 DEF GroupKey
<1>. QED  BY <1>6, <1>7 DEF Cut, GroupsOf, LookedFor

\* ... and what it takes for every rule to do what it asks for (telemetry.py:508): that the
\* group each looks at is its own, as in a list whose rules all group by user.
THEOREM OwnKeyedRulesRun ==
  ASSUME OwnKeyed = RuleIds
  PROVE  SoarSpec => []EveryRuleRuns
<1>1. SoarInv => EveryRuleRuns
  <2>. SUFFICES ASSUME SoarInv, Quiet  PROVE \A i \in owed : \E d \in done : d.rule = i
    BY DEF EveryRuleRuns
  <2>1. owed \cap OwnKeyed = owed
    BY DEF SoarInv, OwedPlays
  <2>. QED  BY <2>1, QuietOwesNothing
<1>. QED  BY <1>1, SoarInvariant, PTL DEF SoarSpec

-------------------------------------------------------------------------------
(* The two side by side *)

\* What the parts of MCEvents do together is what each does, with the other at rest.
LEMMA EventParts == MCSpec => Safety /\ SoarInit /\ [][SoarNext]_soarVars
<1> DEFINE all == <<vars, soarVars, part>>
<1>1. MCInit => Init /\ SoarInit
  BY DEF MCInit
<1>2. [MCNext]_all => [Next]_vars
  BY DEF MCNext
<1>3. [MCNext]_all => [SoarNext]_soarVars
  BY DEF MCNext
<1> QED
  BY <1>1, <1>2, <1>3, PTL DEF MCSpec, Safety

\* The buffer of the streaming service, its line and its loops, and the windows of the SOAR
\* engine and its playbooks have their types in every state the two reach.
THEOREM EventsTyped ==
  ASSUME PipeConstants, MaxRecent \in Nat
  PROVE  MCSpec => []TypesOK
<1>1. Safety => []TypeOK
  BY BufferBounded
<1>2. SoarInit /\ [][SoarNext]_soarVars => []SoarTypeOK
  BY SoarTyped
<1>3. TypeOK /\ SoarTypeOK => TypesOK
  BY DEF TypesOK
<1> QED
  BY <1>1, <1>2, <1>3, EventParts, PTL
===============================================================================
