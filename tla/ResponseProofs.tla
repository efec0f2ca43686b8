---------------------------- MODULE ResponseProofs ----------------------------
(***************************************************************************)
(* The containment engine keeps to its caps but for the runs under way,    *)
(* for every set of policies and any number of runs; and the process, all  *)
(* its parts side by side.                                                 *)
(***************************************************************************)
EXTENDS MCServer, SecurityDecisionProofs, ServerProofs, DispatchProofs

(* The containment engine *)

\* A nonempty set of numbers has a least member.
LEMMA LeastMember ==
  ASSUME NEW S \in SUBSET Nat, S # {}
  PROVE  \E m \in S : \A k \in S : m <= k
<1>1. PICK m \in S : \A k \in S : ~ (<<k, m>> \in Less)
  BY LessWellFounded, WFMin
<1>2. ASSUME NEW k \in S  PROVE m <= k
  <2>1. k \in Nat /\ m \in Nat
    OBVIOUS
  <2>2. k < m => <<k, m>> \in Less
    BY <2>1 DEF Less
  <2>. QED  BY <1>1, <2>1, <2>2
<1>. QED  BY <1>2

PolicyIds == DOMAIN ContainmentPolicies

\* The runs that carry out policy i.
Acting(i) == {r \in Runs : run[r].stage = "acting" /\ run[r].policy = i}

Over == [stage |-> "over"]
Acts == [stage : {"acting"}, context : Alerts, policy : PolicyIds, next : Nat]

ContainShape ==
  /\ run \in [Runs -> {Over} \cup Acts]
  /\ past \in [PolicyIds -> Seq(Nat)]
  /\ killer \in [Killers -> {"idle", "sleeping", "returned", "cancelled"}]
  /\ orders \in [Killers -> {"none", "in_progress", "completed", "failed"}]

\* Only the one that holds the lock waits for a process; orders tell how the wait ended.
OrdersTell ==
  \A c \in Killers :
    /\ killer[c] = "sleeping" => lock = c
    /\ orders[c] = "in_progress" => killer[c] \in {"sleeping", "cancelled"}

\* Executions within the cooldown and those under way, together.
CapHeld ==
  \A i \in PolicyIds :
    Cardinality(Recent(i)) + Cardinality(Acting(i))
      < ContainmentPolicies[i].max + Cardinality(Runs)

ContainInv == ContainShape /\ OrdersTell /\ CapHeld

\* Policies are numbered, their caps are numbers, and what is counted is finite.
LEMMA PolicyNumbers ==
  /\ Len(ContainmentPolicies) \in Nat
  /\ PolicyIds = 1 .. Len(ContainmentPolicies)
  /\ \A i \in PolicyIds : ContainmentPolicies[i].max \in Nat
  /\ Cardinality(Runs) \in Nat \ {0}
<1>1. Cardinality(Runs) \in Nat /\ Cardinality(Runs) # 0
  BY ContainmentAssumption, FS_CardinalityType, FS_EmptySet
<1>2. /\ Len(ContainmentPolicies) \in Nat
      /\ PolicyIds = 1 .. Len(ContainmentPolicies)
  BY ContainmentAssumption, LenProperties DEF PolicyIds
<1>3. ASSUME NEW i \in PolicyIds  PROVE ContainmentPolicies[i].max \in Nat
  <2>1. ContainmentPolicies[i] \in [actions : Seq(STRING), max : Nat]
    BY <1>2, ContainmentAssumption, ElementOfSeq
  <2>. QED  BY <2>1
<1>. QED  BY <1>1, <1>2, <1>3

LEMMA YoungFinite ==
  ASSUME NEW ages \in Seq(Nat)
  PROVE  LET young == {n \in DOMAIN ages : ages[n] < Cooldown}
         IN /\ Len(ages) \in Nat /\ DOMAIN ages = 1 .. Len(ages)
            /\ \A n \in 1 .. Len(ages) : ages[n] \in Nat
            /\ IsFiniteSet(young) /\ Cardinality(young) \in Nat
<1>. DEFINE young == {n \in DOMAIN ages : ages[n] < Cooldown}
<1>1. /\ Len(ages) \in Nat /\ DOMAIN ages = 1 .. Len(ages)
      /\ \A n \in 1 .. Len(ages) : ages[n] \in Nat
  BY LenProperties, ElementOfSeq
<1>2. IsFiniteSet(1 .. Len(ages))
  BY <1>1, FS_Interval
<1>3. young \in SUBSET (1 .. Len(ages))
  BY <1>1
<1>. QED  BY <1>1, <1>2, <1>3, FS_Subset, FS_CardinalityType

LEMMA RecentFinite ==
  /\ past \in [PolicyIds -> Seq(Nat)] =>
       \A i \in PolicyIds : IsFiniteSet(Recent(i)) /\ Cardinality(Recent(i)) \in Nat
  /\ past' \in [PolicyIds -> Seq(Nat)] =>
       \A i \in PolicyIds : IsFiniteSet(Recent(i)') /\ Cardinality(Recent(i)') \in Nat
<1>1. ASSUME past \in [PolicyIds -> Seq(Nat)], NEW i \in PolicyIds
      PROVE  IsFiniteSet(Recent(i)) /\ Cardinality(Recent(i)) \in Nat
  <2>1. past[i] \in Seq(Nat)
    BY <1>1
  <2>. QED  BY <2>1, YoungFinite DEF Recent
<1>2. ASSUME past' \in [PolicyIds -> Seq(Nat)], NEW i \in PolicyIds
      PROVE  IsFiniteSet(Recent(i)') /\ Cardinality(Recent(i)') \in Nat
  <2>1. past'[i] \in Seq(Nat)
    BY <1>2
  <2>. QED  BY <2>1, YoungFinite DEF Recent
<1>. QED  BY <1>1, <1>2

LEMMA ActingFinite ==
  ASSUME NEW i
  PROVE  /\ IsFiniteSet(Acting(i)) /\ Cardinality(Acting(i)) \in Nat
         /\ Cardinality(Acting(i)) <= Cardinality(Runs)
<1>1. Acting(i) \in SUBSET Runs
  BY DEF Acting
<1>. QED  BY <1>1, ContainmentAssumption, FS_Subset, FS_CardinalityType

\* The policy a run goes on with is one that is not held back.
LEMMA DueIsCooled ==
  ASSUME NEW alert, NEW i \in Nat \ {0}
  PROVE  \/ DuePolicy(alert, i) = 0
         \/ /\ DuePolicy(alert, i) \in PolicyIds /\ DuePolicy(alert, i) >= i
            /\ CooledDown(DuePolicy(alert, i))
<1>. DEFINE due == {j \in i .. Len(ContainmentPolicies) : j \in alert.matches /\ CooledDown(j)}
<1>1. Len(ContainmentPolicies) \in Nat /\ PolicyIds = 1 .. Len(ContainmentPolicies)
  BY PolicyNumbers
<1>2. CASE due = {}
  BY <1>2 DEF DuePolicy
<1>3. CASE due # {}
  <2>1. due \in SUBSET Nat
    BY <1>1
  <2>2. \E m \in due : \A k \in due : m <= k
    BY <1>3, <2>1, LeastMember
  <2>3. DuePolicy(alert, i) \in due
    BY <1>3, <2>2 DEF DuePolicy
  <2>. QED  BY <1>1, <2>3
<1>. QED  BY <1>2, <1>3

\* A step that changes no run's policy and lets executions grow old at most.
LEMMA CapKept ==
  ASSUME CapHeld, past \in [PolicyIds -> Seq(Nat)], past' \in [PolicyIds -> Seq(Nat)],
         \A i \in PolicyIds : /\ Acting(i)' = Acting(i)
                              /\ Cardinality(Recent(i)') <= Cardinality(Recent(i))
  PROVE  CapHeld'
<1>. SUFFICES ASSUME NEW i \in PolicyIds
              PROVE  Cardinality(Recent(i)') + Cardinality(Acting(i)')
                       < ContainmentPolicies[i].max + Cardinality(Runs)
  BY DEF CapHeld
<1>1. Cardinality(Recent(i)) \in Nat /\ Cardinality(Recent(i)') \in Nat
  BY RecentFinite
<1>2. Cardinality(Acting(i)) \in Nat /\ Acting(i)' = Acting(i)
  BY ActingFinite
<1>. QED  BY <1>1, <1>2, PolicyNumbers DEF CapHeld

\* A run goes on to another policy, or is over: what it acted on may be recorded, and what
\* it goes on to is below its cap.
LEMMA CapMoved ==
  ASSUME ContainInv, past' \in [PolicyIds -> Seq(Nat)], NEW r \in Runs,
         \A q \in Runs \ {r} : run'[q] = run[q],
         \A i \in PolicyIds :
           \/ /\ run'[r].stage = "acting" /\ run'[r].policy = i
              /\ CooledDown(i) /\ Recent(i)' = Recent(i)
           \/ /\ ~ (run'[r].stage = "acting" /\ run'[r].policy = i)
              /\ \/ Recent(i)' = Recent(i)
                 \/ r \in Acting(i) /\ Cardinality(Recent(i)') <= Cardinality(Recent(i)) + 1
  PROVE  CapHeld'
<1>. SUFFICES ASSUME NEW i \in PolicyIds
              PROVE  Cardinality(Recent(i)') + Cardinality(Acting(i)')
                       < ContainmentPolicies[i].max + Cardinality(Runs)
  BY DEF CapHeld
<1>1. past \in [PolicyIds -> Seq(Nat)] /\ CapHeld
  BY DEF ContainInv, ContainShape
<1>2. Cardinality(Recent(i)) \in Nat /\ Cardinality(Recent(i)') \in Nat
  BY <1>1, RecentFinite
<1>3. /\ IsFiniteSet(Acting(i)) /\ Cardinality(Acting(i)) \in Nat
      /\ Cardinality(Acting(i)) <= Cardinality(Runs)
  BY ActingFinite
<1>4. Cardinality(Acting(i)') \in Nat /\ Cardinality(Acting(i)') <= Cardinality(Runs)
  <2>1. Acting(i)' \in SUBSET Runs
    BY DEF Acting
  <2>. QED  BY <2>1, ContainmentAssumption, FS_Subset, FS_CardinalityType
<1>5. Cardinality(Recent(i)) + Cardinality(Acting(i))
        < ContainmentPolicies[i].max + Cardinality(Runs)
  BY <1>1 DEF CapHeld
<1>6. ContainmentPolicies[i].max \in Nat /\ Cardinality(Runs) \in Nat
  BY PolicyNumbers
<1>7. CASE /\ run'[r].stage = "acting" /\ run'[r].policy = i
           /\ CooledDown(i) /\ Recent(i)' = Recent(i)
  BY <1>2, <1>4, <1>6, <1>7 DEF CooledDown
<1>8. CASE ~ (run'[r].stage = "acting" /\ run'[r].policy = i)
  <2>1. Acting(i)' = Acting(i) \ {r}
    BY <1>8 DEF Acting
  <2>2. CASE r \in Acting(i)
    <3>1. Cardinality(Acting(i)') = Cardinality(Acting(i)) - 1
      BY <1>3, <2>1, <2>2, FS_RemoveElement
    <3>2. Cardinality(Recent(i)') <= Cardinality(Recent(i)) + 1
      BY <1>2, <1>8
    <3>. QED  BY <1>2, <1>3, <1>4, <1>5, <1>6, <3>1, <3>2, SMTT(30)
  <2>3. CASE r \notin Acting(i)
    <3>1. Acting(i)' = Acting(i) /\ Recent(i)' = Recent(i)
      BY <1>8, <2>1, <2>3
    <3>. QED  BY <1>5, <3>1
  <2>. QED  BY <2>2, <2>3
<1>. QED  BY <1>7, <1>8

LEMMA EvaluateStep ==
  ASSUME ContainInv, NEW r \in Runs, NEW alert \in Alerts, Evaluate(r, alert)
  PROVE  ContainInv'
<1>. DEFINE j == DuePolicy(alert, 1)
<1>1. \/ j = 0
      \/ j \in PolicyIds /\ CooledDown(j)
  BY DueIsCooled
<1>2. /\ run[r].stage = "over" /\ run' = [run EXCEPT ![r] = GoingOn(alert, j)]
      /\ UNCHANGED <<store, killer, lock, orders, past>>
  BY DEF Evaluate
<1>. HIDE DEF j
<1>3. GoingOn(alert, j) \in {Over} \cup Acts
  BY <1>1 DEF GoingOn, Over, Acts
<1>4. /\ run' \in [Runs -> {Over} \cup Acts] /\ run'[r] = GoingOn(alert, j)
      /\ \A q \in Runs \ {r} : run'[q] = run[q]
  BY <1>2, <1>3 DEF ContainInv, ContainShape
<1>5. ContainShape' /\ OrdersTell'
  BY <1>2, <1>4 DEF ContainInv, ContainShape, OrdersTell, Over, Acts
<1>6. \A i \in PolicyIds : Recent(i)' = Recent(i)
  BY <1>2 DEF Recent
<1>7. CASE j = 0
  <2>1. run'[r].stage # "acting"
    BY <1>4, <1>7 DEF GoingOn
  <2>. QED  BY <1>4, <1>5, <1>6, <2>1, CapMoved DEF ContainInv, ContainShape
<1>8. CASE j \in PolicyIds /\ CooledDown(j)
  <2>1. j # 0
    BY <1>8, PolicyNumbers
  <2>2. run'[r].stage = "acting" /\ run'[r].policy = j
    BY <1>4, <2>1 DEF GoingOn
  <2>. QED  BY <1>4, <1>5, <1>6, <1>8, <2>2, CapMoved DEF ContainInv, ContainShape
<1>. QED  BY <1>1, <1>7, <1>8

LEMMA RecordStep ==
  ASSUME ContainInv, NEW r \in Runs, RecordRun(r)
  PROVE  ContainInv'
<1>1. run[r] \in Acts
  <2>1. run[r] \in {Over} \cup Acts /\ run[r].stage = "acting"
    BY DEF ContainInv, ContainShape, RecordRun
  <2>. QED  BY <2>1 DEF Over
<1>2. PICK p \in PolicyIds, alert \in Alerts :
        run[r].stage = "acting" /\ run[r].policy = p /\ run[r].context = alert
  BY <1>1 DEF Acts
<1>. DEFINE j == DuePolicy(alert, p + 1)
<1>3. p \in Nat \ {0} /\ p + 1 \in Nat \ {0}
  BY PolicyNumbers
<1>4. \/ j = 0
      \/ j \in PolicyIds /\ j >= p + 1 /\ CooledDown(j)
  BY <1>3, DueIsCooled
<1>5. /\ past' = [past EXCEPT ![p] = Append(@, 0)]
      /\ run' = [run EXCEPT ![r] = GoingOn(alert, j)]
      /\ UNCHANGED <<store, killer, lock, orders>>
  BY <1>2 DEF RecordRun
<1>. HIDE DEF j
<1>6. GoingOn(alert, j) \in {Over} \cup Acts
  BY <1>4 DEF GoingOn, Over, Acts
<1>7. /\ run' \in [Runs -> {Over} \cup Acts] /\ run'[r] = GoingOn(alert, j)
      /\ \A q \in Runs \ {r} : run'[q] = run[q]
  BY <1>5, <1>6 DEF ContainInv, ContainShape
<1>8. past[p] \in Seq(Nat) /\ past \in [PolicyIds -> Seq(Nat)]
  BY DEF ContainInv, ContainShape
<1>9. Append(past[p], 0) \in Seq(Nat)
  BY <1>8, AppendProperties
<1>10. /\ past' \in [PolicyIds -> Seq(Nat)] /\ past'[p] = Append(past[p], 0)
       /\ \A i \in PolicyIds \ {p} : past'[i] = past[i]
  BY <1>5, <1>8, <1>9
<1>11. ContainShape' /\ OrdersTell'
  BY <1>5, <1>7, <1>10 DEF ContainInv, ContainShape, OrdersTell
<1>12. \A i \in PolicyIds \ {p} : Recent(i)' = Recent(i)
  BY <1>10 DEF Recent
<1>13. Cardinality(Recent(p)') <= Cardinality(Recent(p)) + 1
  <2>. DEFINE n == Len(past[p]) + 1
  <2>1. /\ Len(past[p]) \in Nat /\ DOMAIN past[p] = 1 .. Len(past[p])
        /\ DOMAIN past'[p] = 1 .. n
        /\ \A k \in 1 .. Len(past[p]) : past'[p][k] = past[p][k]
    BY <1>8, <1>9, <1>10, AppendProperties, LenProperties
  <2>2. Recent(p)' \subseteq Recent(p) \cup {n}
    BY <2>1 DEF Recent
  <2>3. IsFiniteSet(Recent(p)) /\ Cardinality(Recent(p)) \in Nat
    BY <1>8, RecentFinite
  <2>4. n \notin Recent(p)
    BY <2>1 DEF Recent
  <2>5. /\ IsFiniteSet(Recent(p) \cup {n})
        /\ Cardinality(Recent(p) \cup {n}) = Cardinality(Recent(p)) + 1
    BY <2>3, <2>4, FS_AddElement
  <2>. QED  BY <2>2, <2>5, FS_Subset
<1>14. r \in Acting(p)
  BY <1>2 DEF Acting
<1>15. CASE j = 0
  <2>1. run'[r].stage # "acting"
    BY <1>7, <1>15 DEF GoingOn
  <2>2. CapHeld'
    BY <1>7, <1>10, <1>12, <1>13, <1>14, <2>1, CapMoved
  <2>. QED  BY <1>11, <2>2 DEF ContainInv
<1>16. CASE j \in PolicyIds /\ j >= p + 1 /\ CooledDown(j)
  <2>1. j # 0 /\ j # p
    BY <1>3, <1>16, PolicyNumbers
  <2>2. run'[r].stage = "acting" /\ run'[r].policy = j
    BY <1>7, <2>1 DEF GoingOn
  <2>3. CapHeld'
    BY <1>7, <1>10, <1>12, <1>13, <1>14, <1>16, <2>1, <2>2, CapMoved
  <2>. QED  BY <1>11, <2>3 DEF ContainInv
<1>. QED  BY <1>4, <1>15, <1>16

\* What is left of the executions after a tick were in the cooldown before it.
LEMMA TickAges ==
  ASSUME NEW ages \in Seq(Nat)
  PROVE  /\ Aged(ages) \in Seq(Nat)
         /\ Cardinality({n \in DOMAIN Aged(ages) : Aged(ages)[n] < Cooldown})
              <= Cardinality({n \in DOMAIN ages : ages[n] < Cooldown})
<1>. DEFINE gone == {n \in DOMAIN ages : ages[n] + 1 >= Cooldown}
            over == Cardinality(gone)
            before == {n \in DOMAIN ages : ages[n] < Cooldown}
            after == {n \in DOMAIN Aged(ages) : Aged(ages)[n] < Cooldown}
<1>1. /\ Len(ages) \in Nat /\ DOMAIN ages = 1 .. Len(ages)
      /\ \A n \in 1 .. Len(ages) : ages[n] \in Nat
      /\ IsFiniteSet(before)
  BY YoungFinite
<1>2. IsFiniteSet(1 .. Len(ages)) /\ Cardinality(1 .. Len(ages)) = Len(ages)
  BY <1>1, FS_Interval
<1>3. gone \in SUBSET (1 .. Len(ages))
  BY <1>1
<1>4. over \in Nat /\ over <= Len(ages)
  BY <1>2, <1>3, FS_Subset, FS_CardinalityType
<1>5. /\ Aged(ages) = [n \in 1 .. Len(ages) - over |-> ages[n + over] + 1]
      /\ DOMAIN Aged(ages) = 1 .. Len(ages) - over
  BY DEF Aged
<1>. HIDE DEF over, gone
<1>6. \A n \in 1 .. Len(ages) - over :
        n + over \in 1 .. Len(ages) /\ ages[n + over] \in Nat /\ Aged(ages)[n] = ages[n + over] + 1
  BY <1>1, <1>4, <1>5
<1>7. Aged(ages) \in Seq(Nat)
  <2>1. Len(ages) - over \in Nat
    BY <1>1, <1>4
  <2>2. Aged(ages) \in [1 .. Len(ages) - over -> Nat]
    BY <1>5, <1>6
  <2>. QED  BY <2>1, <2>2, SeqDef
<1>8. Cardinality(after) <= Cardinality(before)
  <2>. DEFINE moved == [n \in after |-> n + over]
  <2>1. \A n \in after : n \in 1 .. Len(ages) - over /\ n + over \in before
    <3>. SUFFICES ASSUME NEW n \in after
                  PROVE  n \in 1 .. Len(ages) - over /\ n + over \in before
      OBVIOUS
    <3>1. n \in 1 .. Len(ages) - over /\ Aged(ages)[n] < Cooldown
      BY <1>5
    <3>2. n + over \in DOMAIN ages /\ ages[n + over] < Cooldown
      BY <1>1, <1>6, <3>1, ContainmentAssumption
    <3>. QED  BY <3>1, <3>2
  <2>2. moved \in Injection(after, before)
    <3>1. moved \in [after -> before]
      BY <2>1
    <3>2. \A a, b \in after : moved[a] = moved[b] => a = b
      BY <1>4, <2>1
    <3>. QED  BY <3>1, <3>2 DEF Injection, IsInjective
  <2>. HIDE DEF moved, after, before
  <2>. QED  BY <1>1, <2>2, FS_Injection
<1>. QED  BY <1>7, <1>8

LEMMA TickStep ==
  ASSUME ContainInv, ContainTick
  PROVE  ContainInv'
<1>1. /\ past \in [PolicyIds -> Seq(Nat)] /\ past' = [i \in PolicyIds |-> Aged(past[i])]
      /\ UNCHANGED <<store, killer, lock, orders, run>>
  BY DEF ContainInv, ContainShape, ContainTick
<1>2. \A i \in PolicyIds : past[i] \in Seq(Nat) /\ past'[i] = Aged(past[i])
  BY <1>1
<1>3. past' \in [PolicyIds -> Seq(Nat)]
  BY <1>1, <1>2, TickAges
<1>4. ContainShape' /\ OrdersTell'
  BY <1>1, <1>3 DEF ContainInv, ContainShape, OrdersTell
<1>5. ASSUME NEW i \in PolicyIds
      PROVE  Acting(i)' = Acting(i) /\ Cardinality(Recent(i)') <= Cardinality(Recent(i))
  BY <1>1, <1>2, TickAges DEF Acting, Recent
<1>6. CapHeld'
  BY <1>1, <1>3, <1>5, CapKept DEF ContainInv
<1>. QED  BY <1>4, <1>6 DEF ContainInv

\* A step that touches neither the runs nor what was executed.
LEMMA CapUntouched ==
  ASSUME ContainInv, UNCHANGED <<run, past>>
  PROVE  CapHeld'
BY DEF ContainInv, CapHeld, Recent, Acting

\* An order begins, or fails at once.
LEMMA TermStep ==
  ASSUME ContainShape, OrdersTell, NEW c \in Killers, SendTerm(c)
  PROVE  /\ killer' \in [Killers -> {"idle", "sleeping", "returned", "cancelled"}]
         /\ orders' \in [Killers -> {"none", "in_progress", "completed", "failed"}]
         /\ OrdersTell'
<1>. USE DEF ContainShape, OrdersTell
<1>1. lock = Unlocked /\ \A d \in Killers : killer[d] # "sleeping"
  BY ContainmentAssumption DEF SendTerm, Killers
<1>2. CASE /\ lock' = c
           /\ killer' = [killer EXCEPT ![c] = "sleeping"]
           /\ orders' = [orders EXCEPT ![c] = "in_progress"]
  BY <1>1, <1>2
<1>3. CASE /\ killer' = [killer EXCEPT ![c] = "returned"]
           /\ orders' = [orders EXCEPT ![c] = "failed"]
  BY <1>1, <1>3
<1>. QED  BY <1>2, <1>3 DEF SendTerm

LEMMA ExecuteStep ==
  ASSUME ContainInv, NEW r \in Runs, Execute(r)
  PROVE  ContainInv'
<1>1. run[r] \in Acts
  <2>1. run[r] \in {Over} \cup Acts /\ run[r].stage = "acting"
    BY DEF ContainInv, ContainShape, Execute
  <2>. QED  BY <2>1 DEF Over
<1>2. /\ run' = [run EXCEPT ![r].next = @ + 1]
      /\ UNCHANGED past
      /\ UNCHANGED <<killer, lock, orders>> \/ SendTerm(r)
  BY DEF Execute
<1>3. run'[r] = [run[r] EXCEPT !.next = @ + 1]
  BY <1>2 DEF ContainInv, ContainShape
<1>4. run'[r] \in Acts /\ run'[r].policy = run[r].policy /\ run'[r].stage = run[r].stage
  BY <1>1, <1>3 DEF Acts
<1>5. /\ run' \in [Runs -> {Over} \cup Acts]
      /\ \A q \in Runs : q # r => run'[q] = run[q]
  BY <1>2, <1>3, <1>4 DEF ContainInv, ContainShape
<1>6. ContainShape' /\ OrdersTell'
  <2>1. CASE UNCHANGED <<killer, lock, orders>>
    BY <1>2, <1>5, <2>1 DEF ContainInv, ContainShape, OrdersTell
  <2>2. CASE SendTerm(r)
    <3>1. r \in Killers
      BY DEF Killers
    <3>. QED  BY <1>2, <1>5, <2>2, <3>1, TermStep DEF ContainInv, ContainShape
  <2>. QED  BY <1>2, <2>1, <2>2
<1>7. ASSUME NEW i \in PolicyIds
      PROVE  Acting(i)' = Acting(i) /\ Recent(i)' = Recent(i)
  BY <1>2, <1>4, <1>5 DEF Acting, Recent
<1>8. CapHeld'
  BY <1>7 DEF ContainInv, CapHeld
<1>. QED  BY <1>6, <1>8 DEF ContainInv

\* The steps of the controller.
LEMMA OrderStep ==
  ASSUME ContainInv, NEW c \in Killers, CallTerminate(c) \/ SendKill(c)
  PROVE  ContainInv'
<1>1. UNCHANGED <<run, past>>
  BY DEF CallTerminate, SendKill
<1>2. CapHeld'
  BY <1>1, CapUntouched
<1>3. ContainShape' /\ OrdersTell'
  <2>1. CASE CallTerminate(c)
    BY <1>1, <2>1, TermStep DEF CallTerminate, ContainInv, ContainShape
  <2>2. CASE SendKill(c)
    BY <1>1, <2>2 DEF SendKill, ContainInv, ContainShape, OrdersTell
  <2>. QED  BY <2>1, <2>2
<1>. QED  BY <1>2, <1>3 DEF ContainInv

LEMMA AbandonStep ==
  ASSUME ContainInv, NEW c \in Killers, Abandon(c)
  PROVE  ContainInv'
<1>1. /\ run' = IF c \in Runs THEN [run EXCEPT ![c] = Over] ELSE run
      /\ lock' = IF lock = c THEN Unlocked ELSE lock
      /\ killer' = [killer EXCEPT ![c] = IF @ = "sleeping" THEN "cancelled" ELSE @]
      /\ UNCHANGED <<store, orders, past>>
  BY DEF Abandon, Over
<1>2. ContainShape'
  BY <1>1 DEF ContainInv, ContainShape
<1>3. OrdersTell'
  BY <1>1 DEF ContainInv, ContainShape, OrdersTell
<1>4. \A i \in PolicyIds : Recent(i)' = Recent(i)
  BY <1>1 DEF Recent
<1>5. CASE c \in Runs
  <2>1. /\ run'[c].stage = "over"
        /\ \A q \in Runs \ {c} : run'[q] = run[q]
    BY <1>1, <1>5 DEF ContainInv, ContainShape, Over
  <2>. QED  BY <1>2, <1>3, <1>4, <1>5, <2>1, CapMoved DEF ContainInv, ContainShape
<1>6. CASE c \notin Runs
  BY <1>1, <1>2, <1>3, <1>6, CapUntouched DEF ContainInv
<1>. QED  BY <1>5, <1>6

LEMMA ContainInvariant == ContainSpec => []ContainInv
<1>1. ContainInit => ContainInv
  <2>. SUFFICES ASSUME ContainInit  PROVE ContainInv
    OBVIOUS
  <2>1. ContainShape /\ OrdersTell
    BY DEF ContainInit, ContainShape, OrdersTell, Over, PolicyIds
  <2>2. ASSUME NEW i \in PolicyIds
        PROVE  Cardinality(Recent(i)) + Cardinality(Acting(i))
                 < ContainmentPolicies[i].max + Cardinality(Runs)
    <3>1. Recent(i) = {} /\ Acting(i) = {}
      BY DEF ContainInit, Recent, Acting, PolicyIds
    <3>. QED  BY <3>1, FS_EmptySet, PolicyNumbers
  <2>. QED  BY <2>1, <2>2 DEF ContainInv, CapHeld
<1>2. ContainInv /\ [ContainNext]_containVars => ContainInv'
  <2>. SUFFICES ASSUME ContainInv, [ContainNext]_containVars  PROVE ContainInv'
    OBVIOUS
  <2>1. ASSUME NEW t \in Targets, RegisterSession(t)  PROVE ContainInv'
    BY <2>1, CapUntouched DEF RegisterSession, ContainInv, ContainShape, OrdersTell
  <2>2. CASE UNCHANGED containVars
    BY <2>2, CapUntouched DEF containVars, ContainInv, ContainShape, OrdersTell
  <2>. QED
    BY <2>1, <2>2, OrderStep, AbandonStep, ExecuteStep, RecordStep, EvaluateStep, TickStep
       DEF ContainNext, Killers
<1>. QED  BY <1>1, <1>2, PTL DEF ContainSpec

\* However the runs of the engine overlap, whoever is cancelled in its sleep and whatever
\* the kernel answers, for any policies: a cap is overshot by less than the number of runs,
\* and an order in progress is its caller's that holds the lock, or abandoned.
THEOREM ContainmentCapped == ContainSpec => []ContainmentBounded
<1>1. ContainInv => ContainmentBounded
  <2>. SUFFICES ASSUME ContainInv  PROVE ContainmentBounded
    OBVIOUS
  <2>1. ASSUME NEW i \in PolicyIds
        PROVE  Cardinality(Recent(i)) < ContainmentPolicies[i].max + Cardinality(Runs)
    BY ActingFinite, RecentFinite, PolicyNumbers, SMTT(30) DEF ContainInv, ContainShape, CapHeld
  <2>. QED  BY <2>1 DEF ContainInv, OrdersTell, ContainmentBounded, PolicyIds
<1>. QED  BY <1>1, ContainInvariant, PTL

\* A sequence whose elements are in S is a sequence over S.
LEMMA Elementwise ==
  ASSUME NEW T, NEW S, NEW s \in Seq(T), \A n \in 1 .. Len(s) : s[n] \in S
  PROVE  s \in Seq(S)
OBVIOUS

\* Executions are kept in the order they were recorded in, and while they count.
Ordered(ages) ==
  /\ \A n \in DOMAIN ages : ages[n] < Cooldown
  /\ \A m, n \in DOMAIN ages : m <= n => ages[n] <= ages[m]

\* The executions that have become too old are the first ones, so dropping as many from the
\* front drops these (the list _check_cooldown filters).
LEMMA AgedOrdered ==
  ASSUME NEW ages \in Seq(Nat), Ordered(ages)
  PROVE  Ordered(Aged(ages))
<1>. DEFINE gone == {n \in DOMAIN ages : ages[n] + 1 >= Cooldown}
            rest == (1 .. Len(ages)) \ gone
            over == Cardinality(gone)
<1>1. /\ Len(ages) \in Nat /\ DOMAIN ages = 1 .. Len(ages)
      /\ \A n \in 1 .. Len(ages) : ages[n] \in Nat
  BY YoungFinite
<1>2. Cooldown \in Nat
  BY ContainmentAssumption
<1>3. \E m \in 1 .. Len(ages) + 1 : gone = 1 .. m - 1
  <2>1. CASE rest = {}
    <3>1. gone = 1 .. Len(ages)
      BY <1>1, <2>1
    <3>2. Len(ages) + 1 \in 1 .. Len(ages) + 1 /\ (Len(ages) + 1) - 1 = Len(ages)
      BY <1>1
    <3>. QED  BY <3>1, <3>2
  <2>2. CASE rest # {}
    <3>0. rest \in SUBSET Nat
      BY <1>1
    <3>1. PICK m \in rest : \A k \in rest : m <= k
      <4>. HIDE DEF rest
      <4>. QED  BY <3>0, <2>2, LeastMember
    <3>2. m \in 1 .. Len(ages) /\ ages[m] + 1 < Cooldown
      BY <1>1, <1>2, <3>1
    <3>3. ASSUME NEW n \in 1 .. Len(ages)  PROVE n \in gone <=> n < m
      <4>1. n < m => n \notin rest
        BY <3>1, <3>2
      <4>2. n >= m => ages[n] <= ages[m]
        BY <1>1, <3>2 DEF Ordered
      <4>. QED  BY <1>1, <1>2, <3>2, <4>1, <4>2
    <3>4. ASSUME NEW n  PROVE n \in gone <=> n \in 1 .. m - 1
      <4>1. n \in gone => n \in 1 .. Len(ages)
        BY <1>1
      <4>2. n \in 1 .. m - 1 => n \in 1 .. Len(ages)
        BY <1>1, <3>2
      <4>3. n \in 1 .. Len(ages) => (n < m <=> n \in 1 .. m - 1)
        BY <1>1, <3>2
      <4>. HIDE DEF gone, rest
      <4>. QED  BY <3>3, <4>1, <4>2, <4>3
    <3>5. gone = 1 .. m - 1
      <4>. DEFINE front == 1 .. m - 1
      <4>1. \A n : n \in gone <=> n \in front
        BY <3>4
      <4>. HIDE DEF gone, rest, front
      <4>2. gone = front
        BY <4>1
      <4>. QED  BY <4>2 DEF front
    <3>6. m \in 1 .. Len(ages) + 1
      BY <1>1, <3>2
    <3>. HIDE DEF gone, rest
    <3>. QED  BY <3>5, <3>6
  <2>. QED  BY <2>1, <2>2
<1>4. PICK m \in 1 .. Len(ages) + 1 : gone = 1 .. m - 1
  BY <1>3
<1>5. over = m - 1
  <2>1. 1 \in Int /\ m - 1 \in Int /\ m - 1 >= 0
    BY <1>1, <1>4
  <2>2. Cardinality(1 .. m - 1) = m - 1
    BY <2>1, FS_Interval
  <2>. QED  BY <1>4, <2>2
<1>6. Aged(ages) = [n \in 1 .. Len(ages) - over |-> ages[n + over] + 1]
  BY DEF Aged
<1>7. ASSUME NEW n \in 1 .. Len(ages)  PROVE n \in gone <=> n \in 1 .. m - 1
  BY <1>4
<1>. HIDE DEF over, rest
<1>8. ASSUME NEW n \in 1 .. Len(ages) - over
      PROVE  /\ n + over \in 1 .. Len(ages) /\ Aged(ages)[n] = ages[n + over] + 1
             /\ ages[n + over] + 1 < Cooldown
  <2>1. n + over \in 1 .. Len(ages) /\ n + over \notin 1 .. m - 1
    BY <1>1, <1>4, <1>5
  <2>2. n + over \notin gone
    BY <1>7, <2>1
  <2>. QED  BY <1>1, <1>2, <1>6, <2>1, <2>2
<1>9. ASSUME NEW k \in 1 .. Len(ages) - over, NEW n \in 1 .. Len(ages) - over, k <= n
      PROVE  Aged(ages)[n] <= Aged(ages)[k]
  <2>1. k + over <= n + over /\ k + over \in DOMAIN ages /\ n + over \in DOMAIN ages
    BY <1>1, <1>4, <1>5, <1>8, <1>9
  <2>2. ages[n + over] <= ages[k + over]
    BY <2>1 DEF Ordered
  <2>. QED  BY <1>1, <1>8, <2>1, <2>2
<1>10. DOMAIN Aged(ages) = 1 .. Len(ages) - over
  BY <1>6
<1>. QED  BY <1>8, <1>9, <1>10 DEF Ordered

\* A new execution is the youngest.
LEMMA RecordedOrdered ==
  ASSUME NEW ages \in Seq(Nat), Ordered(ages), Cooldown > 0
  PROVE  Ordered(Append(ages, 0))
<1>1. /\ Len(ages) \in Nat /\ DOMAIN ages = 1 .. Len(ages)
      /\ \A n \in 1 .. Len(ages) : ages[n] \in Nat
  BY YoungFinite
<1>2. DOMAIN Append(ages, 0) = 1 .. Len(ages) + 1
  BY <1>1
<1>3. \A n \in 1 .. Len(ages) : Append(ages, 0)[n] = ages[n]
  BY <1>1
<1>4. Append(ages, 0)[Len(ages) + 1] = 0
  BY <1>1
<1>5. \A n \in 1 .. Len(ages) + 1 : n \in 1 .. Len(ages) \/ n = Len(ages) + 1
  BY <1>1
<1>. HIDE DEF Ordered
<1>6. ASSUME NEW n \in 1 .. Len(ages) + 1  PROVE Append(ages, 0)[n] < Cooldown
  BY <1>1, <1>3, <1>4, <1>5 DEF Ordered
<1>7. ASSUME NEW k \in 1 .. Len(ages) + 1, NEW n \in 1 .. Len(ages) + 1, k <= n
      PROVE  Append(ages, 0)[n] <= Append(ages, 0)[k]
  <2>1. CASE n = Len(ages) + 1
    <3>1. Append(ages, 0)[k] \in Nat
      BY <1>1, <1>3, <1>4, <1>5
    <3>. QED  BY <1>4, <2>1, <3>1
  <2>2. CASE n \in 1 .. Len(ages)
    <3>1. k \in 1 .. Len(ages)
      BY <1>1, <1>7, <2>2
    <3>2. ages[n] <= ages[k]
      BY <1>1, <1>7, <2>2, <3>1 DEF Ordered
    <3>. QED  BY <1>3, <2>2, <3>1, <3>2
  <2>. QED  BY <1>5, <2>1, <2>2
<1>. QED  BY <1>2, <1>6, <1>7 DEF Ordered

\* The executions a policy keeps are those within its cooldown, and the lock is held by a
\* caller of terminate_process, by a run, or by nobody.
THEOREM ContainTyped == ASSUME Cooldown > 0 PROVE ContainSpec => []ContainTypeOK
<1>. DEFINE Sequenced == \A i \in PolicyIds : Ordered(past[i])
            Held == /\ store \in [Targets -> {"active", "isolated", "gone"}]
                    /\ lock \in Killers \cup {Unlocked}
<1>1. ContainInit => Sequenced /\ Held
  BY DEF ContainInit, PolicyIds, Ordered
<1>2. ContainInv /\ Sequenced /\ [ContainNext]_containVars => Sequenced'
  <2>. SUFFICES ASSUME ContainInv, Sequenced, [ContainNext]_containVars  PROVE Sequenced'
    OBVIOUS
  <2>0. past \in [PolicyIds -> Seq(Nat)]
    BY DEF ContainInv, ContainShape
  <2>1. CASE ContainTick
    <3>1. past' = [i \in PolicyIds |-> Aged(past[i])]
      BY <2>0, <2>1 DEF ContainTick
    <3>. QED  BY <2>0, <3>1, AgedOrdered
  <2>2. ASSUME NEW r \in Runs, RecordRun(r)  PROVE Sequenced'
    <3>1. PICK j : past' = [past EXCEPT ![j] = Append(@, 0)]
      BY <2>2 DEF RecordRun
    <3>2. ASSUME NEW i \in PolicyIds  PROVE Ordered(past'[i])
      <4>1. past'[i] \in {past[i], Append(past[i], 0)}
        BY <2>0, <3>1
      <4>. QED  BY <2>0, <4>1, RecordedOrdered
    <3>. QED  BY <3>2
  <2>3. CASE UNCHANGED past
    BY <2>3
  <2>. QED
    BY <2>1, <2>2, <2>3
       DEF ContainNext, containVars, RegisterSession, CallTerminate, SendKill, Abandon,
           Execute, Evaluate
<1>3. ContainInv /\ Held /\ [ContainNext]_containVars => Held'
  <2>. SUFFICES ASSUME ContainInv, Held, [ContainNext]_containVars  PROVE Held'
    OBVIOUS
  <2>1. ASSUME NEW t \in Targets, RegisterSession(t)  PROVE Held'
    BY <2>1 DEF RegisterSession
  <2>2. ASSUME NEW c \in Killers, CallTerminate(c) \/ SendKill(c) \/ Abandon(c)
        PROVE  Held'
    BY <2>2 DEF CallTerminate, SendTerm, SendKill, Abandon
  <2>3. ASSUME NEW r \in Runs, Execute(r)  PROVE Held'
    <3>1. /\ UNCHANGED store \/ \E action, t : store' = Effect(action, t)
          /\ UNCHANGED lock \/ lock' = r
      BY <2>3 DEF Execute, SendTerm
    <3>2. store' \in [Targets -> {"active", "isolated", "gone"}]
      BY <3>1 DEF Effect
    <3>. QED  BY <3>1, <3>2 DEF Killers
  <2>4. CASE UNCHANGED <<store, lock>>
    BY <2>4
  <2>. QED
    BY <2>1, <2>2, <2>3, <2>4
       DEF ContainNext, containVars, Killers, RecordRun, Evaluate, ContainTick
<1>4. ContainInv /\ Sequenced /\ Held => ContainTypeOK
  <2>. SUFFICES ASSUME ContainInv, Sequenced, Held  PROVE ContainTypeOK
    OBVIOUS
  <2>1. ASSUME NEW i \in PolicyIds  PROVE past[i] \in Seq(0 .. Cooldown - 1)
    <3>1. past[i] \in Seq(Nat)
      BY DEF ContainInv, ContainShape
    <3>2. /\ Len(past[i]) \in Nat /\ DOMAIN past[i] = 1 .. Len(past[i])
          /\ \A n \in 1 .. Len(past[i]) : past[i][n] \in Nat
      BY <3>1, YoungFinite
    <3>3. Ordered(past[i])
      OBVIOUS
    <3>4. Cooldown \in Nat
      BY ContainmentAssumption
    <3>5. ASSUME NEW n \in 1 .. Len(past[i])  PROVE past[i][n] \in 0 .. Cooldown - 1
      <4>1. past[i][n] \in Nat /\ past[i][n] < Cooldown
        BY <3>2, <3>3 DEF Ordered
      <4>. QED  BY <3>4, <4>1
    <3>6. \A n \in 1 .. Len(past[i]) : past[i][n] \in 0 .. Cooldown - 1
      BY <3>5
    <3>. QED  BY <3>1, <3>6, Elementwise
  <2>2. \A r \in Runs : run[r].stage \in {"acting", "over"}
    BY DEF ContainInv, ContainShape, Over, Acts
  <2>. QED  BY <2>1, <2>2 DEF ContainInv, ContainShape, ContainTypeOK, PolicyIds
<1>. HIDE DEF Sequenced, Held
<1>. QED  BY <1>1, <1>2, <1>3, <1>4, ContainInvariant, PTL DEF ContainSpec
-------------------------------------------------------------------------------
(* The process: all its parts side by side *)

serverVars == <<cvars, bucketVars, sessionVars, edgeVars, gateVars, trustVars, containVars,
                dispatchVars, intelVars, botVars, collectorVars, part>>

\* What the consoles do to the engine is what the engine does by itself.
LEMMA ConsolesUseEngine == ConsoleSpec => Spec
<1>1. ConsoleInit => Init
  BY DEF ConsoleInit
<1>2. IInv /\ [ConsoleNext]_cvars => [Next]_vars
  <2> SUFFICES ASSUME IInv, [ConsoleNext]_cvars  PROVE [Next]_vars
    OBVIOUS
  <2>1. ASSUME NEW c \in Consoles,
               \/ \E i \in DOMAIN incidents : OpenDialog(c, i)
               \/ Poll(c) \/ CloseDialog(c) \/ Confirm(c) \/ Answer(c) \/ Abort(c)
        PROVE  UNCHANGED vars
    BY <2>1 DEF OpenDialog, Poll, CloseDialog, Confirm, Answer, Abort
  <2>2. ASSUME NEW u, DenyAccess(u)  PROVE u \in Users
    <3>1. PICK i \in DOMAIN incidents : incidents[i].user = u
      BY <2>2 DEF DenyAccess, ActiveOf, IncidentsOf
    <3>2. incidents \in Seq(Incident)
      BY DEF IInv, TypeOK, Incident
    <3>3. incidents[i] \in Incident
      BY <3>1, <3>2, Lengths, ElementOfSeq DEF IInv
    <3> QED
      BY <3>1, <3>3 DEF Incident
  <2>3. ASSUME NEW c \in Consoles, HandleDeny(c)  PROVE [Next]_vars
    <3>1. UNCHANGED vars \/ \E u : DenyAccess(u)
      BY <2>3 DEF HandleDeny
    <3> QED
      BY <2>2, <3>1 DEF Next
  <2>4. ASSUME NEW u \in Users, HandleLate(u)  PROVE [Next]_vars
    BY <2>4 DEF HandleLate, Next
  <2>5. CASE \E u \in Users : \/ \E score \in Scores : AssessLogin(u, score)
                              \/ RestoreAccess(u)
    BY <2>5 DEF Next
  <2>6. CASE UNCHANGED cvars
    BY <2>6 DEF cvars
  <2> QED
    BY <2>1, <2>3, <2>4, <2>5, <2>6 DEF ConsoleNext
<1>3. IInv /\ [Next]_vars => IInv'
  BY Inductive
<1>4. Init => IInv
  BY InitInv
<1> QED
  BY <1>1, <1>2, <1>3, <1>4, PTL DEF ConsoleSpec, Spec

\* The parts share no variable: each of them follows its own specification.
LEMMA ServerParts ==
  MCSpec => /\ ConsoleSpec /\ BucketSpec /\ SessionSpec /\ EdgeSpec
            /\ GateSpec /\ TrustSpec /\ ContainSpec /\ DispatchSpec
            /\ IntelSpec /\ BotSpec /\ CollectorSpec
<1>1. MCInit => /\ ConsoleInit /\ BucketInit /\ SessionInit /\ EdgeInit /\ GateInit /\ TrustInit
                /\ ContainInit /\ DispatchInit /\ IntelInit /\ BotInit /\ CollectorInit
  BY DEF MCInit
<1>2. [MCNext]_serverVars => [ConsoleNext]_cvars
  BY DEF MCNext, serverVars
<1>3. [MCNext]_serverVars => [BucketNext]_bucketVars
  BY DEF MCNext, serverVars
<1>4. [MCNext]_serverVars => [SessionNext]_sessionVars
  BY DEF MCNext, serverVars
<1>5. [MCNext]_serverVars => [EdgeNext]_edgeVars
  BY DEF MCNext, serverVars
<1>6. [MCNext]_serverVars => [GateNext]_gateVars
  BY DEF MCNext, serverVars
<1>7. [MCNext]_serverVars => [TrustNext]_trustVars
  BY DEF MCNext, serverVars
<1>8. [MCNext]_serverVars => [ContainNext]_containVars
  BY DEF MCNext, serverVars
<1>9. [MCNext]_serverVars => [DispatchNext]_dispatchVars
  BY DEF MCNext, serverVars
<1>10. [MCNext]_serverVars => [IntelNext]_intelVars
  BY DEF MCNext, serverVars
<1>11. [MCNext]_serverVars => [BotNext]_botVars
  BY DEF MCNext, serverVars
<1>12. [MCNext]_serverVars => [CollectorNext]_collectorVars
  BY DEF MCNext, serverVars
<1>13. MCSpec => MCInit /\ [][MCNext]_serverVars
  BY DEF MCSpec, serverVars
<1> QED
  BY <1>1, <1>2, <1>3, <1>4, <1>5, <1>6, <1>7, <1>8, <1>9, <1>10, <1>11, <1>12, <1>13, PTL
     DEF ConsoleSpec, BucketSpec, SessionSpec, EdgeSpec, GateSpec, TrustSpec, ContainSpec,
         DispatchSpec, IntelSpec, BotSpec, CollectorSpec

\* Whatever of the process runs - its console, its buckets, the administrator's session, a
\* request at its edge, its startup, its registry, its containment, the auth defense and its
\* layers, or its telemetry - keeps everything it holds within its type.
THEOREM ServerTyped ==
  ASSUME Cooldown > 0, Lifetime \in Nat, IntelConstants, DispatchConstants,
         MaxBody \in Nat, MaxReplaced \in Nat, TokenTtl \in Nat,
         MaxStarts \in Nat, MaxEvents \in Nat, Warm \in Nat
  PROVE  MCSpec => []TypesOK
<1>1. ConsoleSpec => []TypeOK
  BY ConsolesUseEngine, TypeCorrect, PTL
<1>2. BucketSpec => []BucketTypeOK
  BY BucketsTyped
<1>3. SessionSpec => []SessionTypeOK
  BY SessionsTyped
<1>4. EdgeSpec => []EdgeTypeOK
  BY EdgeTyped
<1>5. GateSpec => []GateTypeOK
  BY StartupTyped
<1>6. TrustSpec => []TrustTypeOK
  BY RegistryTyped
<1>7. ContainSpec => []ContainTypeOK
  BY ContainTyped
<1>8. DispatchSpec => []DispatchTypeOK
  BY DispatchTyped
<1>9. IntelSpec => []IntelTypeOK
  BY EntriesTyped
<1>10. BotSpec => []BotTypeOK
  BY ChallengesTyped
<1>11. CollectorSpec => []CollectorTypeOK
  BY CollectorTyped
<1>12. /\ TypeOK /\ BucketTypeOK /\ SessionTypeOK /\ EdgeTypeOK /\ GateTypeOK
      /\ TrustTypeOK /\ ContainTypeOK /\ DispatchTypeOK /\ IntelTypeOK
      /\ BotTypeOK /\ CollectorTypeOK
      => TypesOK
  BY DEF TypesOK
<1> QED
  BY <1>1, <1>2, <1>3, <1>4, <1>5, <1>6, <1>7, <1>8, <1>9, <1>10, <1>11, <1>12, ServerParts, PTL
===============================================================================
