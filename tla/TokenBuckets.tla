------------------------------ MODULE TokenBuckets -----------------------------
(***************************************************************************)
(* The token buckets: DistributedTokenBucket of auth_defense layer 1,      *)
(* shared by several nodes through Redis with a bucket of its own on every *)
(* node to fall back on, and the hierarchy of local buckets of the         *)
(* perimeter's MultiTierRateLimiter.  Both refill a bucket when it is      *)
(* used: by the time since last_refill, up to its capacity.  A node takes  *)
(* the time before it talks to Redis, so scripts run in another order than *)
(* their times.                                                            *)
(***************************************************************************)
EXTENDS Integers, FiniteSets

CONSTANTS
  Nodes,      \* the processes that share the Redis bucket
  Capacity,
  Rate,       \* refill_rate, tokens per tick
  MaxTime,    \* bound on the clock
  Clients,    \* clients of the hierarchy, all of one tenant
  Outer,      \* capacity of the tenant's bucket
  Inner       \* capacity of a client's bucket

ASSUME BucketAssumption ==
  /\ IsFiniteSet(Nodes) /\ IsFiniteSet(Clients)
  /\ Capacity \in Nat \ {0} /\ Rate \in Nat /\ MaxTime \in Nat
  /\ Outer \in Nat /\ Inner \in Nat

VARIABLES
  now,      \* the clock
  redis,    \* the shared bucket
  local,    \* each node's _local_cache entry
  node,     \* each node: its connection and the consume it is in
  granted,  \* tokens granted from the shared bucket (not in the code)
  spent,    \* tokens granted by each node from its own (not in the code)
  tier      \* the hierarchy: the tokens of the tenant and of each client

bucketVars == <<now, redis, local, node, granted, spent, tier>>

Min2(a, b) == IF a < b THEN a ELSE b

Bucket(tokens, last) == [tokens |-> tokens, last |-> last]

\* Slip: time that was already refilled counts again.
RefilledTwice(b, t) == Bucket(Min2(Capacity, b.tokens + t * Rate), t)

\* A bucket refilled at time t; t may be before its last refill.
Refilled(b, t) == Bucket(Min2(Capacity, b.tokens + (t - b.last) * Rate), t)

Enough(b) == b.tokens >= 1
Taken(b) == IF Enough(b) THEN [b EXCEPT !.tokens = @ - 1] ELSE b

BucketInit ==
  /\ now = 0
  /\ redis = Bucket(Capacity, 0)
  /\ local = [n \in Nodes |-> Bucket(Capacity, 0)]
  /\ node = [n \in Nodes |-> [link |-> "none", at |-> 0, busy |-> FALSE]]
  /\ granted = 0
  /\ spent = [n \in Nodes |-> 0]
  /\ tier = [outer |-> Outer, inner |-> [c \in Clients |-> Inner]]

-------------------------------------------------------------------------------
(* DistributedTokenBucket *)

\* _connect, run once: the ping succeeds, or the node goes on without Redis for good.
Connect(n, link) ==
  /\ node[n].link = "none"
  /\ link \in {"up", "down"}
  /\ node' = [node EXCEPT ![n].link = link]
  /\ UNCHANGED <<now, redis, local, granted, spent, tier>>

\* consume takes the time and sends the script.
Consume(n) ==
  /\ node[n].link = "up" /\ ~node[n].busy
  /\ node' = [node EXCEPT ![n] = [link |-> "up", at |-> now, busy |-> TRUE]]
  /\ UNCHANGED <<now, redis, local, granted, spent, tier>>

\* The script runs: one atomic step of Redis, with the time it was sent with.
RunScript(n) ==
  LET b == Refilled(redis, node[n].at)
  IN /\ redis' = Taken(b)
     /\ granted' = IF Enough(b) THEN granted + 1 ELSE granted

Reply(n) ==
  /\ node[n].busy
  /\ RunScript(n)
  /\ node' = [node EXCEPT ![n].busy = FALSE]
  /\ UNCHANGED <<now, local, spent, tier>>

\* _local_consume, at time t.
TakeLocal(n, t) ==
  LET b == Refilled(local[n], t)
  IN /\ local' = [local EXCEPT ![n] = Taken(b)]
     /\ spent' = [spent EXCEPT ![n] = @ + (IF Enough(b) THEN 1 ELSE 0)]

\* The call fails, before the script ran or after, and the node uses its own bucket.
FailsBefore(n) ==
  /\ node[n].busy
  /\ TakeLocal(n, node[n].at)
  /\ node' = [node EXCEPT ![n].busy = FALSE]
  /\ UNCHANGED <<now, redis, granted, tier>>

FailsAfter(n) ==
  /\ node[n].busy
  /\ RunScript(n)
  /\ TakeLocal(n, node[n].at)
  /\ node' = [node EXCEPT ![n].busy = FALSE]
  /\ UNCHANGED <<now, tier>>

\* Without a connection only the node's own bucket is used.
ConsumeAlone(n) ==
  /\ node[n].link = "down"
  /\ TakeLocal(n, now)
  /\ UNCHANGED <<now, redis, node, granted, tier>>

-------------------------------------------------------------------------------
(* MultiTierRateLimiter of layer 3 *)

\* check_limit: the outer bucket pays first, also when the inner one then refuses.
CheckTiers(c) ==
  /\ tier' = IF tier.outer < 1 THEN tier
             ELSE [outer |-> tier.outer - 1,
                   inner |-> [tier.inner EXCEPT ![c] = IF @ >= 1 THEN @ - 1 ELSE @]]
  /\ UNCHANGED <<now, redis, local, node, granted, spent>>

\* reset of one client's bucket: the next use starts it full.
ResetTier(c) ==
  /\ tier' = [tier EXCEPT !.inner[c] = Inner]
  /\ UNCHANGED <<now, redis, local, node, granted, spent>>

\* Time passes.  The hierarchy's buckets, whose times never go back, are refilled here.
BucketTick ==
  /\ now < MaxTime
  /\ now' = now + 1
  /\ tier' = [outer |-> Min2(Outer, tier.outer + Rate),
              inner |-> [c \in Clients |-> Min2(Inner, tier.inner[c] + Rate)]]
  /\ UNCHANGED <<redis, local, node, granted, spent>>

BucketNext ==
  \/ \E n \in Nodes :
       \/ \E link \in {"up", "down"} : Connect(n, link)
       \/ Consume(n) \/ Reply(n) \/ FailsBefore(n) \/ FailsAfter(n) \/ ConsumeAlone(n)
  \/ \E c \in Clients : CheckTiers(c) \/ ResetTier(c)
  \/ BucketTick

BucketSpec == BucketInit /\ [][BucketNext]_bucketVars

-------------------------------------------------------------------------------
(* Properties *)

\* Types of the buckets.
BucketTypeOK ==
  /\ now \in 0 .. MaxTime
  /\ redis \in [tokens : Int, last : 0 .. now]
  /\ local \in [Nodes -> [tokens : Int, last : 0 .. now]]
  /\ node \in [Nodes -> [link : {"none", "up", "down"}, at : 0 .. now, busy : BOOLEAN]]
  /\ granted \in Nat
  /\ spent \in [Nodes -> Nat]
  /\ tier \in [outer : 0 .. Outer, inner : [Clients -> 0 .. Inner]]

\* What a bucket has granted never exceeds its capacity and what was refilled since the
\* start, although scripts run out of order and fail after they ran; so a cluster of n
\* nodes with an unreliable Redis grants at most n + 1 times that.
BudgetHeld ==
  /\ granted <= Capacity + Rate * now
  /\ \A n \in Nodes : spent[n] <= Capacity + Rate * now
===============================================================================
