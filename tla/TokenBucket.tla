----------------------------- MODULE TokenBucket -----------------------------
(***************************************************************************)
(* The rate caps of the egress governor (src/sf2loki/egress.py,            *)
(* _TokenBucket and EgressGovernor._throttle): the consumers of all lanes  *)
(* draw from the same buckets, one for lines and one for bytes, and sleep  *)
(* the shortfall.                                                          *)
(*                                                                         *)
(* A bucket is refilled when it is looked at, up to its capacity; that is  *)
(* the same as refilling it at every tick of the clock, as Tick does.      *)
(***************************************************************************)
EXTENDS Integers

CONSTANTS
    Lanes,      \* the lanes whose consumers share the buckets
    Buckets,    \* "lines" and "bytes", those that are configured
    Capacity,   \* one second of rate, the same for every bucket here
    PerTick,    \* refill per tick
    MaxAmount,  \* the largest batch, in lines or bytes
    Batches     \* what a batch takes: a set of functions [Buckets -> 1..MaxAmount]

ASSUME TokenBucketAssumption ==
    /\ Capacity \in Nat \ {0} /\ PerTick \in 1..Capacity
    /\ MaxAmount \in Nat \ {0}
    /\ Batches \subseteq [Buckets -> 1..MaxAmount]

VARIABLES
    tokens,     \* [Buckets -> balance]
    asks,       \* [Lanes -> the batch being throttled, NoBatch if none]
    due,        \* [Lanes -> ticks its sleep still takes]
    stop        \* the stop event

bucketVars == <<tokens, asks, due, stop>>

NoBatch == [k \in Buckets |-> 0]

BucketInit ==
    /\ tokens = [k \in Buckets |-> Capacity]
    /\ asks = [l \in Lanes |-> NoBatch]
    /\ due = [l \in Lanes |-> 0]
    /\ stop = FALSE

-----------------------------------------------------------------------------

\* Mutant: a batch larger than the bucket waits for more than it can hold.
NeedAll(a) == a
\* The required amount is capped at the capacity.
Need(a) == IF a < Capacity THEN a ELSE Capacity

\* After d more ticks every bucket would have what the batch needs.
EnoughAfter(a, d) == \A k \in Buckets : tokens[k] + d * PerTick >= Need(a[k])

\* _throttle is entered with a batch.
Throttle(l) ==
    /\ asks[l] = NoBatch
    /\ \E a \in Batches : asks' = [asks EXCEPT ![l] = a]
    /\ due' = [due EXCEPT ![l] = 0]
    /\ UNCHANGED <<tokens, stop>>

Waiting(l) == asks[l] # NoBatch /\ ~stop /\ due[l] = 0

\* Mutant: the buckets are drawn from whether or not they have enough.
ConsumeUnchecked(l) ==
    /\ Waiting(l)
    /\ tokens' = [k \in Buckets |-> tokens[k] - asks[l][k]]
    /\ asks' = [asks EXCEPT ![l] = NoBatch]
    /\ UNCHANGED <<due, stop>>

\* Nothing to wait for: consume from every bucket, possibly into debt.
Consume(l) ==
    /\ Waiting(l)
    /\ EnoughAfter(asks[l], 0)
    /\ tokens' = [k \in Buckets |-> tokens[k] - asks[l][k]]
    /\ asks' = [asks EXCEPT ![l] = NoBatch]
    /\ UNCHANGED <<due, stop>>

\* Sleep the longest shortfall, then look again.
Sleep(l) ==
    /\ Waiting(l)
    /\ ~EnoughAfter(asks[l], 0)
    /\ \E d \in 1..(2 * Capacity + MaxAmount) :
          /\ EnoughAfter(asks[l], d) /\ ~EnoughAfter(asks[l], d - 1)
          /\ due' = [due EXCEPT ![l] = d]
    /\ UNCHANGED <<tokens, asks, stop>>

\* stop ends the throttle: the last batch is pushed without tokens.
StopThrottle(l) ==
    /\ asks[l] # NoBatch /\ stop
    /\ asks' = [asks EXCEPT ![l] = NoBatch]
    /\ UNCHANGED <<tokens, due, stop>>

SetStop ==
    /\ ~stop /\ stop' = TRUE
    /\ UNCHANGED <<tokens, asks, due>>

\* A second passes in ticks; a sleeper whose time is up runs before the next.
Tick ==
    /\ \A l \in Lanes : asks[l] = NoBatch \/ due[l] > 0
    /\ tokens' = [k \in Buckets |->
                    IF tokens[k] + PerTick < Capacity THEN tokens[k] + PerTick ELSE Capacity]
    /\ due' = [l \in Lanes |-> IF due[l] > 0 THEN due[l] - 1 ELSE 0]
    /\ UNCHANGED <<asks, stop>>

LaneStep(l) == Consume(l) \/ Sleep(l) \/ StopThrottle(l)

BucketNext == (\E l \in Lanes : Throttle(l) \/ LaneStep(l)) \/ SetStop \/ Tick

BucketSpec == BucketInit /\ [][BucketNext]_bucketVars

\* Time passes, and a consumer whose sleep is over runs; nothing makes a lane
\* flush another batch.
BucketFairSpec ==
    BucketSpec /\ WF_bucketVars(Tick) /\ \A l \in Lanes : WF_bucketVars(LaneStep(l))

-----------------------------------------------------------------------------

\* What the largest batch leaves a full bucket short of.
Overdraft == IF MaxAmount > Capacity THEN MaxAmount - Capacity ELSE 0

\* The rate holds over every interval: with the balance never above Capacity
\* nor below the overdraft of one oversized batch, what the lanes together
\* push in n ticks is at most n * PerTick plus that difference.
DebtBounded == \A k \in Buckets : tokens[k] <= Capacity /\ tokens[k] >= -Overdraft

\* _TokenBucket: a request, over-capacity ones included, never waits forever,
\* unless other lanes go on drawing from the buckets.
ServedWhenAlone ==
    \A l \in Lanes :
        (<>[](\A m \in Lanes \ {l} : asks[m] = NoBatch))
            => ((asks[l] # NoBatch) ~> (asks[l] = NoBatch))
==============================================================================
