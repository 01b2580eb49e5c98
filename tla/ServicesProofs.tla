--------------------------- MODULE ServicesProofs ----------------------------
(***************************************************************************)
(* Proofs about the services around the pipeline: the token buckets of the *)
(* egress governor, the guard against overlapping sources, a batch in the  *)
(* Loki sink and the sessions of the orgs.                                 *)
(***************************************************************************)
EXTENDS TokenBucket, LokiSink, OrgAuth, Overlap, SequenceTheorems, FiniteSetTheorems, TLAPS

-----------------------------------------------------------------------------
(***************************************************************************)
(* TokenBucket: the rate.                                                  *)
(***************************************************************************)

\* The balances are numbers, and a lane throttles nothing or a batch.
BucketTypeOK ==
    /\ tokens \in [Buckets -> Int]
    /\ asks \in [Lanes -> [Buckets -> 0..MaxAmount]]

BucketInv == BucketTypeOK /\ DebtBounded

\* The overdraft is what a batch can ask beyond the capacity.
LEMMA OverdraftBound ==
    /\ Overdraft \in Nat /\ Overdraft >= MaxAmount - Capacity
    /\ Capacity \in Nat \ {0} /\ MaxAmount \in Nat \ {0} /\ PerTick \in Nat \ {0}
  BY TokenBucketAssumption DEF Overdraft

\* Every bucket starts full.
LEMMA BucketInitInv == BucketInit => BucketInv
  <1> SUFFICES ASSUME BucketInit PROVE BucketInv
    OBVIOUS
  <1>1. BucketTypeOK
    BY OverdraftBound DEF BucketInit, BucketTypeOK, NoBatch
  <1>2. DebtBounded
    BY OverdraftBound DEF BucketInit, DebtBounded
  <1> QED BY <1>1, <1>2 DEF BucketInv

\* A consumer draws only from buckets that have what the batch needs, so the debt is
\* what the batch asks beyond the capacity.
LEMMA ConsumeSafe ==
    ASSUME BucketInv, NEW l \in Lanes, Consume(l) PROVE BucketInv'
  <1>1. asks[l] \in [Buckets -> 0..MaxAmount] /\ NoBatch \in [Buckets -> 0..MaxAmount]
    BY OverdraftBound DEF BucketInv, BucketTypeOK, NoBatch
  <1>2. /\ tokens' = [k \in Buckets |-> tokens[k] - asks[l][k]]
        /\ asks' = [asks EXCEPT ![l] = NoBatch]
    BY DEF Consume
  <1>3. BucketTypeOK'
    <2>1. tokens' \in [Buckets -> Int]
      BY <1>1, <1>2 DEF BucketInv, BucketTypeOK
    <2>2. asks' \in [Lanes -> [Buckets -> 0..MaxAmount]]
      BY <1>1, <1>2 DEF BucketInv, BucketTypeOK
    <2> QED BY <2>1, <2>2 DEF BucketTypeOK
  <1>4. ASSUME NEW k \in Buckets
        PROVE  tokens'[k] <= Capacity /\ tokens'[k] >= -Overdraft
    <2> DEFINE a == asks[l][k]
    <2>1. a \in 0..MaxAmount /\ tokens[k] \in Int /\ tokens[k] <= Capacity
      BY <1>1 DEF BucketInv, BucketTypeOK, DebtBounded
    <2>2. tokens[k] + 0 * PerTick >= Need(a)
      BY DEF Consume, EnoughAfter
    <2>3. 0 * PerTick = 0
      BY OverdraftBound
    <2>4. tokens[k] >= IF a < Capacity THEN a ELSE Capacity
      BY <2>1, <2>2, <2>3, OverdraftBound DEF Need
    <2>5. tokens'[k] = tokens[k] - a
      BY <1>2
    <2> QED BY <2>1, <2>4, <2>5, OverdraftBound
  <1> QED BY <1>3, <1>4 DEF BucketInv, DebtBounded

\* A tick refills a bucket up to its capacity.
LEMMA TickSafe ==
    ASSUME BucketInv, Tick PROVE BucketInv'
  <1>1. ASSUME NEW k \in Buckets
        PROVE  /\ tokens'[k] = IF tokens[k] + PerTick < Capacity THEN tokens[k] + PerTick
                                                                 ELSE Capacity
               /\ tokens[k] \in Int /\ tokens[k] >= -Overdraft
    BY DEF Tick, BucketInv, BucketTypeOK, DebtBounded
  <1>2. tokens' \in [Buckets -> Int]
    BY <1>1, OverdraftBound DEF Tick
  <1>3. DebtBounded'
    BY <1>1, OverdraftBound DEF DebtBounded
  <1> QED BY <1>2, <1>3 DEF Tick, BucketInv, BucketTypeOK

\* Every step keeps the invariant.
LEMMA BucketStepInv == BucketInv /\ [BucketNext]_bucketVars => BucketInv'
  <1> SUFFICES ASSUME BucketInv, [BucketNext]_bucketVars PROVE BucketInv'
    OBVIOUS
  <1>1. CASE UNCHANGED bucketVars \/ SetStop
    BY <1>1 DEF bucketVars, SetStop, BucketInv, BucketTypeOK, DebtBounded
  <1>2. CASE Tick
    BY <1>2, TickSafe
  <1>3. ASSUME NEW l \in Lanes, Consume(l) PROVE BucketInv'
    BY <1>3, ConsumeSafe
  <1>4. ASSUME NEW l \in Lanes, Throttle(l) \/ Sleep(l) \/ StopThrottle(l) PROVE BucketInv'
    <2>1. tokens' = tokens
      BY <1>4 DEF Throttle, Sleep, StopThrottle
    <2>2. Batches \subseteq [Buckets -> 0..MaxAmount] /\ NoBatch \in [Buckets -> 0..MaxAmount]
      BY TokenBucketAssumption DEF NoBatch
    <2>3. asks' \in [Lanes -> [Buckets -> 0..MaxAmount]]
      BY <1>4, <2>2 DEF Throttle, Sleep, StopThrottle, BucketInv, BucketTypeOK
    <2> QED BY <2>1, <2>3 DEF BucketInv, BucketTypeOK, DebtBounded
  <1> QED BY <1>1, <1>2, <1>3, <1>4 DEF BucketNext, LaneStep

\* The rate caps hold for any number of lanes and buckets, any rate and any batches:
\* a bucket is never above its capacity nor deeper in debt than one batch larger than
\* it leaves it, whoever draws from it between two looks at it.
THEOREM DebtBoundedAlways == BucketSpec => []DebtBounded
  <1>1. BucketInv => DebtBounded
    BY DEF BucketInv
  <1> QED BY <1>1, BucketInitInv, BucketStepInv, PTL DEF BucketSpec

-----------------------------------------------------------------------------
(***************************************************************************)
(* Overlap: who may own a category.                                        *)
(***************************************************************************)

\* The configuration is one of those looked at, and what the org offers has names.
OvlTypeOK ==
    /\ cfg \in OvlConfigs
    /\ streams \subseteq Topics /\ files \subseteq EventTypes

\* Once the guard has let the sources start, each has what it was configured with,
\* and what it discovered outside the categories the others own.
OwnedApart ==
    ovl = "running" =>
        /\ ~Collides
        /\ \A t \in subscribed :
              t \in cfg.topics \/ (cfg.anyTopic /\ CategoryOf[t] \notin PubSubOwned)
        /\ \A t \in polled :
              t \in cfg.types \/ (cfg.anyType /\ CategoryOf[t] \notin ElfOwned)

\* Nothing is polled before the guard has looked.
GuardFirst == ovl = "starting" => polled = {}

OvlInv == OvlTypeOK /\ OwnedApart /\ GuardFirst

\* Nothing runs before the guard.
LEMMA OvlInitInv == OvlInit => OvlInv
  BY DEF OvlInit, OvlInv, OvlTypeOK, OwnedApart, GuardFirst

\* Every step keeps the invariant.
LEMMA OvlStepInv == OvlInv /\ [OvlNext]_ovlVars => OvlInv'
  <1> SUFFICES ASSUME OvlInv, [OvlNext]_ovlVars PROVE OvlInv'
    OBVIOUS
  <1> USE DEF OvlInv
  <1>1. CASE UNCHANGED ovlVars
    <2>1. UNCHANGED <<cfg, streams, files, ovl, subscribed, polled>>
      BY <1>1 DEF ovlVars
    <2>2. PubSubOwned' = PubSubOwned /\ ElfOwned' = ElfOwned /\ Collides' = Collides
      BY <2>1 DEF PubSubOwned, ElfOwned, Collides
    <2> QED BY <2>1, <2>2 DEF OvlTypeOK, OwnedApart, GuardFirst
  <1>2. CASE OvlStart
    <2>1. OvlTypeOK' /\ polled' = polled /\ cfg' = cfg
      BY <1>2 DEF OvlStart, OvlTypeOK
    <2>2. CASE ovl' = "refused"
      <3>1. ovl' # "running" /\ ovl' # "starting"
        BY <2>2
      <3> QED BY <2>1, <3>1 DEF OwnedApart, GuardFirst
    <2>3. CASE ~Collides /\ ovl' = "running"
      <3>1. \A t \in subscribed' :
                t \in cfg.topics \/ (cfg.anyTopic /\ CategoryOf[t] \notin PubSubOwned)
        BY <1>2, <2>3 DEF OvlStart, Additions
      <3>2. polled = {}
        BY <1>2 DEF OvlStart, GuardFirst
      <3>3. GuardFirst'
        BY <2>3 DEF GuardFirst
      <3> QED BY <2>1, <2>3, <3>1, <3>2, <3>3 DEF OwnedApart, Collides, PubSubOwned, ElfOwned
    <2> QED BY <1>2, <2>2, <2>3 DEF OvlStart
  <1>3. CASE OvlRediscover
    <2>1. /\ cfg' = cfg /\ polled' = polled /\ ovl = "running" /\ OvlTypeOK'
          /\ cfg.anyTopic /\ subscribed' = subscribed \cup Additions
      BY <1>3 DEF OvlRediscover, OvlTypeOK
    <2>2. PubSubOwned' = PubSubOwned /\ ElfOwned' = ElfOwned /\ (Collides' <=> Collides)
      BY <2>1 DEF PubSubOwned, ElfOwned, Collides
    <2>3. ovl' = "running"
      BY <1>3 DEF OvlRediscover
    <2> QED BY <2>1, <2>2, <2>3 DEF OwnedApart, GuardFirst, Additions
  <1>4. CASE OvlCycle \/ OvlCycleFails
    <2>1. /\ cfg' = cfg /\ subscribed' = subscribed /\ ovl = "running" /\ OvlTypeOK'
          /\ polled' = cfg.types \/ (cfg.anyType /\ polled' = ResolvedTypes)
      BY <1>4 DEF OvlCycle, OvlCycleFails, OvlTypeOK
    <2>2. PubSubOwned' = PubSubOwned /\ ElfOwned' = ElfOwned /\ (Collides' <=> Collides)
      BY <2>1 DEF PubSubOwned, ElfOwned, Collides
    <2>3. ovl' = "running"
      BY <1>4 DEF OvlCycle, OvlCycleFails
    <2> QED BY <2>1, <2>2, <2>3 DEF OwnedApart, GuardFirst, ResolvedTypes
  <1>5. CASE OvlAppears
    <2>1. OvlTypeOK' /\ UNCHANGED <<cfg, ovl, subscribed, polled>>
      BY <1>5 DEF OvlAppears, OvlTypeOK
    <2> QED BY <2>1 DEF OwnedApart, GuardFirst, Collides, PubSubOwned, ElfOwned
  <1> QED BY <1>1, <1>2, <1>3, <1>4, <1>5 DEF OvlNext

\* What the invariant is for: three sources that keep apart share no category.
LEMMA ApartIsOnce == OvlInv => OneSourcePerCategory
  <1> SUFFICES ASSUME OvlInv, ovl = "running", ~cfg.allow, ~(cfg.anyTopic /\ cfg.anyType)
               PROVE  OneSourcePerCategory
    BY DEF OneSourcePerCategory
  <1>1. \A c \in Categories(cfg.topics) :
            c \notin Categories(cfg.objects) /\ c \notin Categories(cfg.types)
    BY DEF OvlInv, OwnedApart, Collides
  <1>2. \A c \in Categories(cfg.objects) : c \notin Categories(cfg.types)
    BY DEF OvlInv, OwnedApart, Collides
  <1>3. \A t \in subscribed : CategoryOf[t] \in Categories(cfg.topics) \/
            (/\ cfg.anyTopic /\ CategoryOf[t] \notin Categories(cfg.objects)
             /\ CategoryOf[t] \notin Categories(cfg.types))
    BY DEF OvlInv, OwnedApart, PubSubOwned, Categories
  <1>4. \A t \in polled : CategoryOf[t] \in Categories(cfg.types) \/
            (/\ cfg.anyType /\ CategoryOf[t] \notin Categories(cfg.topics)
             /\ CategoryOf[t] \notin Categories(cfg.objects))
    BY DEF OvlInv, OwnedApart, ElfOwned, Categories
  <1>5. Categories(subscribed) \cap Categories(cfg.objects) = {}
    BY <1>1, <1>3 DEF Categories
  <1>6. Categories(polled) \cap Categories(cfg.objects) = {}
    BY <1>2, <1>4 DEF Categories
  <1>7. Categories(subscribed) \cap Categories(polled) = {}
    BY <1>1, <1>3, <1>4 DEF Categories
  <1> QED BY <1>5, <1>6, <1>7 DEF OneSourcePerCategory

\* For any categories, configurations and order in which streams and files appear, no
\* category is ingested from two sources, unless two wildcards or an allowed overlap
\* ask for it.
THEOREM OneSourceAlways == OvlSpec => []OneSourcePerCategory
  BY ApartIsOnce, OvlInitInv, OvlStepInv, PTL DEF OvlSpec

-----------------------------------------------------------------------------
(***************************************************************************)
(* LokiSink: the ranges still to be sent tile the rest of the batch.       *)
(***************************************************************************)

\* s covers the entries from a on, in order and without a gap, in ranges that are not
\* empty; so no more ranges follow one than entries do.
Tiles(s, a) ==
    /\ s \in Seq(Nat \X Nat) /\ a \in Nat \ {0}
    /\ IF s = <<>> THEN a = entries + 1 ELSE s[1][1] = a /\ s[Len(s)][2] = entries
    /\ \A i \in 1..Len(s) : s[i][1] <= s[i][2] /\ Len(s) - i <= entries - s[i][2]
    /\ \A i \in 1..(Len(s) - 1) : s[i + 1][1] = s[i][2] + 1

\* The variables of the push have their types.
SkTypeOK ==
    /\ entries \in Nat \ {0} /\ poison \subseteq 1..entries
    /\ at \in {"called", "posting", "delivered", "refused"}
    /\ dropped \in [1..entries -> Nat]
    /\ pushes \in Nat /\ posts \in Nat

\* The entry has been accounted for by this push or an earlier one.
Settled(e) == IF e \in poison THEN dropped[e] > 0 ELSE e \in stored

\* While a push goes on, the entries before the first range are settled, those from
\* there on have not been dropped by it, and the requests still needed at most are
\* paid for: two for every entry to go, less one for every range.
PushUnderWay ==
    at = "posting" =>
        /\ ranges # <<>> /\ Tiles(ranges, ranges[1][1])
        /\ \A e \in 1..(ranges[1][1] - 1) : Settled(e)
        /\ \A e \in ranges[1][1]..entries : e \in poison => dropped[e] < pushes
        /\ posts + 2 * (entries - ranges[1][1] + 1) - Len(ranges) <= 2 * entries - 1

SkInv == SkTypeOK /\ PushUnderWay /\ PushSound

-----------------------------------------------------------------------------

\* A sequence is empty when its length is 0.
LEMMA EmptyLen ==
    ASSUME NEW S, NEW s \in Seq(S)
    PROVE  Len(s) \in Nat /\ (s = <<>> <=> Len(s) = 0)
  BY EmptySeq, LenProperties

\* The first element and the others.
LEMMA FirstRest ==
    ASSUME NEW S, NEW s \in Seq(S), s # <<>>
    PROVE  /\ Len(s) \in Nat \ {0} /\ s[1] \in S /\ Head(s) = s[1]
           /\ Tail(s) \in Seq(S) /\ Len(Tail(s)) = Len(s) - 1
           /\ \A i \in 1..(Len(s) - 1) : Tail(s)[i] = s[i + 1]
           /\ Tail(s) = <<>> <=> Len(s) = 1
  <1>1. Len(s) \in Nat \ {0}
    BY EmptySeq
  <1>2. s[1] \in S
    BY <1>1, ElementOfSeq
  <1>3. Tail(s) \in Seq(S) /\ Len(Tail(s)) = Len(s) - 1
    BY HeadTailProperties
  <1>4. \A i \in 1..(Len(s) - 1) : Tail(s)[i] = s[i + 1]
    BY <1>3, HeadTailProperties
  <1>5. Tail(s) = <<>> <=> Len(s) = 1
    <2>1. Tail(s) = <<>> <=> Len(Tail(s)) = 0
      BY <1>3, EmptyLen
    <2> QED BY <1>1, <1>3, <2>1
  <1>6. Head(s) = s[1]
    OBVIOUS
  <1> QED BY <1>1, <1>2, <1>3, <1>4, <1>5, <1>6

\* Two elements put before a sequence.
LEMMA PairBefore ==
    ASSUME NEW S, NEW a \in S, NEW b \in S, NEW t \in Seq(S), NEW u, u = <<a, b>> \o t
    PROVE  /\ u \in Seq(S) /\ Len(u) = Len(t) + 2 /\ u # <<>>
           /\ u[1] = a /\ u[2] = b
           /\ \A i \in 3..(Len(t) + 2) : u[i] = t[i - 2]
  <1>1. <<a, b>> \in Seq(S) /\ Len(<<a, b>>) = 2
    OBVIOUS
  <1>2. Len(t) \in Nat
    BY LenProperties
  <1>3. u \in Seq(S) /\ Len(u) = 2 + Len(t)
    BY <1>1, ConcatProperties
  <1>4. \A i \in 1..(2 + Len(t)) : u[i] = IF i <= 2 THEN <<a, b>>[i] ELSE t[i - 2]
    BY <1>1, ConcatProperties
  <1>5. u # <<>>
    BY <1>2, <1>3, EmptyLen
  <1>6. 1 \in 1..(2 + Len(t)) /\ 2 \in 1..(2 + Len(t))
    BY <1>2
  <1>7. u[1] = a /\ u[2] = b
    BY <1>4, <1>6
  <1>8. \A i \in 3..(Len(t) + 2) : i \in 1..(2 + Len(t)) /\ ~(i <= 2)
    BY <1>2
  <1> QED BY <1>2, <1>3, <1>4, <1>5, <1>7, <1>8

\* What is left after the first range tiles the entries after it.
LEMMA TailTiles ==
    ASSUME SkTypeOK, NEW s, s # <<>>, Tiles(s, s[1][1])
    PROVE  /\ Tiles(Tail(s), s[1][2] + 1)
           /\ Head(s) = s[1] /\ Len(Tail(s)) = Len(s) - 1 /\ Len(s) \in Nat \ {0}
           /\ s[1] \in Nat \X Nat /\ 1 <= s[1][1] /\ s[1][1] <= s[1][2]
           /\ s[1][2] <= entries /\ Len(s) - 1 <= entries - s[1][2]
           /\ Tail(s) # <<>> => Tail(s)[1][1] = s[1][2] + 1
           /\ Tail(s) = <<>> => s[1][2] = entries
  <1> DEFINE t == Tail(s)
  <1>1. /\ s \in Seq(Nat \X Nat) /\ Len(s) \in Nat \ {0}
        /\ \A i \in 1..Len(s) : s[i] \in Nat \X Nat
    BY FirstRest, ElementOfSeq DEF Tiles
  <1>2. /\ t \in Seq(Nat \X Nat) /\ Len(t) = Len(s) - 1 /\ Head(s) = s[1]
        /\ \A i \in 1..Len(t) : t[i] = s[i + 1]
    BY <1>1, FirstRest
  <1>3. t = <<>> <=> Len(s) = 1
    BY <1>1, FirstRest
  <1>4. entries \in Nat
    BY DEF SkTypeOK
  <1>5. /\ s[1] \in Nat \X Nat /\ 1 <= s[1][1] /\ s[1][1] <= s[1][2]
        /\ Len(s) - 1 <= entries - s[1][2]
    BY <1>1 DEF Tiles
  <1>6. s[1][2] <= entries
    BY <1>1, <1>4, <1>5
  <1>7. t = <<>> => s[1][2] = entries
    BY <1>3 DEF Tiles
  <1>8. t # <<>> => t[1][1] = s[1][2] + 1 /\ t[Len(t)][2] = entries
    <2>1. ASSUME Len(s) # 1 PROVE t[1] = s[2] /\ t[Len(t)] = s[Len(s)] /\ s[2][1] = s[1][2] + 1
      <3>1. 1 \in 1..Len(t) /\ Len(t) \in 1..Len(t) /\ 1 \in 1..(Len(s) - 1)
        BY <1>1, <1>2, <2>1
      <3> QED BY <1>1, <1>2, <3>1 DEF Tiles
    <2> QED BY <1>1, <1>3, <2>1 DEF Tiles
  <1>9. \A i \in 1..Len(t) : t[i][1] <= t[i][2] /\ Len(t) - i <= entries - t[i][2]
    <2> SUFFICES ASSUME NEW i \in 1..Len(t)
                 PROVE  t[i][1] <= t[i][2] /\ Len(t) - i <= entries - t[i][2]
      OBVIOUS
    <2>1. i + 1 \in 1..Len(s) /\ t[i] = s[i + 1] /\ Len(t) - i = Len(s) - (i + 1)
      BY <1>1, <1>2
    <2> QED BY <2>1 DEF Tiles
  <1>10. \A i \in 1..(Len(t) - 1) : t[i + 1][1] = t[i][2] + 1
    <2> SUFFICES ASSUME NEW i \in 1..(Len(t) - 1) PROVE t[i + 1][1] = t[i][2] + 1
      OBVIOUS
    <2>1. /\ i + 1 \in 1..(Len(s) - 1)
          /\ i \in 1..Len(t) /\ i + 1 \in 1..Len(t)
      BY <1>1, <1>2
    <2>2. t[i] = s[i + 1] /\ t[i + 1] = s[(i + 1) + 1]
      BY <1>2, <2>1
    <2> QED BY <2>1, <2>2 DEF Tiles
  <1>11. s[1][2] + 1 \in Nat \ {0}
    BY <1>5
  <1>12. Tiles(t, s[1][2] + 1)
    BY <1>2, <1>7, <1>8, <1>9, <1>10, <1>11 DEF Tiles
  <1> QED BY <1>1, <1>2, <1>5, <1>6, <1>7, <1>8, <1>12

\* The middle of a range of several entries lies within it.
LEMMA MidWithin ==
    ASSUME NEW b \in Nat, NEW e \in Nat, 1 <= b, b < e,
           NEW m, m = (b + e - 1) \div 2
    PROVE  m \in Nat /\ b <= m /\ m < e
  OBVIOUS

\* A range cut in two, with tiles of what follows it: u is what a split leaves to send.
CutInTwo(u, b, m, e, t) ==
    /\ 1 <= b /\ b <= m /\ m < e /\ e <= entries
    /\ Tiles(t, e + 1)
    /\ u = << <<b, m>>, <<m + 1, e>> >> \o t

\* What a split leaves to send tiles the entries of the range and those after it.
LEMMA CutTiles ==
    ASSUME SkTypeOK, NEW b \in Nat, NEW m \in Nat, NEW e \in Nat,
           NEW t, NEW u, CutInTwo(u, b, m, e, t)
    PROVE  Tiles(u, b)
  <1>1. 1 <= b /\ b <= m /\ m < e /\ e <= entries
    BY DEF CutInTwo
  <1>2. PICK p, q : p = <<b, m>> /\ q = <<m + 1, e>> /\ u = <<p, q>> \o t
    BY DEF CutInTwo
  <1>3. t \in Seq(Nat \X Nat) /\ Len(t) \in Nat /\ entries \in Nat /\ Tiles(t, e + 1)
    BY LenProperties DEF CutInTwo, Tiles, SkTypeOK
  <1>4. Len(t) <= entries - e /\ (t = <<>> => e = entries)
    <2>1. CASE t = <<>>
      BY <1>1, <1>3, <2>1, EmptyLen DEF Tiles
    <2>2. CASE t # <<>>
      <3>1. 1 \in 1..Len(t) /\ t[1] \in Nat \X Nat
        BY <1>3, <2>2, FirstRest
      <3>2. t[1][1] = e + 1 /\ t[1][1] <= t[1][2] /\ Len(t) - 1 <= entries - t[1][2]
        BY <1>3, <2>2, <3>1 DEF Tiles
      <3>3. t[1][1] \in Nat /\ t[1][2] \in Nat
        BY <3>1
      <3> QED BY <1>1, <1>3, <2>2, <3>2, <3>3
    <2> QED BY <2>1, <2>2
  <1>5. p \in Nat \X Nat /\ q \in Nat \X Nat
    BY <1>2
  <1>6. /\ u \in Seq(Nat \X Nat) /\ Len(u) = Len(t) + 2 /\ u # <<>>
        /\ u[1] = p /\ u[2] = q
        /\ \A i \in 3..(Len(t) + 2) : u[i] = t[i - 2]
    BY <1>2, <1>3, <1>5, PairBefore
  <1>7. u[1][1] = b /\ u[1][2] = m /\ u[2][1] = m + 1 /\ u[2][2] = e
    BY <1>2, <1>6
  <1>8. u[Len(u)][2] = entries
    <2>1. CASE t = <<>>
      <3>1. Len(u) = 2
        BY <1>3, <1>6, <2>1, EmptyLen
      <3> QED BY <1>4, <1>7, <2>1, <3>1
    <2>2. CASE t # <<>>
      <3>1. Len(t) # 0
        BY <1>3, <2>2, EmptyLen
      <3>2. Len(t) + 2 \in 3..(Len(t) + 2) /\ (Len(t) + 2) - 2 = Len(t)
        BY <1>3, <3>1
      <3>3. t[Len(t)][2] = entries
        BY <1>3, <2>2 DEF Tiles
      <3>4. u[Len(t) + 2] = t[Len(t)]
        BY <1>6, <3>2
      <3> QED BY <1>6, <3>3, <3>4
    <2> QED BY <2>1, <2>2
  <1>9. ASSUME NEW i \in 1..(Len(t) + 2)
        PROVE  u[i][1] <= u[i][2] /\ (Len(t) + 2) - i <= entries - u[i][2]
    <2>1. CASE i = 1
      <3>1. b <= m /\ (Len(t) + 2) - 1 <= entries - m
        BY <1>1, <1>3, <1>4
      <3> QED BY <1>7, <2>1, <3>1
    <2>2. CASE i = 2
      <3>1. m + 1 <= e /\ (Len(t) + 2) - 2 <= entries - e
        BY <1>1, <1>3, <1>4
      <3> QED BY <1>7, <2>2, <3>1
    <2>3. CASE i \in 3..(Len(t) + 2)
      <3>1. i - 2 \in 1..Len(t) /\ (Len(t) + 2) - i = Len(t) - (i - 2)
        BY <1>3, <2>3
      <3>2. u[i] = t[i - 2]
        BY <1>6, <2>3
      <3>3. t[i - 2][1] <= t[i - 2][2] /\ Len(t) - (i - 2) <= entries - t[i - 2][2]
        BY <1>3, <3>1 DEF Tiles
      <3> QED BY <3>1, <3>2, <3>3
    <2> QED BY <1>3, <2>1, <2>2, <2>3
  <1>10. ASSUME NEW i \in 1..(Len(t) + 1) PROVE u[i + 1][1] = u[i][2] + 1
    <2>1. CASE i = 1
      <3>1. i + 1 = 2
        BY <2>1
      <3> QED BY <1>7, <2>1, <3>1
    <2>2. CASE i = 2
      <3>1. Len(t) # 0 /\ i + 1 = 3 /\ 3 \in 3..(Len(t) + 2) /\ 3 - 2 = 1
        BY <1>3, <2>2
      <3>2. u[3] = t[1]
        BY <1>6, <3>1
      <3>3. t[1][1] = e + 1
        BY <1>3, <3>1, EmptyLen DEF Tiles
      <3> QED BY <1>7, <2>2, <3>1, <3>2, <3>3
    <2>3. CASE i \in 3..(Len(t) + 1)
      <3>1. /\ i - 2 \in 1..(Len(t) - 1) /\ (i + 1) - 2 = (i - 2) + 1
            /\ i \in 3..(Len(t) + 2) /\ i + 1 \in 3..(Len(t) + 2)
        BY <1>3, <2>3
      <3>2. u[i] = t[i - 2] /\ u[i + 1] = t[(i + 1) - 2]
        BY <1>6, <3>1
      <3>3. t[(i - 2) + 1][1] = t[i - 2][2] + 1
        BY <1>3, <3>1 DEF Tiles
      <3> QED BY <3>1, <3>2, <3>3
    <2>4. i = 1 \/ i = 2 \/ i \in 3..(Len(t) + 1)
      BY <1>3
    <2> QED BY <2>1, <2>2, <2>3, <2>4
  <1>11. Len(u) - 1 = Len(t) + 1 /\ b \in Nat \ {0}
    BY <1>1, <1>3, <1>6
  <1>12. \A i \in 1..Len(u) : u[i][1] <= u[i][2] /\ Len(u) - i <= entries - u[i][2]
    BY <1>6, <1>9
  <1>13. \A i \in 1..(Len(u) - 1) : u[i + 1][1] = u[i][2] + 1
    BY <1>10, <1>11
  <1> QED BY <1>6, <1>7, <1>8, <1>11, <1>12, <1>13 DEF Tiles

\* The halves of the first range and what follows it tile the same entries.
LEMMA SplitTiles ==
    ASSUME SkTypeOK, NEW s, s # <<>>, Tiles(s, s[1][1]), ~Single(Head(s)),
           NEW u, u = Halves(Head(s)) \o Tail(s)
    PROVE  /\ Tiles(u, s[1][1])
           /\ u # <<>> /\ u[1][1] = s[1][1] /\ Len(u) = Len(s) + 1
  <1>1. /\ Tiles(Tail(s), s[1][2] + 1) /\ Head(s) = s[1]
        /\ Len(Tail(s)) = Len(s) - 1 /\ Len(s) \in Nat \ {0}
        /\ s[1] \in Nat \X Nat /\ 1 <= s[1][1] /\ s[1][1] <= s[1][2] /\ s[1][2] <= entries
    BY TailTiles
  <1>2. PICK b \in Nat, e \in Nat : s[1][1] = b /\ s[1][2] = e /\ b < e
    BY <1>1 DEF Single
  <1>3. PICK m \in Nat : m = (b + e - 1) \div 2 /\ b <= m /\ m < e
    BY <1>1, <1>2, MidWithin
  <1>4. u = << <<b, m>>, <<m + 1, e>> >> \o Tail(s)
    BY <1>1, <1>2, <1>3 DEF Halves
  <1>5. CutInTwo(u, b, m, e, Tail(s))
    BY <1>1, <1>2, <1>3, <1>4 DEF CutInTwo
  <1>6. Tiles(u, b)
    BY <1>5, CutTiles
  <1>7. Len(u) = Len(Tail(s)) + 2 /\ u # <<>>
    <2>1. <<b, m>> \in Nat \X Nat /\ <<m + 1, e>> \in Nat \X Nat
      BY <1>3
    <2>2. Tail(s) \in Seq(Nat \X Nat)
      BY <1>1 DEF Tiles
    <2> QED BY <1>4, <2>1, <2>2, PairBefore
  <1>8. u[1][1] = b
    BY <1>6, <1>7 DEF Tiles
  <1> QED BY <1>1, <1>2, <1>6, <1>7, <1>8

\* A single entry is refused only when it is poison: Loki takes one sound entry.
LEMMA SingleRefused ==
    ASSUME SkTypeOK, NEW r, r[1] \in Nat, Single(r), Refused(r)
    PROVE  Members(r) = {r[1]} /\ r[1] \in poison
  <1>1. Members(r) = {r[1]}
    BY DEF Members, Single
  <1>2. Cardinality({r[1]}) = 1
    BY FS_Singleton
  <1>3. TooMany \in Nat \ {0, 1}
    BY LokiSinkAssumption
  <1> QED BY <1>1, <1>2, <1>3 DEF Refused

-----------------------------------------------------------------------------

\* A batch before its first push.
LEMMA SkInitInv == SkInit => SkInv
  <1> SUFFICES ASSUME SkInit PROVE SkInv
    OBVIOUS
  <1>1. SkTypeOK
    BY LokiSinkAssumption DEF SkInit, SkTypeOK
  <1>2. PushUnderWay
    BY DEF SkInit, PushUnderWay
  <1>3. PushAccounts
    BY DEF SkInit, PushAccounts
  <1>4. DropsCounted
    BY DEF SkInit, DropsCounted
  <1>5. SplitBounded
    BY <1>1 DEF SkInit, SplitBounded, SkTypeOK
  <1> QED BY <1>1, <1>2, <1>3, <1>4, <1>5 DEF SkInv, PushSound

\* The pipeline calls push: the whole batch is one range.
LEMMA SkPushSafe ==
    ASSUME SkInv, SkPush PROVE SkInv'
  <1>1. /\ entries \in Nat \ {0} /\ pushes \in Nat /\ pushes' = pushes + 1
        /\ ranges' = << <<1, entries>> >> /\ posts' = 0 /\ at' = "posting"
        /\ UNCHANGED <<entries, poison, stored, dropped>>
    BY DEF SkPush, SkInv, SkTypeOK, batchVars, Whole
  <1>2. SkTypeOK'
    BY <1>1 DEF SkInv, SkTypeOK
  <1>3. /\ ranges' \in Seq(Nat \X Nat) /\ ranges' # <<>> /\ Len(ranges') = 1
        /\ ranges'[1][1] = 1 /\ ranges'[1][2] = entries
    <2>1. <<1, entries>> \in Nat \X Nat
      BY <1>1
    <2> QED BY <1>1, <2>1
  <1>4. Tiles(ranges, ranges[1][1])'
    BY <1>1, <1>3 DEF Tiles
  <1>5. DropsCounted'
    <2> SUFFICES ASSUME NEW e \in 1..entries
                 PROVE  dropped[e] <= IF e \in poison THEN pushes + 1 ELSE 0
      BY <1>1 DEF DropsCounted
    <2>1. dropped[e] \in Nat /\ dropped[e] <= IF e \in poison THEN pushes ELSE 0
      BY DEF SkInv, SkTypeOK, PushSound, DropsCounted
    <2> QED BY <1>1, <2>1
  <1>6. \A e \in 1..entries : e \in poison => dropped[e] < pushes + 1
    BY <1>1 DEF SkInv, SkTypeOK, PushSound, DropsCounted
  <1>7. PushUnderWay'
    BY <1>1, <1>3, <1>4, <1>6 DEF PushUnderWay
  <1>8. PushAccounts' /\ SplitBounded'
    BY <1>1 DEF PushAccounts, SplitBounded
  <1> QED BY <1>2, <1>5, <1>7, <1>8 DEF SkInv, PushSound

\* The first range of a push under way.
LEMMA FirstRange ==
    ASSUME SkInv, at = "posting"
    PROVE  /\ ranges # <<>> /\ Tiles(ranges, ranges[1][1]) /\ Head(ranges) = ranges[1]
           /\ ranges[1][1] \in Nat /\ ranges[1][2] \in Nat
           /\ 1 <= ranges[1][1] /\ ranges[1][1] <= ranges[1][2] /\ ranges[1][2] <= entries
           /\ Len(ranges) \in Nat \ {0} /\ Len(ranges) - 1 <= entries - ranges[1][2]
           /\ entries \in Nat \ {0} /\ posts \in Nat
           /\ posts + 2 * (entries - ranges[1][1] + 1) - Len(ranges) <= 2 * entries - 1
  <1>1. ranges # <<>> /\ Tiles(ranges, ranges[1][1]) /\ SkTypeOK
    BY DEF SkInv, PushUnderWay
  <1>2. /\ Head(ranges) = ranges[1]
        /\ ranges[1] \in Nat \X Nat
        /\ 1 <= ranges[1][1] /\ ranges[1][1] <= ranges[1][2] /\ ranges[1][2] <= entries
        /\ Len(ranges) \in Nat \ {0} /\ Len(ranges) - 1 <= entries - ranges[1][2]
    BY <1>1, TailTiles
  <1>3. ranges[1][1] \in Nat /\ ranges[1][2] \in Nat
    BY <1>2
  <1> QED BY <1>1, <1>2, <1>3 DEF SkInv, SkTypeOK, PushUnderWay

\* A request is paid for by the entries it settles.
LEMMA Paid ==
    ASSUME NEW p \in Nat, NEW n \in Nat, NEW b \in Nat, NEW f \in Nat, NEW l \in Nat,
           1 <= b, b <= f, f <= n, l - 1 <= n - f,
           p + 2 * (n - b + 1) - l <= 2 * n - 1
    PROVE  /\ p + 1 <= 2 * n - 1
           /\ (p + 1) + 2 * (n - (f + 1) + 1) - (l - 1) <= 2 * n - 1
  OBVIOUS

\* The first range is settled, and the push proceeds with the others or returns.
LEMMA RangeSettled ==
    ASSUME SkInv, at = "posting", Proceed(Tail(ranges)), UNCHANGED <<entries, poison, pushes>>,
           \A e \in 1..entries : Settled(e) => Settled(e)',
           \A e \in ranges[1][1]..ranges[1][2] : Settled(e)',
           dropped' \in [1..entries -> Nat],
           \A e \in 1..entries : e \notin ranges[1][1]..ranges[1][2] => dropped'[e] = dropped[e],
           \A e \in ranges[1][1]..ranges[1][2] :
               dropped'[e] <= IF e \in poison THEN pushes ELSE 0
    PROVE  SkInv'
  <1>1. PICK b \in Nat, f \in Nat : b = ranges[1][1] /\ f = ranges[1][2]
    BY FirstRange
  <1>2. PICK rest : rest = Tail(ranges)
    OBVIOUS
  <1>3. /\ 1 <= b /\ b <= f /\ f <= entries
        /\ Len(ranges) \in Nat \ {0} /\ entries \in Nat \ {0} /\ posts \in Nat
        /\ posts + 2 * (entries - b + 1) - Len(ranges) <= 2 * entries - 1
        /\ Len(ranges) - 1 <= entries - f
    BY <1>1, FirstRange
  <1>4. /\ Tiles(rest, f + 1) /\ Len(rest) = Len(ranges) - 1
        /\ rest # <<>> => rest[1][1] = f + 1
        /\ rest = <<>> => f = entries
    BY <1>1, <1>2, FirstRange, TailTiles DEF SkInv
  <1>5. /\ ranges' = rest /\ posts' = posts + 1
        /\ at' = IF rest = <<>> THEN "delivered" ELSE "posting"
    BY <1>2 DEF Proceed
  <1>6. rest # <<>> => Tiles(ranges, ranges[1][1])'
    BY <1>4, <1>5 DEF Tiles
  <1>7. SkTypeOK'
    BY <1>3, <1>5 DEF SkInv, SkTypeOK
  <1>8. /\ posts + 1 <= 2 * entries - 1
        /\ (posts + 1) + 2 * (entries - (f + 1) + 1) - (Len(ranges) - 1) <= 2 * entries - 1
    BY <1>3, Paid
  <1>9. SplitBounded'
    BY <1>5, <1>8 DEF SplitBounded
  <1>10. DropsCounted'
    <2> SUFFICES ASSUME NEW e \in 1..entries
                 PROVE  dropped'[e] <= IF e \in poison THEN pushes ELSE 0
      BY DEF DropsCounted
    <2> QED BY <1>1 DEF SkInv, PushSound, DropsCounted
  <1>11. \A e \in 1..f : Settled(e)'
    <2> SUFFICES ASSUME NEW e \in 1..f PROVE Settled(e)'
      OBVIOUS
    <2>1. CASE e \in b..f
      BY <1>1, <2>1
    <2>2. CASE e \in 1..(b - 1)
      <3>1. Settled(e)
        BY <1>1, <2>2 DEF SkInv, PushUnderWay
      <3>2. e \in 1..entries
        BY <1>3, <2>2
      <3> QED BY <3>1, <3>2
    <2> QED BY <1>3, <2>1, <2>2
  <1>12. CASE rest = <<>>
    <2>1. at' = "delivered"
      BY <1>5, <1>12
    <2>2. PushUnderWay'
      BY <2>1 DEF PushUnderWay
    <2>3. PushAccounts'
      BY <1>4, <1>11, <1>12 DEF PushAccounts, Settled
    <2> QED BY <1>7, <1>10, <1>9, <2>2, <2>3 DEF SkInv, PushSound
  <1>13. CASE rest # <<>>
    <2>1. at' = "posting" /\ ranges'[1][1] = f + 1
      BY <1>4, <1>5, <1>13
    <2>2. PushAccounts'
      BY <2>1 DEF PushAccounts
    <2>3. \A e \in 1..((f + 1) - 1) : Settled(e)'
      BY <1>11
    <2>4. \A e \in (f + 1)..entries : e \in poison => dropped'[e] < pushes
      <3> SUFFICES ASSUME NEW e \in (f + 1)..entries, e \in poison PROVE dropped'[e] < pushes
        OBVIOUS
      <3>1. e \in b..entries /\ e \in 1..entries /\ e \notin b..f
        BY <1>3
      <3>2. dropped[e] < pushes
        BY <1>1, <3>1 DEF SkInv, PushUnderWay
      <3> QED BY <1>1, <3>1, <3>2
    <2>5. posts' + 2 * (entries - (f + 1) + 1) - Len(ranges') <= 2 * entries - 1
      BY <1>4, <1>5, <1>8
    <2>6. PushUnderWay'
      BY <1>5, <1>6, <1>13, <2>1, <2>3, <2>4, <2>5 DEF PushUnderWay
    <2> QED BY <1>7, <1>10, <1>9, <2>2, <2>6 DEF SkInv, PushSound
  <1> QED BY <1>12, <1>13

\* Loki accepts the first range: nothing in it is poison.
LEMMA SkAcceptedSafe ==
    ASSUME SkInv, SkAccepted PROVE SkInv'
  <1>1. at = "posting" /\ Proceed(Tail(ranges)) /\ UNCHANGED <<entries, poison, dropped, pushes>>
    BY DEF SkAccepted, batchVars
  <1>2. stored' = stored \cup (ranges[1][1]..ranges[1][2])
    BY <1>1, FirstRange DEF SkAccepted, Members
  <1>3. \A e \in ranges[1][1]..ranges[1][2] : e \notin poison
    BY <1>1, FirstRange DEF SkAccepted, Members, Refused
  <1>4. \A e \in ranges[1][1]..ranges[1][2] : e \in 1..entries
    BY <1>1, FirstRange
  <1>5. \A e \in ranges[1][1]..ranges[1][2] : dropped[e] <= IF e \in poison THEN pushes ELSE 0
    BY <1>4 DEF SkInv, PushSound, DropsCounted
  <1>6. /\ \A e \in 1..entries : Settled(e) => Settled(e)'
        /\ \A e \in ranges[1][1]..ranges[1][2] : Settled(e)'
    BY <1>1, <1>2, <1>3 DEF Settled
  <1>7. dropped' \in [1..entries -> Nat]
    BY <1>1 DEF SkInv, SkTypeOK
  <1> QED BY <1>1, <1>5, <1>6, <1>7, RangeSettled

\* The first range is one entry, refused: it is poison, and its drop is counted.
LEMMA SkDropSafe ==
    ASSUME SkInv, SkDrop PROVE SkInv'
  <1>1. /\ at = "posting" /\ Proceed(Tail(ranges)) /\ UNCHANGED <<entries, poison, stored, pushes>>
        /\ Refused(Head(ranges)) /\ Single(Head(ranges))
    BY DEF SkDrop, batchVars, Remaining
  <1>2. PICK b \in Nat : b = ranges[1][1]
    BY <1>1, FirstRange
  <1>3. /\ Members(Head(ranges)) = {b} /\ b \in poison
        /\ ranges[1][1]..ranges[1][2] = {b} /\ b \in 1..entries
    <2>1. Head(ranges) = ranges[1] /\ ranges[1][1] = b /\ ranges[1][2] = b
      BY <1>1, <1>2, FirstRange DEF Single
    <2>2. Members(Head(ranges)) = {b} /\ b \in poison
      BY <1>1, <2>1, SingleRefused DEF SkInv
    <2>3. b..b = {b}
      OBVIOUS
    <2> QED BY <2>1, <2>2, <2>3 DEF SkInv, SkTypeOK
  <1>4. dropped' = [e \in 1..entries |-> dropped[e] + IF e = b THEN 1 ELSE 0]
    BY <1>3 DEF SkDrop
  <1>5. dropped \in [1..entries -> Nat] /\ pushes \in Nat
    BY DEF SkInv, SkTypeOK
  <1>6. dropped' \in [1..entries -> Nat]
    BY <1>4, <1>5
  <1>7. dropped[b] < pushes
    <2>1. b \in b..entries
      BY <1>3
    <2> QED BY <1>1, <1>2, <1>3, <2>1 DEF SkInv, PushUnderWay
  <1>8. dropped'[b] = dropped[b] + 1 /\ \A e \in 1..entries : e # b => dropped'[e] = dropped[e]
    BY <1>3, <1>4, <1>5
  <1>9. dropped'[b] <= pushes /\ dropped'[b] > 0
    BY <1>3, <1>5, <1>7, <1>8
  <1>10. Settled(b)'
    BY <1>1, <1>3, <1>9 DEF Settled
  <1>11. \A e \in 1..entries : Settled(e) => Settled(e)'
    BY <1>1, <1>8, <1>10 DEF Settled
  <1> QED BY <1>1, <1>3, <1>6, <1>8, <1>9, <1>10, <1>11, RangeSettled

\* The first range is split: the same entries are still to be sent.
LEMMA SkSplitSafe ==
    ASSUME SkInv, SkSplit PROVE SkInv'
  <1>1. /\ at = "posting" /\ Proceed(Halves(Head(ranges)) \o Tail(ranges))
        /\ UNCHANGED <<entries, poison, dropped, pushes>> /\ ~Single(Head(ranges))
        /\ stored \subseteq stored'
    BY DEF SkSplit, batchVars
  <1>2. PICK u : u = Halves(Head(ranges)) \o Tail(ranges)
    OBVIOUS
  <1>3. PICK b \in Nat : b = ranges[1][1]
    BY <1>1, FirstRange
  <1>4. Tiles(u, b) /\ u # <<>> /\ u[1][1] = b /\ Len(u) = Len(ranges) + 1
    BY <1>1, <1>2, <1>3, FirstRange, SplitTiles DEF SkInv
  <1>5. ranges' = u /\ posts' = posts + 1 /\ at' = "posting"
    BY <1>1, <1>2, <1>4 DEF Proceed
  <1>6. Tiles(ranges, ranges[1][1])'
    BY <1>1, <1>4, <1>5 DEF Tiles
  <1>7. /\ entries \in Nat \ {0} /\ posts \in Nat /\ Len(ranges) \in Nat \ {0} /\ b <= entries
        /\ posts + 2 * (entries - b + 1) - Len(ranges) <= 2 * entries - 1
        /\ posts + 1 <= 2 * entries - 1
    <2>1. PICK f \in Nat : f = ranges[1][2]
      BY <1>1, FirstRange
    <2>2. /\ 1 <= b /\ b <= f /\ f <= entries /\ Len(ranges) - 1 <= entries - f
          /\ entries \in Nat \ {0} /\ posts \in Nat /\ Len(ranges) \in Nat \ {0}
          /\ posts + 2 * (entries - b + 1) - Len(ranges) <= 2 * entries - 1
      BY <1>1, <1>3, <2>1, FirstRange
    <2>3. posts + 1 <= 2 * entries - 1
      BY <2>2, Paid
    <2> QED BY <2>2, <2>3
  <1>8. SkTypeOK'
    BY <1>1, <1>5, <1>7 DEF SkInv, SkTypeOK
  <1>9. SplitBounded'
    BY <1>1, <1>5, <1>7 DEF SplitBounded
  <1>10. PushAccounts' /\ DropsCounted'
    BY <1>1, <1>5 DEF SkInv, PushSound, PushAccounts, DropsCounted
  <1>11. posts' + 2 * (entries - b + 1) - Len(ranges') <= 2 * entries - 1
    BY <1>4, <1>5, <1>7
  <1>12. \A e \in 1..(b - 1) : Settled(e)'
    BY <1>1, <1>3 DEF SkInv, PushUnderWay, Settled
  <1>13. \A e \in b..entries : e \in poison => dropped'[e] < pushes
    BY <1>1, <1>3 DEF SkInv, PushUnderWay
  <1>14. PushUnderWay'
    BY <1>1, <1>4, <1>5, <1>6, <1>11, <1>12, <1>13 DEF PushUnderWay
  <1> QED BY <1>8, <1>9, <1>10, <1>14 DEF SkInv, PushSound

\* An attempt fails: the same range again, or the push is over and none is under way.
LEMMA SkFaultSafe ==
    ASSUME SkInv, SkTransient \/ SkOtherStatus \/ SkPermanent PROVE SkInv'
  <1>1. /\ UNCHANGED <<entries, poison, dropped, pushes, posts>>
        /\ at = "posting" /\ stored \subseteq stored'
        /\ (at' = at /\ ranges' = ranges) \/ at' \in {"called", "refused"}
    BY DEF SkTransient, SkOtherStatus, SkPermanent, Retryable, batchVars
  <1>2. SkTypeOK' /\ PushAccounts' /\ DropsCounted' /\ SplitBounded'
    BY <1>1 DEF SkInv, SkTypeOK, PushSound, PushAccounts, DropsCounted, SplitBounded
  <1>3. PushUnderWay'
    <2>1. CASE at' \in {"called", "refused"}
      BY <2>1 DEF PushUnderWay
    <2>2. CASE at' = at /\ ranges' = ranges
      <3>1. Tiles(ranges, ranges[1][1])'
        BY <1>1, <2>2, FirstRange DEF Tiles
      <3>2. \A e \in 1..(ranges[1][1] - 1) : Settled(e)'
        BY <1>1 DEF SkInv, PushUnderWay, Settled
      <3> QED BY <1>1, <2>2, <3>1, <3>2 DEF SkInv, PushUnderWay
    <2> QED BY <1>1, <2>1, <2>2
  <1> QED BY <1>2, <1>3 DEF SkInv, PushSound

\* Every step keeps the invariant.
LEMMA SkStepInv == SkInv /\ [SkNext]_skVars => SkInv'
  <1> SUFFICES ASSUME SkInv, [SkNext]_skVars PROVE SkInv'
    OBVIOUS
  <1>1. CASE UNCHANGED skVars
    BY <1>1 DEF skVars, SkInv, SkTypeOK, PushUnderWay, Tiles, Settled, PushSound, PushAccounts,
                DropsCounted, SplitBounded
  <1>2. CASE SkPush
    BY <1>2, SkPushSafe
  <1>3. CASE SkAccepted
    BY <1>3, SkAcceptedSafe
  <1>4. CASE SkSplit
    BY <1>4, SkSplitSafe
  <1>5. CASE SkDrop
    BY <1>5, SkDropSafe
  <1>6. CASE SkTransient \/ SkOtherStatus \/ SkPermanent
    BY <1>6, SkFaultSafe
  <1> QED BY <1>1, <1>2, <1>3, <1>4, <1>5, <1>6 DEF SkNext, SkStep

\* What a push does to a batch of any size, with any poison in it and any faults: when
\* it returns Loki has every sound entry, each drop is of a poison entry and counted at
\* most once per push, and finding the poison among n entries takes at most 2n - 1
\* requests.
THEOREM PushSoundAlways == SkSpec => []PushSound
  <1>1. SkInv => PushSound
    BY DEF SkInv
  <1> QED BY <1>1, SkInitInv, SkStepInv, PTL DEF SkSpec

-----------------------------------------------------------------------------
(***************************************************************************)
(* LokiSink: the line cap.                                                 *)
(***************************************************************************)

\* A line has finitely many bytes.
LEMMA BytesFinite ==
  ASSUME NEW l \in Seq(Nat)
  PROVE  IsFiniteSet(BytesOf(l)) /\ Bytes(l) \in Nat
  <1> DEFINE per == [i \in DOMAIN l |-> {i} \X (1..l[i])]
             T == {{i} \X (1..l[i]) : i \in DOMAIN l}
  <1>1. IsFiniteSet(DOMAIN l)
    BY FS_Interval
  <1>2. per \in Surjection(DOMAIN l, T)
    BY DEF Surjection
  <1>3. IsFiniteSet(T)
    BY <1>1, <1>2, FS_Surjection
  <1>4. \A i \in DOMAIN l : IsFiniteSet({i} \X (1..l[i]))
    <2> SUFFICES ASSUME NEW i \in DOMAIN l PROVE IsFiniteSet({i} \X (1..l[i]))
      OBVIOUS
    <2>1. IsFiniteSet({i})
      BY FS_Singleton
    <2>2. l[i] \in Int
      OBVIOUS
    <2>3. IsFiniteSet(1..l[i])
      BY <2>2, FS_Interval
    <2> QED
      BY <2>1, <2>3, FS_Product
  <1>5. IsFiniteSet(UNION T)
    BY <1>3, <1>4, FS_UNION
  <1> QED BY <1>5, FS_CardinalityType DEF BytesOf, Bytes

\* One more character adds its width.
LEMMA BytesAppend ==
  ASSUME NEW l \in Seq(Nat), NEW c \in Nat
  PROVE  Append(l, c) \in Seq(Nat) /\ Bytes(Append(l, c)) = Bytes(l) + c
  <1> DEFINE n == Len(l) + 1
             own == {n} \X (1..c)
  <1>0. Append(l, c) \in Seq(Nat)
    OBVIOUS
  <1>1. BytesOf(Append(l, c)) = BytesOf(l) \cup own
    <2>1. DOMAIN Append(l, c) = DOMAIN l \cup {n} /\ Append(l, c)[n] = c
      OBVIOUS
    <2>2. \A i \in DOMAIN l : Append(l, c)[i] = l[i]
      OBVIOUS
    <2> QED BY <2>1, <2>2 DEF BytesOf
  <1>2. BytesOf(l) \cap own = {}
    <2>1. n \notin DOMAIN l
      OBVIOUS
    <2> QED BY <2>1 DEF BytesOf
  <1>3. IsFiniteSet(own) /\ Cardinality(own) = c
    <2>1. IsFiniteSet({n}) /\ Cardinality({n}) = 1
      BY FS_Singleton
    <2>2. IsFiniteSet(1..c) /\ Cardinality(1..c) = c
      BY FS_Interval
    <2>3. IsFiniteSet(own) /\ Cardinality(own) = 1 * c
      BY <2>1, <2>2, FS_Product
    <2> QED BY <2>3
  <1>4. IsFiniteSet(BytesOf(l)) /\ Bytes(l) \in Nat
    BY BytesFinite
  <1>5. Cardinality(BytesOf(l) \cup own)
          = Cardinality(BytesOf(l)) + Cardinality(own) - Cardinality(BytesOf(l) \cap own)
    BY <1>3, <1>4, FS_Union
  <1>6. Cardinality(BytesOf(l) \cap own) = 0
    BY <1>2, FS_EmptySet
  <1>7. Bytes(Append(l, c)) = Bytes(l) + c - 0
    BY <1>1, <1>3, <1>5, <1>6 DEF Bytes
  <1> QED BY <1>0, <1>4, <1>7

\* The prefixes of a line, from nothing, one character at a time.
LEMMA PrefixFacts ==
  ASSUME NEW l \in Seq(Nat)
  PROVE  /\ \A i \in 0..Len(l) : SubSeq(l, 1, i) \in Seq(Nat)
         /\ SubSeq(l, 1, Len(l)) = l
         /\ Bytes(SubSeq(l, 1, 0)) = 0
         /\ \A i \in 0..Len(l) - 1 :
               /\ l[i + 1] \in Nat
               /\ Bytes(SubSeq(l, 1, i + 1)) = Bytes(SubSeq(l, 1, i)) + l[i + 1]
  <1>1. \A i \in 0..Len(l) : SubSeq(l, 1, i) \in Seq(Nat) /\ Len(SubSeq(l, 1, i)) = i
                             /\ \A j \in 1..i : SubSeq(l, 1, i)[j] = l[j]
    OBVIOUS
  <1>2. SubSeq(l, 1, Len(l)) = l
    OBVIOUS
  <1>3. Bytes(SubSeq(l, 1, 0)) = 0
    <2>1. SubSeq(l, 1, 0) = <<>> /\ DOMAIN <<>> = {}
      OBVIOUS
    <2>2. BytesOf(SubSeq(l, 1, 0)) = {}
      BY <2>1 DEF BytesOf
    <2> QED BY <2>2, FS_EmptySet DEF Bytes
  <1>4. ASSUME NEW i \in 0..Len(l) - 1
        PROVE  l[i + 1] \in Nat /\ Bytes(SubSeq(l, 1, i + 1)) = Bytes(SubSeq(l, 1, i)) + l[i + 1]
    <2>1. l[i + 1] \in Nat
      OBVIOUS
    <2>2. SubSeq(l, 1, i + 1) = Append(SubSeq(l, 1, i), l[i + 1])
      OBVIOUS
    <2>3. SubSeq(l, 1, i) \in Seq(Nat)
      BY <1>1
    <2> QED BY <2>1, <2>2, <2>3, BytesAppend
  <1> QED BY <1>1, <1>2, <1>3, <1>4

\* A set of positions has a last one.
LEMMA LastPosition ==
  ASSUME NEW n \in Nat, NEW I \in SUBSET (0..n), I # {}
  PROVE  Max(I) \in I /\ \A j \in I : j <= Max(I)
  <1> DEFINE T == {n - i : i \in I}
  <1>1. T \subseteq Nat /\ T # {}
    OBVIOUS
  <1>2. PICK x \in T : \A y \in T : ~(<<y, x>> \in OpToRel(<, Nat))
    BY <1>1, NatLessThanWellFounded, WFMin
  <1>3. \A y \in T : ~(y < x)
    BY <1>1, <1>2 DEF OpToRel
  <1>4. PICK i \in I : x = n - i
    OBVIOUS
  <1>5. \A j \in I : n - j \in T /\ j \in Nat
    OBVIOUS
  <1>6. \A j \in I : i >= j
    BY <1>3, <1>4, <1>5
  <1>7. Max(I) \in I /\ \A j \in I : Max(I) >= j
    BY <1>6 DEF Max
  <1> QED BY <1>5, <1>7

\* What encoded[:n].decode(errors="ignore") keeps: as many whole characters as fit.
LEMMA CutFacts ==
  ASSUME NEW l \in Seq(Nat), NEW n \in Nat
  PROVE  \E m \in 0..Len(l) :
            /\ Cut(l, n) = SubSeq(l, 1, m) /\ Cut(l, n) \in Seq(Nat)
            /\ Bytes(Cut(l, n)) \in Nat /\ Bytes(Cut(l, n)) <= n
            /\ m = Len(l) => Cut(l, n) = l
            /\ m # Len(l) => l[m + 1] \in Nat /\ Bytes(Cut(l, n)) + l[m + 1] > n
  <1> DEFINE I == {i \in 0..Len(l) : Bytes(SubSeq(l, 1, i)) <= n}
             m == Max(I)
  <1>0. Len(l) \in Nat
    OBVIOUS
  <1>1. 0 \in I
    BY <1>0, PrefixFacts
  <1>2. m \in I /\ \A j \in I : j <= m
    <2>1. I \in SUBSET (0..Len(l)) /\ I # {}
      BY <1>1
    <2> HIDE DEF I
    <2> QED BY <1>0, <2>1, LastPosition
  <1> HIDE DEF m
  <1>3. Cut(l, n) = SubSeq(l, 1, m)
    BY DEF Cut, m
  <1>4. m \in 0..Len(l) /\ Bytes(SubSeq(l, 1, m)) <= n
    BY <1>2
  <1>5. SubSeq(l, 1, m) \in Seq(Nat) /\ Bytes(SubSeq(l, 1, m)) \in Nat
    BY <1>4, PrefixFacts, BytesFinite
  <1>6. m = Len(l) => SubSeq(l, 1, m) = l
    BY PrefixFacts
  <1>7. ASSUME m # Len(l)
        PROVE  l[m + 1] \in Nat /\ Bytes(SubSeq(l, 1, m)) + l[m + 1] > n
    <2>1. m \in 0..Len(l) - 1 /\ m + 1 \in 0..Len(l)
      BY <1>0, <1>4, <1>7
    <2>2. l[m + 1] \in Nat /\ Bytes(SubSeq(l, 1, m + 1)) = Bytes(SubSeq(l, 1, m)) + l[m + 1]
      BY <2>1, PrefixFacts
    <2>3. m + 1 \notin I
      BY <1>2, <1>4
    <2>4. ~(Bytes(SubSeq(l, 1, m + 1)) <= n)
      BY <2>1, <2>3
    <2> QED BY <1>5, <2>2, <2>4
  <1> QED BY <1>3, <1>4, <1>5, <1>6, <1>7

\* cap_line keeps the type, fits the limit, and keeps what fits.
LEMMA CapLineFacts ==
  ASSUME NEW l \in Seq(Nat), NEW n \in Nat, n > 0
  PROVE  /\ CapLine(l, n) \in Seq(Nat)
         /\ Bytes(CapLine(l, n)) <= n
         /\ Bytes(l) <= n <=> CapLine(l, n) = l
         /\ CapLine(l, n) # l => \E i \in 0..Len(l) - 1 :
               /\ CapLine(l, n) = IF n <= Marker THEN SubSeq(l, 1, i)
                                  ELSE Append(SubSeq(l, 1, i), Marker)
               /\ Bytes(CapLine(l, n)) + l[i + 1] > n
  <1>0. Marker \in Nat /\ Marker > 0 /\ Len(l) \in Nat /\ Bytes(l) \in Nat
    BY BytesFinite, LokiSinkAssumption DEF LokiSinkAssumption
  <1>1. CASE Bytes(l) <= n
    BY <1>1 DEF CapLine
  <1>2. CASE ~(Bytes(l) <= n) /\ n <= Marker
    <2>1. CapLine(l, n) = Cut(l, n)
      BY <1>0, <1>2 DEF CapLine
    <2>2. PICK m \in 0..Len(l) :
            /\ Cut(l, n) = SubSeq(l, 1, m) /\ Cut(l, n) \in Seq(Nat)
            /\ Bytes(Cut(l, n)) \in Nat /\ Bytes(Cut(l, n)) <= n
            /\ m = Len(l) => Cut(l, n) = l
            /\ m # Len(l) => l[m + 1] \in Nat /\ Bytes(Cut(l, n)) + l[m + 1] > n
      BY CutFacts
    <2>3. m # Len(l)
      BY <1>2, <2>2
    <2>4. m \in 0..Len(l) - 1
      BY <1>0, <2>3
    <2> QED BY <1>2, <2>1, <2>2, <2>3, <2>4
  <1>3. CASE ~(Bytes(l) <= n) /\ ~(n <= Marker)
    <2>0. n - Marker \in Nat /\ ~(n - Marker <= 0)
      BY <1>0, <1>3
    <2> DEFINE cut == Cut(l, n - Marker)
    <2>1. CapLine(l, n) = Append(cut, Marker)
      BY <1>0, <1>3, <2>0 DEF CapLine
    <2>2. PICK m \in 0..Len(l) :
            /\ cut = SubSeq(l, 1, m) /\ cut \in Seq(Nat)
            /\ Bytes(cut) \in Nat /\ Bytes(cut) <= n - Marker
            /\ m = Len(l) => cut = l
            /\ m # Len(l) => l[m + 1] \in Nat /\ Bytes(cut) + l[m + 1] > n - Marker
      BY <2>0, CutFacts
    <2>3. m # Len(l)
      BY <1>0, <1>3, <2>2
    <2>4. m \in 0..Len(l) - 1
      BY <1>0, <2>3
    <2> HIDE DEF cut
    <2>5. Append(cut, Marker) \in Seq(Nat) /\ Bytes(Append(cut, Marker)) = Bytes(cut) + Marker
      BY <1>0, <2>2, BytesAppend
    <2>6. Bytes(CapLine(l, n)) <= n /\ Bytes(CapLine(l, n)) + l[m + 1] > n
      BY <1>0, <2>1, <2>2, <2>3, <2>5
    <2>7. CapLine(l, n) # l
      BY <1>3, <2>6
    <2>8. CapLine(l, n) = IF n <= Marker THEN SubSeq(l, 1, m) ELSE Append(SubSeq(l, 1, m), Marker)
      BY <1>3, <2>1, <2>2
    <2> QED BY <1>3, <2>1, <2>4, <2>5, <2>6, <2>7, <2>8
  <1> QED BY <1>1, <1>2, <1>3

\* The line stays as it was read until a push caps it, and is capped once.
CapInv ==
    /\ line \in Seq(Nat) /\ limit \in Nat
    /\ capped = line \/ capped = CapLine(line, limit)
    /\ at = "posting" => capped = CapLine(line, limit)

\* Capping a capped line changes nothing.
LEMMA CapAgain ==
  ASSUME CapInv
  PROVE  CapLine(capped, limit) = CapLine(line, limit)
  <1>1. CASE limit > 0
    <2>1. Bytes(CapLine(line, limit)) <= limit
      BY <1>1, CapLineFacts DEF CapInv
    <2>2. CapLine(CapLine(line, limit), limit) = CapLine(line, limit)
      BY <2>1 DEF CapLine
    <2> QED BY <2>2 DEF CapInv
  <1>2. CASE ~(limit > 0)
    <2>1. limit <= 0
      BY <1>2 DEF CapInv
    <2> QED BY <2>1 DEF CapLine, CapInv
  <1> QED BY <1>1, <1>2

\* Initially the line is as it was read.
LEMMA CapInitInv == SkInit => CapInv
  <1> SUFFICES ASSUME SkInit PROVE CapInv
    OBVIOUS
  <1>1. line \in Seq(Nat)
    <2>1. line = <<>> \/ line \in BoundedSeq({1, 3}, MaxChars)
      BY DEF SkInit
    <2>2. ASSUME line \in BoundedSeq({1, 3}, MaxChars) PROVE line \in Seq(Nat)
      <3>1. PICK m \in 0..MaxChars : line \in [1..m -> {1, 3}]
        BY <2>2 DEF BoundedSeq, SeqOf
      <3>2. m \in Nat /\ line \in [1..m -> Nat]
        BY <3>1
      <3> QED BY <3>2, SeqDef
    <2>3. <<>> \in Seq(Nat)
      OBVIOUS
    <2> QED BY <2>1, <2>2, <2>3
  <1>2. limit \in Nat
    <2>1. limit \in LineLimits \/ limit = 0
      BY DEF SkInit
    <2>2. LineLimits \subseteq Nat
      BY LokiSinkAssumption
    <2>3. CASE limit \in LineLimits
      BY <2>2, <2>3, Zenon
    <2>4. CASE limit = 0
      BY <2>4
    <2> QED BY <2>1, <2>3, <2>4
  <1>3. capped = line /\ at # "posting"
    BY DEF SkInit
  <1> QED BY <1>1, <1>2, <1>3 DEF CapInv

\* Every push, split and retry keeps the line, or caps it once more.
LEMMA CapStepInv == CapInv /\ [SkNext]_skVars => CapInv'
  <1> SUFFICES ASSUME CapInv, [SkNext]_skVars PROVE CapInv'
    OBVIOUS
  <1>1. UNCHANGED <<line, limit>>
    BY DEF SkNext, SkStep, SkPush, SkAccepted, SkSplit, SkDrop, SkPermanent, SkTransient,
           SkOtherStatus, batchVars, skVars
  <1>2. UNCHANGED capped \/ CapLines
    BY DEF SkNext, SkStep, SkPush, SkAccepted, SkSplit, SkDrop, SkPermanent, SkTransient,
           SkOtherStatus, Proceed, skVars
  <1>3. at' = "posting" => at = "posting" \/ CapLines
    BY DEF SkNext, SkStep, SkPush, SkAccepted, SkSplit, SkDrop, SkPermanent, SkTransient,
           SkOtherStatus, Retryable, Proceed, skVars
  <1>4. CapLine(capped, limit) = CapLine(line, limit)
    BY CapAgain
  <1>5. CapLines => capped' = CapLine(line, limit)
    BY <1>4 DEF CapLines
  <1>6. CapLine(line, limit)' = CapLine(line, limit)
    BY <1>1
  <1> QED BY <1>1, <1>2, <1>3, <1>5, <1>6 DEF CapInv

\* The line cap (shaping.cap_line and LokiSink._cap_lines), for lines and limits of any
\* size: what is sent fits, is cut between two characters, keeps all that fits beside the
\* marker, and is the same in every split and retry.
THEOREM LineCappedAlways == SkSpec => []LineCapped
  <1>1. CapInv => LineCapped
    <2> SUFFICES ASSUME CapInv, at = "posting", limit > 0 PROVE LineCapped
      BY DEF LineCapped
    <2>1. capped = CapLine(line, limit) /\ line \in Seq(Nat) /\ limit \in Nat
      BY DEF CapInv
    <2> QED BY <2>1, CapLineFacts DEF LineCapped
  <1> QED BY <1>1, CapInitInv, CapStepInv, PTL DEF SkSpec

-----------------------------------------------------------------------------
(***************************************************************************)
(* OrgAuth: the lock of an org's token, and what a retry relies on.        *)
(***************************************************************************)

\* The variables of the sessions have their types.
OaTypeOK ==
    /\ cached \in [Orgs -> {"none", "live", "ended", "old"}]
    /\ lock \in [Orgs -> Seq(Tasks)]
    /\ doing \in [Tasks -> {"start", "idle", "lock", "mint", "sent"}]
    /\ token \in [Tasks -> {"none", "live", "ended"}]
    /\ retried \in [Tasks -> BOOLEAN]
    /\ unlucky \in [Tasks -> BOOLEAN]

\* Who waits for the lock is in its queue, and who mints is at the head of it.
Queued ==
    \A t \in Tasks :
        /\ doing[t] \in {"lock", "mint"} => \E i \in 1..Len(lock[OrgOf[t]]) : lock[OrgOf[t]][i] = t
        /\ doing[t] = "mint" => lock[OrgOf[t]][1] = t

\* Nobody mints while a valid token is cached.
MintsInvalid == \A t \in Tasks : doing[t] = "mint" => ~HasToken(OrgOf[t])

\* A retry is under way from the 401 on; no token that had ended by then is cached for
\* it, or has been handed to it, unless Salesforce has ended the sessions again since.
RetryFresh ==
    \A t \in Tasks : retried[t] =>
        /\ doing[t] \in {"lock", "mint", "sent"}
        /\ unlucky[t] \/ doing[t] = "sent" \/ cached[OrgOf[t]] # "ended"
        /\ unlucky[t] \/ doing[t] # "sent" \/ token[t] # "ended"

\* Nothing is under way before the startup probe is over.
ProbeFirst == phase = "probe" => \A t \in Tasks : doing[t] = "start"

OaInv == OaTypeOK /\ Queued /\ MintsInvalid /\ RetryFresh /\ ProbeFirst

\* What the invariant is for: two tasks that mint would both head the queue.
LEMMA QueuedIsShared == OaInv => SessionsShared
  <1> SUFFICES ASSUME OaInv PROVE SessionsShared
    OBVIOUS
  <1>1. MintsWhenNeeded
    BY DEF OaInv, Queued, MintsInvalid, MintsWhenNeeded
  <1>2. RetrySucceeds
    BY DEF OaInv, RetryFresh, RetrySucceeds
  <1> QED BY <1>1, <1>2 DEF SessionsShared

-----------------------------------------------------------------------------

\* A process with nothing in memory.
LEMMA RestartedInv ==
    ASSUME Restarted PROVE OaInv'
  <1>1. OaTypeOK'
    <2>1. lock' \in [Orgs -> Seq(Tasks)]
      BY DEF Restarted
    <2> QED BY <2>1 DEF Restarted, OaTypeOK
  <1> QED BY <1>1 DEF Restarted, OaInv, Queued, MintsInvalid, RetryFresh, ProbeFirst

\* The process starts.
LEMMA OaInitInv == OaInit => OaInv
  <1> SUFFICES ASSUME OaInit PROVE OaInv
    OBVIOUS
  <1>1. OaTypeOK
    <2>1. lock \in [Orgs -> Seq(Tasks)]
      BY DEF OaInit
    <2> QED BY <2>1 DEF OaInit, OaTypeOK
  <1> QED BY <1>1 DEF OaInit, OaInv, Queued, MintsInvalid, RetryFresh, ProbeFirst

\* The step of a task t in its org's queue, in the words of the invariant: t goes to
\* a place that fits the queue, and the queue loses at most t, when t headed it.
LEMMA TaskStep ==
    ASSUME OaInv, OaTypeOK', NEW t \in Tasks, phase' = "run",
           \A u \in Tasks \ {t} : /\ doing'[u] = doing[u] /\ token'[u] = token[u]
                                  /\ retried'[u] = retried[u] /\ unlucky'[u] = unlucky[u],
           \A o \in Orgs \ {OrgOf[t]} : cached'[o] = cached[o] /\ lock'[o] = lock[o],
           \A u \in Tasks \ {t} :
               (\E i \in 1..Len(lock[OrgOf[t]]) : lock[OrgOf[t]][i] = u)
                   => \E i \in 1..Len(lock'[OrgOf[t]]) : lock'[OrgOf[t]][i] = u,
           \A u \in Tasks \ {t} :
               doing[u] = "mint" /\ OrgOf[u] = OrgOf[t] =>
                   lock'[OrgOf[t]][1] = u /\ cached'[OrgOf[t]] \notin {"live", "ended"},
           cached'[OrgOf[t]] = "ended" => cached[OrgOf[t]] = "ended",
           doing'[t] \in {"lock", "mint"} =>
               \E i \in 1..Len(lock'[OrgOf[t]]) : lock'[OrgOf[t]][i] = t,
           doing'[t] = "mint" =>
               lock'[OrgOf[t]][1] = t /\ cached'[OrgOf[t]] \notin {"live", "ended"},
           retried'[t] =>
               /\ doing'[t] \in {"lock", "mint", "sent"}
               /\ unlucky'[t] \/ doing'[t] = "sent" \/ cached'[OrgOf[t]] # "ended"
               /\ unlucky'[t] \/ doing'[t] # "sent" \/ token'[t] # "ended"
    PROVE  OaInv'
  <1>1. OrgOf \in [Tasks -> Orgs]
    BY OrgAuthAssumption
  <1>2. Queued'
    <2> SUFFICES ASSUME NEW u \in Tasks
                 PROVE  /\ doing'[u] \in {"lock", "mint"} =>
                              \E i \in 1..Len(lock'[OrgOf[u]]) : lock'[OrgOf[u]][i] = u
                        /\ doing'[u] = "mint" => lock'[OrgOf[u]][1] = u
      BY DEF Queued
    <2>1. CASE u = t
      BY <2>1
    <2>2. CASE u # t /\ OrgOf[u] = OrgOf[t]
      <3>1. /\ doing[u] \in {"lock", "mint"} => \E i \in 1..Len(lock[OrgOf[t]]) : lock[OrgOf[t]][i] = u
            /\ doing'[u] = doing[u]
        BY <2>2 DEF OaInv, Queued
      <3> QED BY <2>2, <3>1
    <2>3. CASE u # t /\ OrgOf[u] # OrgOf[t]
      <3>1. doing'[u] = doing[u] /\ lock'[OrgOf[u]] = lock[OrgOf[u]]
        BY <1>1, <2>3
      <3> QED BY <3>1 DEF OaInv, Queued
    <2> QED BY <2>1, <2>2, <2>3
  <1>3. MintsInvalid'
    <2> SUFFICES ASSUME NEW u \in Tasks, doing'[u] = "mint"
                 PROVE  cached'[OrgOf[u]] \notin {"live", "ended"}
      BY DEF MintsInvalid, HasToken, Valid
    <2>1. CASE u = t
      BY <2>1
    <2>2. CASE u # t /\ OrgOf[u] = OrgOf[t]
      BY <2>2
    <2>3. CASE u # t /\ OrgOf[u] # OrgOf[t]
      BY <1>1, <2>3 DEF OaInv, MintsInvalid, HasToken, Valid
    <2> QED BY <2>1, <2>2, <2>3
  <1>4. RetryFresh'
    <2> SUFFICES ASSUME NEW u \in Tasks, retried'[u]
                 PROVE  /\ doing'[u] \in {"lock", "mint", "sent"}
                        /\ unlucky'[u] \/ doing'[u] = "sent" \/ cached'[OrgOf[u]] # "ended"
                        /\ unlucky'[u] \/ doing'[u] # "sent" \/ token'[u] # "ended"
      BY DEF RetryFresh
    <2>1. CASE u = t
      BY <2>1
    <2>2. CASE u # t
      <3>1. cached'[OrgOf[u]] = "ended" => cached[OrgOf[u]] = "ended"
        BY <1>1
      <3> QED BY <2>2, <3>1 DEF OaInv, RetryFresh
    <2> QED BY <2>1, <2>2
  <1>5. ProbeFirst'
    BY DEF ProbeFirst
  <1> QED BY <1>2, <1>3, <1>4, <1>5 DEF OaInv

\* A task joins a queue: nobody leaves it, and its head stays, if it has one.
LEMMA QueueJoin ==
    ASSUME NEW S, NEW q \in Seq(S), NEW t \in S
    PROVE  /\ Append(q, t) \in Seq(S)
           /\ \A u : (\E i \in 1..Len(q) : q[i] = u)
                      => \E i \in 1..Len(Append(q, t)) : Append(q, t)[i] = u
           /\ \E i \in 1..Len(Append(q, t)) : Append(q, t)[i] = t
           /\ Append(q, t)[1] = IF q = <<>> THEN t ELSE q[1]
  <1> DEFINE r == Append(q, t)
  <1>1. Len(q) \in Nat /\ (q = <<>> <=> Len(q) = 0)
    BY EmptyLen
  <1>2. r \in Seq(S) /\ Len(r) = Len(q) + 1
    OBVIOUS
  <1>3. /\ \A i \in 1..Len(q) : r[i] = q[i]
        /\ r[Len(q) + 1] = t
    OBVIOUS
  <1> HIDE DEF r
  <1>4. \A i \in 1..Len(q) : i \in 1..Len(r)
    BY <1>1, <1>2
  <1>5. Len(q) + 1 \in 1..Len(r)
    BY <1>1, <1>2
  <1>6. r[1] = IF q = <<>> THEN t ELSE q[1]
    <2>1. CASE q = <<>>
      BY <1>1, <1>3, <2>1
    <2>2. CASE q # <<>>
      <3>1. 1 \in 1..Len(q)
        BY <1>1, <2>2
      <3> QED BY <1>3, <2>2, <3>1
    <2> QED BY <2>1, <2>2
  <1>7. \A u : (\E i \in 1..Len(q) : q[i] = u) => \E i \in 1..Len(r) : r[i] = u
    BY <1>3, <1>4
  <1>8. \E i \in 1..Len(r) : r[i] = t
    BY <1>3, <1>5
  <1> QED BY <1>2, <1>6, <1>7, <1>8 DEF r

\* The head of a queue leaves it, and nobody else.
LEMMA QueueLeave ==
    ASSUME NEW S, NEW q \in Seq(S), q # <<>>
    PROVE  /\ Tail(q) \in Seq(S)
           /\ \A u : u # q[1] /\ (\E i \in 1..Len(q) : q[i] = u)
                      => \E i \in 1..Len(Tail(q)) : Tail(q)[i] = u
  <1>1. /\ Len(q) \in Nat \ {0} /\ Tail(q) \in Seq(S) /\ Len(Tail(q)) = Len(q) - 1
        /\ \A i \in 1..(Len(q) - 1) : Tail(q)[i] = q[i + 1]
    BY FirstRest
  <1>2. ASSUME NEW u, u # q[1], NEW i \in 1..Len(q), q[i] = u
        PROVE  \E j \in 1..Len(Tail(q)) : Tail(q)[j] = u
    <2>1. i - 1 \in 1..(Len(q) - 1) /\ (i - 1) + 1 = i
      BY <1>1, <1>2
    <2>2. Tail(q)[i - 1] = u
      BY <1>1, <1>2, <2>1
    <2> QED BY <1>1, <2>1, <2>2
  <1> QED BY <1>1, <1>2

\* Who is in a queue finds it not empty; who mints is its head.
LEMMA QueueHead ==
    ASSUME OaInv, NEW t \in Tasks, doing[t] \in {"lock", "mint"}
    PROVE  /\ OrgOf[t] \in Orgs /\ lock[OrgOf[t]] \in Seq(Tasks)
           /\ lock[OrgOf[t]] # <<>> /\ Head(lock[OrgOf[t]]) = lock[OrgOf[t]][1]
           /\ doing[t] = "mint" => lock[OrgOf[t]][1] = t
  <1>1. OrgOf[t] \in Orgs /\ lock[OrgOf[t]] \in Seq(Tasks)
    BY OrgAuthAssumption DEF OaInv, OaTypeOK
  <1>2. PICK i \in 1..Len(lock[OrgOf[t]]) : lock[OrgOf[t]][i] = t
    BY DEF OaInv, Queued
  <1>3. lock[OrgOf[t]] # <<>>
    BY <1>1, <1>2, EmptyLen
  <1> QED BY <1>1, <1>3, FirstRest DEF OaInv, Queued

\* A task calls token(), for a poll or, having invalidated the cache, for the retry
\* after a 401.
LEMMA CallsTokenSafe ==
    ASSUME OaInv, NEW t \in Tasks, phase' = "run", CallsToken(t), UNCHANGED unlucky,
           doing[t] \in {"idle", "sent"},
           \/ UNCHANGED <<cached, retried>> /\ ~retried[t]
           \/ /\ cached' = [cached EXCEPT ![OrgOf[t]] = "none"]
              /\ retried' = [retried EXCEPT ![t] = TRUE]
    PROVE  OaInv'
  <1>1. PICK o \in Orgs : o = OrgOf[t]
    BY OrgAuthAssumption
  <1>2. /\ cached' \in [Orgs -> {"none", "live", "ended", "old"}]
        /\ retried' \in [Tasks -> BOOLEAN]
        /\ \A p \in Orgs \ {o} : cached'[p] = cached[p]
        /\ \A u \in Tasks \ {t} : retried'[u] = retried[u]
        /\ cached'[o] = cached[o] \/ cached'[o] = "none"
        /\ retried'[t] => cached'[o] = "none"
    BY <1>1 DEF OaInv, OaTypeOK
  <1>3. lock[o] \in Seq(Tasks)
    BY DEF OaInv, OaTypeOK
  <1>4. \A u \in Tasks : doing[u] = "mint" /\ OrgOf[u] = o =>
            lock[o] # <<>> /\ lock[o][1] = u /\ cached[o] \notin {"live", "ended"}
    BY QueueHead DEF OaInv, MintsInvalid, HasToken, Valid
  <1>5. CASE Valid(cached'[o])
    <2>1. /\ doing' = [doing EXCEPT ![t] = "sent"] /\ lock' = lock
          /\ token' = [token EXCEPT ![t] = cached'[o]]
          /\ cached'[o] \in {"live", "ended"} /\ ~retried'[t]
      BY <1>1, <1>2, <1>5 DEF CallsToken, Does, Valid
    <2>2. OaTypeOK'
      BY <1>2, <2>1 DEF OaInv, OaTypeOK
    <2>3. /\ doing'[t] = "sent"
          /\ \A u \in Tasks \ {t} : doing'[u] = doing[u] /\ token'[u] = token[u]
      BY <2>1 DEF OaInv, OaTypeOK
    <2> QED BY <1>1, <1>2, <1>4, <2>1, <2>2, <2>3, TaskStep
  <1>6. CASE ~Valid(cached'[o])
    <2>1. /\ doing' = [doing EXCEPT ![t] = IF lock[o] = <<>> THEN "mint" ELSE "lock"]
          /\ token' = [token EXCEPT ![t] = "none"]
          /\ lock' = [lock EXCEPT ![o] = Append(lock[o], t)]
          /\ cached'[o] \notin {"live", "ended"}
      BY <1>1, <1>6 DEF CallsToken, Does, Valid
    <2>2. /\ Append(lock[o], t) \in Seq(Tasks)
          /\ \A u : (\E i \in 1..Len(lock[o]) : lock[o][i] = u)
                     => \E i \in 1..Len(Append(lock[o], t)) : Append(lock[o], t)[i] = u
          /\ \E i \in 1..Len(Append(lock[o], t)) : Append(lock[o], t)[i] = t
          /\ Append(lock[o], t)[1] = IF lock[o] = <<>> THEN t ELSE lock[o][1]
      BY <1>3, QueueJoin
    <2>3. lock'[o] = Append(lock[o], t) /\ \A p \in Orgs \ {o} : lock'[p] = lock[p]
      BY <2>1 DEF OaInv, OaTypeOK
    <2>4. OaTypeOK'
      <3>1. lock' \in [Orgs -> Seq(Tasks)]
        BY <2>1, <2>2 DEF OaInv, OaTypeOK
      <3>2. doing' \in [Tasks -> {"start", "idle", "lock", "mint", "sent"}]
        BY <2>1 DEF OaInv, OaTypeOK
      <3>3. token' \in [Tasks -> {"none", "live", "ended"}]
        BY <2>1 DEF OaInv, OaTypeOK
      <3> QED BY <1>2, <3>1, <3>2, <3>3 DEF OaInv, OaTypeOK
    <2>5. /\ doing'[t] = IF lock[o] = <<>> THEN "mint" ELSE "lock"
          /\ \A u \in Tasks \ {t} : doing'[u] = doing[u] /\ token'[u] = token[u]
      BY <2>1 DEF OaInv, OaTypeOK
    <2>6. cached'[o] # "ended"
      BY <2>1
    <2>7. /\ doing'[t] \in {"lock", "mint"} /\ doing'[t] # "sent"
          /\ \E i \in 1..Len(lock'[o]) : lock'[o][i] = t
          /\ doing'[t] = "mint" => lock'[o][1] = t
          /\ \A u : (\E i \in 1..Len(lock[o]) : lock[o][i] = u)
                     => \E i \in 1..Len(lock'[o]) : lock'[o][i] = u
          /\ \A u \in Tasks \ {t} : doing[u] = "mint" /\ OrgOf[u] = o => lock'[o][1] = u
      BY <1>4, <2>2, <2>3, <2>5
    <2> QED BY <1>1, <1>2, <2>1, <2>3, <2>4, <2>5, <2>6, <2>7, TaskStep
  <1> QED BY <1>5, <1>6

\* A task that holds the lock gets a token, or gives up, and releases it: nobody else
\* of the org was minting.
LEMMA ReleaseSafe ==
    ASSUME OaInv, NEW t \in Tasks, phase' = "run", OaTypeOK',
           doing[t] \in {"lock", "mint"}, lock[OrgOf[t]][1] = t, Release(OrgOf[t]),
           \A u \in Tasks \ {t} : /\ doing'[u] = doing[u] /\ token'[u] = token[u]
                                  /\ retried'[u] = retried[u] /\ unlucky'[u] = unlucky[u],
           \A o \in Orgs \ {OrgOf[t]} : cached'[o] = cached[o],
           cached'[OrgOf[t]] = "ended" => cached[OrgOf[t]] = "ended",
           doing'[t] \notin {"lock", "mint"},
           retried'[t] => doing'[t] = "sent" /\ (unlucky'[t] \/ token'[t] # "ended")
    PROVE  OaInv'
  <1> DEFINE o == OrgOf[t]
  <1>1. o \in Orgs /\ lock[o] \in Seq(Tasks) /\ lock[o] # <<>>
    BY QueueHead
  <1>2. lock'[o] = Tail(lock[o]) /\ \A p \in Orgs \ {o} : lock'[p] = lock[p]
    BY <1>1 DEF Release, OaInv, OaTypeOK
  <1>3. \A u \in Tasks \ {t} : (\E i \in 1..Len(lock[o]) : lock[o][i] = u)
                                => \E i \in 1..Len(lock'[o]) : lock'[o][i] = u
    BY <1>1, <1>2, QueueLeave
  <1>4. \A u \in Tasks \ {t} : doing[u] = "mint" /\ OrgOf[u] = o =>
            lock'[o][1] = u /\ cached'[o] \notin {"live", "ended"}
    BY QueueHead
  <1>5. \A p \in Orgs \ {o} : cached'[p] = cached[p] /\ lock'[p] = lock[p]
    BY <1>2
  <1>6. /\ doing'[t] \in {"lock", "mint"} => \E i \in 1..Len(lock'[o]) : lock'[o][i] = t
        /\ doing'[t] = "mint" => lock'[o][1] = t /\ cached'[o] \notin {"live", "ended"}
        /\ retried'[t] =>
               /\ doing'[t] \in {"lock", "mint", "sent"}
               /\ unlucky'[t] \/ doing'[t] = "sent" \/ cached'[o] # "ended"
               /\ unlucky'[t] \/ doing'[t] # "sent" \/ token'[t] # "ended"
    OBVIOUS
  <1> HIDE DEF o
  <1> QED BY <1>3, <1>4, <1>5, <1>6, TaskStep DEF o

\* A task starts, or finishes a request it has sent: it is in no queue.
LEMMA OutOfQueueSafe ==
    ASSUME OaInv, NEW t \in Tasks, phase' = "run", UNCHANGED <<cached, lock>>,
           NEW next \in {"start", "idle"}, Does(t, next), ~retried'[t], OaTypeOK',
           \A u \in Tasks \ {t} : /\ token'[u] = token[u]
                                  /\ retried'[u] = retried[u] /\ unlucky'[u] = unlucky[u]
    PROVE  OaInv'
  <1>1. doing'[t] = next /\ \A u \in Tasks \ {t} : doing'[u] = doing[u]
    BY DEF Does, OaInv, OaTypeOK
  <1>2. \A u \in Tasks \ {t} : doing[u] = "mint" /\ OrgOf[u] = OrgOf[t] =>
            lock'[OrgOf[t]][1] = u /\ cached'[OrgOf[t]] \notin {"live", "ended"}
    BY DEF OaInv, Queued, MintsInvalid, HasToken, Valid
  <1>3. doing'[t] \notin {"lock", "mint"}
    BY <1>1
  <1> QED BY <1>1, <1>2, <1>3, TaskStep

\* Over resets the retry of one task and leaves the others alone.
LEMMA OverOne ==
    ASSUME OaInv, NEW t \in Tasks, NEW next \in {"start", "idle"}, Over(t, next)
    PROVE  /\ ~retried'[t] /\ doing'[t] = next
           /\ token' \in [Tasks -> {"none", "live", "ended"}]
           /\ retried' \in [Tasks -> BOOLEAN] /\ unlucky' \in [Tasks -> BOOLEAN]
           /\ doing' \in [Tasks -> {"start", "idle", "lock", "mint", "sent"}]
           /\ \A u \in Tasks \ {t} : /\ doing'[u] = doing[u] /\ token'[u] = token[u]
                                      /\ retried'[u] = retried[u] /\ unlucky'[u] = unlucky[u]
  <1>1. doing' = [doing EXCEPT ![t] = next] /\ token' = [token EXCEPT ![t] = "none"]
        /\ retried' = [retried EXCEPT ![t] = FALSE] /\ unlucky' = [unlucky EXCEPT ![t] = FALSE]
    BY DEF Over, Does
  <1> QED BY <1>1 DEF OaInv, OaTypeOK

\* A task runs only after the probe.
LEMMA OaStartSafe ==
    ASSUME OaInv, NEW t \in Tasks, OaStart(t) PROVE OaInv'
  <1>1. /\ phase' = "run" /\ doing[t] = "start" /\ Does(t, "idle")
        /\ UNCHANGED <<cached, lock, token, retried, unlucky>>
    BY DEF OaStart, Runs
  <1>2. ~retried[t]
    BY <1>1 DEF OaInv, RetryFresh
  <1>3. OaTypeOK'
    BY <1>1 DEF Does, OaInv, OaTypeOK
  <1> QED BY <1>1, <1>2, <1>3, OutOfQueueSafe

\* The next poll asks for a token.
LEMMA OaRequestSafe ==
    ASSUME OaInv, NEW t \in Tasks, OaRequest(t) PROVE OaInv'
  <1>1. /\ phase' = "run" /\ doing[t] = "idle" /\ CallsToken(t)
        /\ UNCHANGED <<cached, retried, unlucky>>
    BY DEF OaRequest, Runs
  <1>2. ~retried[t]
    BY <1>1 DEF OaInv, RetryFresh
  <1> QED BY <1>1, <1>2, CallsTokenSafe

\* The lock is ours.
LEMMA OaLockedSafe ==
    ASSUME OaInv, NEW t \in Tasks, OaLocked(t) PROVE OaInv'
  <1> DEFINE o == OrgOf[t]
  <1>1. /\ phase' = "run" /\ doing[t] = "lock" /\ Head(lock[o]) = t
        /\ UNCHANGED <<cached, retried, unlucky>>
    BY DEF OaLocked, Runs
  <1>2. o \in Orgs /\ lock[o] \in Seq(Tasks) /\ lock[o] # <<>> /\ lock[o][1] = t
    BY <1>1, QueueHead
  <1>3. CASE /\ HasToken(o) /\ Does(t, "sent") /\ Release(o)
             /\ token' = [token EXCEPT ![t] = cached[o]]
    <2>1. /\ doing'[t] = "sent" /\ token'[t] = cached[o] /\ cached[o] \in {"live", "ended"}
          /\ \A u \in Tasks \ {t} : doing'[u] = doing[u] /\ token'[u] = token[u]
      BY <1>3 DEF Does, HasToken, Valid, OaInv, OaTypeOK
    <2>2. Tail(lock[o]) \in Seq(Tasks)
      BY <1>2, QueueLeave
    <2>3. lock' \in [Orgs -> Seq(Tasks)]
      BY <1>3, <2>2 DEF Release, OaInv, OaTypeOK
    <2>4. doing' \in [Tasks -> {"start", "idle", "lock", "mint", "sent"}]
      BY <1>3 DEF Does, OaInv, OaTypeOK
    <2>5. token' \in [Tasks -> {"none", "live", "ended"}]
      BY <1>3, <2>1 DEF OaInv, OaTypeOK
    <2>6. OaTypeOK'
      BY <1>1, <2>3, <2>4, <2>5 DEF OaInv, OaTypeOK
    <2>7. retried[t] => unlucky[t] \/ cached[o] # "ended"
      BY <1>1 DEF OaInv, RetryFresh
    <2>8. retried'[t] => doing'[t] = "sent" /\ (unlucky'[t] \/ token'[t] # "ended")
      BY <1>1, <2>1, <2>7
    <2>9. doing'[t] \notin {"lock", "mint"}
      BY <2>1
    <2> QED BY <1>1, <1>2, <1>3, <2>1, <2>6, <2>8, <2>9, ReleaseSafe
  <1>4. CASE ~HasToken(o) /\ Does(t, "mint") /\ UNCHANGED <<token, lock>>
    <2>1. doing'[t] = "mint" /\ \A u \in Tasks \ {t} : doing'[u] = doing[u]
      BY <1>4 DEF Does, OaInv, OaTypeOK
    <2>2. OaTypeOK'
      BY <1>1, <1>4 DEF Does, OaInv, OaTypeOK
    <2>3. cached'[o] \notin {"live", "ended"}
      BY <1>1, <1>4 DEF HasToken, Valid
    <2>4. \E i \in 1..Len(lock'[o]) : lock'[o][i] = t
      BY <1>1, <1>4 DEF OaInv, Queued
    <2>5. \A u \in Tasks \ {t} : doing[u] = "mint" /\ OrgOf[u] = o =>
              lock'[o][1] = u /\ cached'[o] \notin {"live", "ended"}
      BY <1>2, QueueHead
    <2>6. cached'[o] # "ended"
      BY <2>3
    <2>7. lock'[o][1] = t
      BY <1>2, <1>4
    <2> QED BY <1>1, <1>4, <2>1, <2>2, <2>3, <2>4, <2>5, <2>6, <2>7, TaskStep
  <1> QED BY <1>3, <1>4 DEF OaLocked, CheckedTwice

\* A token is minted and cached.
LEMMA OaMintSafe ==
    ASSUME OaInv, NEW t \in Tasks, OaMint(t) PROVE OaInv'
  <1> DEFINE o == OrgOf[t]
  <1>1. /\ phase' = "run" /\ doing[t] = "mint" /\ Does(t, "sent") /\ Release(o)
        /\ cached' = [cached EXCEPT ![o] = "live"]
        /\ token' = [token EXCEPT ![t] = "live"]
        /\ UNCHANGED <<retried, unlucky>>
    BY DEF OaMint, Runs
  <1>2. o \in Orgs /\ lock[o] \in Seq(Tasks) /\ lock[o] # <<>> /\ lock[o][1] = t
    BY <1>1, QueueHead
  <1>3. Tail(lock[o]) \in Seq(Tasks)
    BY <1>2, QueueLeave
  <1>4. OaTypeOK'
    <2>1. lock' \in [Orgs -> Seq(Tasks)]
      BY <1>1, <1>3 DEF Release, OaInv, OaTypeOK
    <2>2. doing' \in [Tasks -> {"start", "idle", "lock", "mint", "sent"}]
      BY <1>1 DEF Does, OaInv, OaTypeOK
    <2>3. /\ token' \in [Tasks -> {"none", "live", "ended"}]
          /\ cached' \in [Orgs -> {"none", "live", "ended", "old"}]
      BY <1>1 DEF OaInv, OaTypeOK
    <2> QED BY <1>1, <2>1, <2>2, <2>3 DEF OaInv, OaTypeOK
  <1>5. /\ doing'[t] = "sent" /\ token'[t] = "live"
        /\ \A u \in Tasks \ {t} : doing'[u] = doing[u] /\ token'[u] = token[u]
    BY <1>1 DEF Does, OaInv, OaTypeOK
  <1>6. cached'[o] = "live" /\ \A p \in Orgs \ {o} : cached'[p] = cached[p]
    BY <1>1, <1>2 DEF OaInv, OaTypeOK
  <1>7. doing'[t] \notin {"lock", "mint"} /\ cached'[o] # "ended" /\ token'[t] # "ended"
    BY <1>5, <1>6
  <1> QED BY <1>1, <1>2, <1>4, <1>5, <1>6, <1>7, ReleaseSafe

\* Minting fails: the task gives up its place, or the process ends.
LEMMA OaMintFailsSafe ==
    ASSUME OaInv, NEW t \in Tasks, OaMintFails(t) PROVE OaInv'
  <1> DEFINE o == OrgOf[t]
  <1>1. CASE Restarted
    BY <1>1, RestartedInv
  <1>2. CASE ~Restarted
    <2>1. PICK next \in {"start", "idle"} : Over(t, next)
      BY <1>2 DEF OaMintFails, AfterAuthError
    <2>2. /\ phase' = "run" /\ doing[t] = "mint" /\ Release(o) /\ UNCHANGED cached
      BY <1>2 DEF OaMintFails, Runs
    <2>3. o \in Orgs /\ lock[o] \in Seq(Tasks) /\ lock[o] # <<>> /\ lock[o][1] = t
      BY <2>2, QueueHead
    <2>4. Tail(lock[o]) \in Seq(Tasks)
      BY <2>3, QueueLeave
    <2>5. lock' \in [Orgs -> Seq(Tasks)]
      BY <2>2, <2>4 DEF Release, OaInv, OaTypeOK
    <2>6. /\ ~retried'[t] /\ doing'[t] = next
          /\ token' \in [Tasks -> {"none", "live", "ended"}]
          /\ retried' \in [Tasks -> BOOLEAN] /\ unlucky' \in [Tasks -> BOOLEAN]
          /\ doing' \in [Tasks -> {"start", "idle", "lock", "mint", "sent"}]
          /\ \A u \in Tasks \ {t} : /\ doing'[u] = doing[u] /\ token'[u] = token[u]
                                     /\ retried'[u] = retried[u] /\ unlucky'[u] = unlucky[u]
      BY <2>1, OverOne
    <2>7. OaTypeOK'
      BY <2>2, <2>5, <2>6 DEF OaInv, OaTypeOK
    <2>8. doing'[t] \notin {"lock", "mint"}
      BY <2>6
    <2> QED BY <2>2, <2>3, <2>6, <2>7, <2>8, ReleaseSafe
  <1> QED BY <1>1, <1>2

\* A request is over.
LEMMA OaDoneSafe ==
    ASSUME OaInv, NEW t \in Tasks, Runs(t), Over(t, "idle"), UNCHANGED <<phase, cached, lock>>
    PROVE  OaInv'
  <1>1. Does(t, "idle") /\ phase' = "run"
    BY DEF Over, Runs
  <1>2. /\ ~retried'[t]
        /\ token' \in [Tasks -> {"none", "live", "ended"}]
        /\ retried' \in [Tasks -> BOOLEAN] /\ unlucky' \in [Tasks -> BOOLEAN]
        /\ doing' \in [Tasks -> {"start", "idle", "lock", "mint", "sent"}]
        /\ \A u \in Tasks \ {t} : /\ token'[u] = token[u]
                                   /\ retried'[u] = retried[u] /\ unlucky'[u] = unlucky[u]
    BY OverOne
  <1>3. OaTypeOK'
    BY <1>2 DEF OaInv, OaTypeOK
  <1> QED BY <1>1, <1>2, <1>3, OutOfQueueSafe

\* A 401: the retry, or the end of the poll.
LEMMA OaUnauthorizedSafe ==
    ASSUME OaInv, NEW t \in Tasks, OaUnauthorized(t) PROVE OaInv'
  <1>1. CASE retried[t]
    <2>1. Runs(t) /\ Over(t, "idle") /\ UNCHANGED <<phase, cached, lock>>
      BY <1>1 DEF OaUnauthorized
    <2> QED BY <2>1, OaDoneSafe
  <1>2. CASE ~retried[t]
    <2>1. /\ phase' = "run" /\ doing[t] = "sent" /\ CallsToken(t) /\ UNCHANGED unlucky
          /\ cached' = [cached EXCEPT ![OrgOf[t]] = "none"]
          /\ retried' = [retried EXCEPT ![t] = TRUE]
      BY <1>2 DEF OaUnauthorized, Runs, Invalidate
    <2> QED BY <2>1, CallsTokenSafe
  <1> QED BY <1>1, <1>2

\* Salesforce ends the sessions of an org: a valid token stays valid in the cache, and
\* every retry under way is excused.
LEMMA OaRevokeSafe ==
    ASSUME OaInv, NEW o \in Orgs, OaRevoke(o) PROVE OaInv'
  <1>1. /\ cached' = [cached EXCEPT ![o] = IF cached[o] = "live" THEN "ended" ELSE cached[o]]
        /\ token' = [t \in Tasks |->
                        IF OrgOf[t] = o /\ token[t] = "live" THEN "ended" ELSE token[t]]
        /\ unlucky' = [t \in Tasks |-> (OrgOf[t] = o /\ retried[t]) \/ unlucky[t]]
        /\ UNCHANGED <<phase, lock, doing, retried>>
    BY DEF OaRevoke
  <1>2. OaTypeOK'
    <2>1. cached' \in [Orgs -> {"none", "live", "ended", "old"}]
      BY <1>1 DEF OaInv, OaTypeOK
    <2>2. token' \in [Tasks -> {"none", "live", "ended"}]
      BY <1>1 DEF OaInv, OaTypeOK
    <2>3. unlucky' \in [Tasks -> BOOLEAN]
      BY <1>1 DEF OaInv, OaTypeOK
    <2> QED BY <1>1, <2>1, <2>2, <2>3 DEF OaInv, OaTypeOK
  <1>3. \A t \in Tasks : OrgOf[t] \in Orgs
    BY OrgAuthAssumption
  <1>4. Queued' /\ ProbeFirst'
    BY <1>1 DEF OaInv, Queued, ProbeFirst
  <1>5. MintsInvalid'
    BY <1>1, <1>3 DEF OaInv, OaTypeOK, MintsInvalid, HasToken, Valid
  <1>6. RetryFresh'
    <2> SUFFICES ASSUME NEW t \in Tasks, retried[t]
                 PROVE  /\ doing[t] \in {"lock", "mint", "sent"}
                        /\ unlucky'[t] \/ doing[t] = "sent" \/ cached'[OrgOf[t]] # "ended"
                        /\ unlucky'[t] \/ doing[t] # "sent" \/ token'[t] # "ended"
      BY <1>1 DEF RetryFresh
    <2>1. CASE OrgOf[t] = o
      <3>1. unlucky'[t] = TRUE
        BY <1>1, <2>1
      <3> QED BY <3>1 DEF OaInv, RetryFresh
    <2>2. CASE OrgOf[t] # o
      <3>1. cached'[OrgOf[t]] = cached[OrgOf[t]] /\ token'[t] = token[t]
        BY <1>1, <1>3, <2>2 DEF OaInv, OaTypeOK
      <3>2. unlucky[t] => unlucky'[t]
        BY <1>1
      <3> QED BY <3>1, <3>2 DEF OaInv, RetryFresh
    <2> QED BY <2>1, <2>2
  <1> QED BY <1>2, <1>4, <1>5, <1>6 DEF OaInv

\* What else happens to the cache: a probe fills it, and a token grows old.
LEMMA OaCacheSafe ==
    ASSUME OaInv, NEW o \in Orgs, OaProbe(o) \/ OaExpire(o) PROVE OaInv'
  <1>1. /\ UNCHANGED <<phase, lock, doing, token, retried, unlucky>>
        /\ cached' = cached \/ cached' = [cached EXCEPT ![o] = "live"]
                             \/ cached' = [cached EXCEPT ![o] = "old"]
    BY DEF OaProbe, OaExpire
  <1>2. OaTypeOK'
    BY <1>1 DEF OaInv, OaTypeOK
  <1>3. Queued' /\ ProbeFirst'
    BY <1>1 DEF OaInv, Queued, ProbeFirst
  <1>4. \A t \in Tasks : OrgOf[t] \in Orgs
    BY OrgAuthAssumption
  <1>5. RetryFresh'
    BY <1>1, <1>4 DEF OaInv, OaTypeOK, RetryFresh
  <1>6. MintsInvalid'
    <2>1. CASE OaProbe(o)
      <3>1. \A t \in Tasks : doing'[t] # "mint"
        BY <2>1 DEF OaProbe, OaInv, ProbeFirst
      <3> QED BY <3>1 DEF MintsInvalid
    <2>2. CASE OaExpire(o)
      BY <1>4, <2>2 DEF OaExpire, OaInv, OaTypeOK, MintsInvalid, HasToken, Valid
    <2> QED BY <2>1, <2>2
  <1> QED BY <1>2, <1>3, <1>5, <1>6 DEF OaInv

\* A step that leaves the sessions alone.
LEMMA OaAsideSafe ==
    ASSUME OaInv, UNCHANGED <<cached, lock, doing, token, retried, unlucky>>,
           phase' = phase \/ phase' = "run"
    PROVE  OaInv'
  <1>1. OaTypeOK' /\ Queued' /\ RetryFresh'
    BY DEF OaInv, OaTypeOK, Queued, RetryFresh
  <1>2. MintsInvalid' /\ ProbeFirst'
    BY DEF OaInv, MintsInvalid, HasToken, Valid, ProbeFirst
  <1> QED BY <1>1, <1>2 DEF OaInv

\* Every step keeps the invariant.
LEMMA OaStepInv == OaInv /\ [OaNext]_oaVars => OaInv'
  <1> SUFFICES ASSUME OaInv, [OaNext]_oaVars PROVE OaInv'
    OBVIOUS
  <1>1. CASE UNCHANGED oaVars
    BY <1>1, OaAsideSafe DEF oaVars, sessionVars
  <1>2. CASE OaProbed \/ OaRestart
    BY <1>2, OaAsideSafe, RestartedInv DEF OaProbed, OaRestart, sessionVars
  <1>3. ASSUME NEW o \in Orgs, OaProbe(o) \/ OaExpire(o) PROVE OaInv'
    BY <1>3, OaCacheSafe
  <1>4. ASSUME NEW o \in Orgs, OaUpOrDown(o) PROVE OaInv'
    BY <1>4, OaAsideSafe DEF OaUpOrDown, sessionVars
  <1>5. ASSUME NEW o \in Orgs, OaRevoke(o) PROVE OaInv'
    BY <1>5, OaRevokeSafe
  <1>6. ASSUME NEW t \in Tasks, OaTask(t) PROVE OaInv'
    <2>1. CASE OaStart(t) \/ OaRequest(t)
      BY <2>1, OaStartSafe, OaRequestSafe
    <2>2. CASE OaLocked(t)
      BY <2>2, OaLockedSafe
    <2>3. CASE OaMint(t) \/ OaMintFails(t)
      BY <2>3, OaMintSafe, OaMintFailsSafe
    <2>4. CASE OaAnswer(t) \/ OaFails(t)
      BY <2>4, OaDoneSafe DEF OaAnswer, OaFails
    <2>5. CASE OaUnauthorized(t)
      BY <2>5, OaUnauthorizedSafe
    <2> QED BY <1>6, <2>1, <2>2, <2>3, <2>4, <2>5 DEF OaTask
  <1> QED BY <1>1, <1>2, <1>3, <1>4, <1>5, <1>6 DEF OaNext

\* For any orgs, sources and pollers, any revocations, expiries, outages and restarts:
\* one caller of an org mints at a time and never while a valid token is cached, and a
\* retry after a 401 is refused only when the sessions were ended once more.
THEOREM SessionsSharedAlways == OaSpec => []SessionsShared
  BY QueuedIsShared, OaInitInv, OaStepInv, PTL DEF OaSpec
==============================================================================
