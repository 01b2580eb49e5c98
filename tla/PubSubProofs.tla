---------------------------- MODULE PubSubProofs ----------------------------
(* The Pub/Sub source, for any topics, events, queue bounds and faults: the  *)
(* stored replay id never passes an event that was not pushed, and the       *)
(* bridge loses neither bytes nor entries.                                   *)
EXTENDS PubSubSource, FiniteSetTheorems, TLAPS

USE PubSubAssumption

-----------------------------------------------------------------------------
(* Types.                                                                    *)

Items == [topic : Topics \cup {NoTopic}, id : Nat, live : BOOLEAN]
Positions == [loaded : BOOLEAN, preset : {"LATEST", "EARLIEST", "CUSTOM"}, id : Nat]
Streams == [read : Nat, last : Nat, credits : Nat, open : BOOLEAN]
Places == {"off", "head", "load", "connect", "stream", "charge", "put", "sentinel", "ended"}

TypeOrg ==
    /\ log \in [Topics -> Nat] /\ \A t \in Topics : log[t] <= Len(Kept[t])
    /\ oldest \in [Topics -> Nat] /\ \A t \in Topics : oldest[t] \in 1 .. log[t] + 1
TypeOutcome ==
    /\ committed \in [Topics -> Nat]
    /\ delivered \in [Topics -> SUBSET Nat] /\ excused \in [Topics -> SUBSET Nat]
TypeTasks ==
    /\ pc \in [Topics -> Places]
    /\ resume \in [Topics -> Positions]
    /\ conn \in [Topics -> Streams]
    /\ item \in [Topics -> Items]
TypeBridge ==
    /\ queue \in Seq(Items) /\ yielded \in Items
    /\ gen \in {"idle", "get", "yield", "closing"}
    /\ stop \in BOOLEAN /\ cancelled \in BOOLEAN

-----------------------------------------------------------------------------
(* The inductive invariant.                                                  *)

\* Event e of topic t was pushed or given up, is in the pipeline, or is among the
\* first k items of the bridge.
Coming(t, e, k) ==
    \/ e \in delivered[t] \cup excused[t]
    \/ yielded = Entry(t, e, TRUE)
    \/ \E m \in 1 .. k : queue[m] = Entry(t, e, TRUE)
\* Or it waits for its place in the bridge.
InFlight(t, e) == Coming(t, e, Len(queue)) \/ item[t] = Entry(t, e, TRUE)

\* Every event up to n that has a line is accounted for, ahead of place k or anywhere.
AheadUpTo(t, n, k) == n <= log[t] /\ \A e \in 1 .. n : Kept[t][e] => Coming(t, e, k)
HeldUpTo(t, n) == n <= log[t] /\ \A e \in 1 .. n : Kept[t][e] => InFlight(t, e)

\* While the generator runs, what it yields and what the bridge holds can be committed.
Running == gen \in {"get", "yield"}
YieldSound ==
    /\ gen = "get" => yielded = NoItem
    /\ gen = "yield" => yielded.topic \in Topics /\ AheadUpTo(yielded.topic, yielded.id, 0)
QueueSound ==
    Running => \A k \in 1 .. Len(queue) :
                   \/ queue[k] = Sentinel
                   \/ queue[k].topic \in Topics /\ AheadUpTo(queue[k].topic, queue[k].id, k)

\* A task has an item only while it enqueues it, and that is the event it read last.
OwnItem(t) ==
    IF pc[t] \in {"charge", "put"} THEN item[t].topic = t /\ item[t].id = conn[t].read
    ELSE item[t] = NoItem
\* A stream is never ahead of its response, nor that of the log, nor is a position.
OwnStream(t) ==
    /\ resume[t].id <= log[t]
    /\ pc[t] \in {"stream", "charge", "put"} =>
           /\ conn[t].read <= conn[t].last /\ conn[t].last <= log[t]
           /\ ~conn[t].open => conn[t].read = conn[t].last
Settled(t) ==
    /\ committed[t] <= log[t]
    /\ \A e \in 1 .. committed[t] : Kept[t][e] => e \in delivered[t] \cup excused[t]
\* What the stream has read, and what a reconnect would resume after, is held.
StreamHeld(t) == pc[t] \in {"stream", "charge", "put"} => HeldUpTo(t, conn[t].read)
ResumeHeld(t) == resume[t].loaded /\ resume[t].preset = "CUSTOM" => HeldUpTo(t, resume[t].id)
\* Nothing of the topic is under way.
Clean(t) ==
    /\ yielded.topic # t /\ item[t] = NoItem
    /\ \A k \in 1 .. Len(queue) : queue[k].topic # t
\* Where a task has a position.
Placed == {"connect", "stream", "charge", "put"}
\* A task that has not loaded its position, or found none, has nothing under way.
FreshClean(t) ==
    /\ pc[t] = "load" => ~resume[t].loaded
    /\ pc[t] \in Placed => resume[t].loaded
    /\ ~resume[t].loaded => Clean(t)
    /\ resume[t].loaded /\ resume[t].preset = "LATEST" => Clean(t) /\ committed[t] = 0

TopicSound(t) ==
    /\ OwnItem(t) /\ OwnStream(t) /\ Settled(t)
    /\ Running => StreamHeld(t) /\ ResumeHeld(t) /\ FreshClean(t)

PubType == TypeOrg /\ TypeOutcome /\ TypeTasks /\ TypeBridge
PubInv == PubType /\ YieldSound /\ QueueSound /\ \A t \in Topics : TopicSound(t)

-----------------------------------------------------------------------------
(* How events stay accounted for.                                            *)

LEMMA SentinelItem == Sentinel \in Items /\ NoItem \in Items /\ Sentinel.topic \notin Topics
                      /\ \A t \in Topics : \A e : Entry(t, e, TRUE) # Sentinel
BY DEF Sentinel, NoItem, Items, Entry

\* What an event meets on its way through an unchanged or a longer queue.
QueueGrows == queue' = queue \/ \E x \in Items : queue' = Append(queue, x)
NothingLost ==
    /\ UNCHANGED yielded
    /\ \A t \in Topics : delivered[t] \subseteq delivered'[t] /\ excused[t] \subseteq excused'[t]

LEMMA QueuePrefix ==
    ASSUME TypeBridge, QueueGrows
    PROVE  /\ Len(queue') \in Nat /\ Len(queue) \in Nat /\ Len(queue) <= Len(queue')
           /\ \A m \in 1 .. Len(queue) : queue'[m] = queue[m]
<1>1. CASE queue' = queue
  BY <1>1 DEF TypeBridge
<1>2. ASSUME NEW x \in Items, queue' = Append(queue, x)
      PROVE  /\ Len(queue') = Len(queue) + 1 /\ Len(queue) \in Nat
             /\ \A m \in 1 .. Len(queue) : queue'[m] = queue[m]
  BY <1>2 DEF TypeBridge
<1> QED
  BY <1>1, <1>2 DEF QueueGrows, TypeBridge

LEMMA ComingKept ==
    ASSUME TypeBridge, QueueGrows, NothingLost, NEW t \in Topics, NEW e, NEW k \in 0 .. Len(queue),
           Coming(t, e, k)
    PROVE  Coming(t, e, k)'
<1>1. ASSUME NEW m \in 1 .. k PROVE m \in 1 .. Len(queue)
  BY QueuePrefix
<1> QED
  BY <1>1, QueuePrefix DEF Coming, NothingLost

LEMMA ComingLonger ==
    ASSUME NEW t, NEW e, NEW k \in Nat, NEW n \in Nat, k <= n, Coming(t, e, k)
    PROVE  Coming(t, e, n)
<1>1. \A m \in 1 .. k : m \in 1 .. n
  OBVIOUS
<1> QED
  BY <1>1 DEF Coming

\* The item that a task was enqueuing is still there, or in the queue.
ItemKept(t) ==
    \/ item'[t] = item[t]
    \/ queue' = Append(queue, item[t])
    \/ item[t] = NoItem

LEMMA InFlightKept ==
    ASSUME TypeBridge, TypeTasks, QueueGrows, NothingLost, NEW t \in Topics, ItemKept(t),
           NEW e, InFlight(t, e)
    PROVE  InFlight(t, e)'
<1>1. CASE Coming(t, e, Len(queue))
  <2> DEFINE n == Len(queue)
  <2>1. n \in 0 .. Len(queue) /\ n \in Nat
    BY DEF TypeBridge
  <2> HIDE DEF n
  <2>2. PICK k : k = n
    OBVIOUS
  <2>3. Coming(t, e, k)
    BY <1>1, <2>2 DEF n
  <2>4. Coming(t, e, k)'
    BY <2>1, <2>2, <2>3, ComingKept
  <2>5. k \in Nat /\ k <= Len(queue')
    BY <2>1, <2>2, QueuePrefix DEF n
  <2>6. Coming(t, e, Len(queue))'
    <3>1. \A m \in 1 .. k : m \in 1 .. Len(queue')
      BY <2>5, QueuePrefix
    <3> QED
      BY <2>4, <3>1 DEF Coming
  <2> QED
    BY <2>6 DEF InFlight
<1>2. CASE item[t] = Entry(t, e, TRUE)
  <2>1. item[t] # NoItem
    BY <1>2, SentinelItem DEF NoItem
  <2>2. CASE item'[t] = item[t]
    BY <1>2, <2>2 DEF InFlight
  <2>3. CASE queue' = Append(queue, item[t])
    <3>1. item[t] \in Items
      BY DEF TypeTasks
    <3>2. Len(queue') \in 1 .. Len(queue') /\ queue'[Len(queue')] = item[t]
      BY <2>3, <3>1 DEF TypeBridge
    <3>3. Coming(t, e, Len(queue))'
      BY <1>2, <3>2 DEF Coming
    <3> QED
      BY <3>3 DEF InFlight
  <2> QED
    BY <2>1, <2>2, <2>3 DEF ItemKept
<1> QED
  BY <1>1, <1>2 DEF InFlight

\* So what was held is held, and what was ahead of a place is ahead of it.
LEMMA HeldKept ==
    ASSUME TypeBridge, TypeTasks, QueueGrows, NothingLost, NEW t \in Topics, ItemKept(t),
           log \in [Topics -> Nat], log' \in [Topics -> Nat], log[t] <= log'[t],
           NEW n \in Nat, HeldUpTo(t, n)
    PROVE  HeldUpTo(t, n)'
<1>1. n <= log'[t]
  BY DEF HeldUpTo
<1>2. ASSUME NEW e \in 1 .. n, Kept[t][e] PROVE InFlight(t, e)'
  BY <1>2, InFlightKept DEF HeldUpTo
<1> QED
  BY <1>1, <1>2 DEF HeldUpTo

LEMMA AheadKept ==
    ASSUME TypeBridge, QueueGrows, NothingLost, NEW t \in Topics,
           log \in [Topics -> Nat], log' \in [Topics -> Nat], log[t] <= log'[t],
           NEW n \in Nat, NEW k \in 0 .. Len(queue), AheadUpTo(t, n, k)
    PROVE  AheadUpTo(t, n, k)'
<1>1. n <= log'[t]
  BY DEF AheadUpTo
<1>2. ASSUME NEW e \in 1 .. n, Kept[t][e] PROVE Coming(t, e, k)'
  BY <1>2, ComingKept DEF AheadUpTo
<1> QED
  BY <1>1, <1>2 DEF AheadUpTo

\* An entry may join the queue if everything up to it is held.
JoinsHeld ==
    \/ queue' = queue \/ queue' = Append(queue, Sentinel)
    \/ \E t \in Topics : /\ queue' = Append(queue, item[t])
                         /\ item[t].topic = t /\ HeldUpTo(t, item[t].id)

LEMMA QueueSoundKept ==
    ASSUME TypeBridge, TypeTasks, NothingLost, Running, QueueSound, JoinsHeld,
           log \in [Topics -> Nat], log' \in [Topics -> Nat],
           \A t \in Topics : log[t] <= log'[t]
    PROVE  QueueSound'
<1>1. QueueGrows
  BY SentinelItem DEF JoinsHeld, QueueGrows, TypeTasks
<1>2. ASSUME NEW k \in 1 .. Len(queue), queue'[k] # Sentinel
      PROVE  queue'[k].topic \in Topics /\ AheadUpTo(queue[k].topic, queue[k].id, k)'
  <2>1. PICK x : x = queue[k]
    OBVIOUS
  <2>2. queue'[k] = x /\ x \in Items
    BY <1>1, <2>1, QueuePrefix DEF TypeBridge
  <2>3. PICK u, n : u = x.topic /\ n = x.id
    OBVIOUS
  <2>4. u \in Topics /\ n \in Nat /\ AheadUpTo(u, n, k)
    BY <1>2, <2>1, <2>2, <2>3 DEF Items, QueueSound
  <2>5. AheadUpTo(u, n, k)'
    BY <1>1, <2>4, AheadKept
  <2> QED
    BY <2>2, <2>3, <2>4, <2>5
<1>3. ASSUME NEW k \in 1 .. Len(queue'), k \notin 1 .. Len(queue), queue'[k] # Sentinel
      PROVE  queue'[k].topic \in Topics /\ AheadUpTo(queue[k].topic, queue[k].id, k)'
  <2>1. queue' # queue /\ queue' # Append(queue, Sentinel)
    <3>1. queue' = Append(queue, Sentinel) => queue'[k] = Sentinel
      BY <1>3, SentinelItem DEF TypeBridge
    <3> QED
      BY <1>3, <3>1, SentinelItem
  <2>2. PICK t \in Topics : /\ queue' = Append(queue, item[t])
                            /\ item[t].topic = t /\ HeldUpTo(t, item[t].id)
    BY <2>1 DEF JoinsHeld
  <2>3. item[t] \in Items
    BY DEF TypeTasks
  <2>4. k = Len(queue') /\ queue'[k] = item[t]
    BY <1>3, <2>2, <2>3 DEF TypeBridge
  <2>5. PICK n : n = item[t].id
    OBVIOUS
  <2>6. n \in Nat
    BY <2>3, <2>5 DEF Items
  <2>7. n <= log'[t]
    BY <2>2, <2>5, <2>6 DEF HeldUpTo
  <2>8. ASSUME NEW e \in 1 .. n, Kept[t][e] PROVE Coming(t, e, k)'
    <3>1. InFlight(t, e)
      BY <2>2, <2>5, <2>8 DEF HeldUpTo
    <3>2. CASE item[t] = Entry(t, e, TRUE)
      <4>1. k \in 1 .. k
        BY <1>3, <2>4, QueuePrefix, <1>1
      <4> QED
        BY <2>4, <3>2, <4>1 DEF Coming
    <3>3. CASE Coming(t, e, Len(queue))
      <4>1. PICK l : l = Len(queue)
        OBVIOUS
      <4>2. l \in 0 .. Len(queue) /\ l <= k /\ k \in Nat
        BY <1>1, <2>4, <4>1, QueuePrefix
      <4>3. Coming(t, e, l)'
        BY <1>1, <3>3, <4>1, <4>2, ComingKept
      <4>4. \A m \in 1 .. l : m \in 1 .. k
        BY <4>2
      <4> QED
        BY <4>3, <4>4 DEF Coming
    <3> QED
      BY <3>1, <3>2, <3>3 DEF InFlight
  <2>9. AheadUpTo(t, n, k)'
    BY <2>7, <2>8 DEF AheadUpTo
  <2> QED
    BY <2>2, <2>4, <2>5, <2>9
<1> QED
  BY <1>2, <1>3 DEF QueueSound

-----------------------------------------------------------------------------
(* A step of one topic's task.                                               *)

\* The other topics' tasks are left alone, and so is the generator.
OnlyTopic(t) ==
    /\ \A u \in Topics \ {t} : /\ pc'[u] = pc[u] /\ resume'[u] = resume[u]
                               /\ conn'[u] = conn[u] /\ item'[u] = item[u]
                               /\ committed'[u] = committed[u]
    /\ UNCHANGED <<gen, yielded, delivered, log>>
    /\ \A u \in Topics : excused[u] \subseteq excused'[u]

\* An entry of topic t joins the queue at most while t enqueues it.
TopicJoins(t) ==
    \/ queue' = queue \/ queue' = Append(queue, Sentinel)
    \/ queue' = Append(queue, item[t]) /\ pc[t] \in {"charge", "put"}

LEMMA OnlyTopicFrame ==
    ASSUME PubInv, NEW t \in Topics, OnlyTopic(t), TopicJoins(t)
    PROVE  QueueGrows /\ NothingLost /\ UNCHANGED log /\ (Running => JoinsHeld) /\ Running' = Running
<1>1. item[t] \in Items
  BY DEF PubInv, PubType, TypeTasks
<1>2. QueueGrows
  BY <1>1, SentinelItem DEF TopicJoins, QueueGrows
<1>3. NothingLost
  BY DEF OnlyTopic, NothingLost
<1>4. ASSUME Running, pc[t] \in {"charge", "put"} PROVE item[t].topic = t /\ HeldUpTo(t, item[t].id)
  BY <1>4 DEF PubInv, TopicSound, OwnItem, StreamHeld
<1> QED
  BY <1>2, <1>3, <1>4 DEF OnlyTopic, TopicJoins, JoinsHeld, Running

LEMMA OthersSound ==
    ASSUME PubInv, NEW t \in Topics, OnlyTopic(t), TopicJoins(t), NEW u \in Topics, u # t
    PROVE  TopicSound(u)'
<1>1. /\ pc'[u] = pc[u] /\ resume'[u] = resume[u] /\ conn'[u] = conn[u] /\ item'[u] = item[u]
      /\ committed'[u] = committed[u] /\ UNCHANGED <<gen, yielded, delivered, log>>
      /\ excused[u] \subseteq excused'[u]
  BY DEF OnlyTopic
<1>2. QueueGrows /\ NothingLost /\ Running' = Running /\ ItemKept(u)
  BY <1>1, OnlyTopicFrame DEF ItemKept
<1>3. TypeBridge /\ TypeTasks /\ log \in [Topics -> Nat] /\ log' \in [Topics -> Nat] /\ log[u] <= log'[u]
  BY <1>1 DEF PubInv, PubType, TypeOrg
<1>4. PICK r, i : r = conn[u].read /\ i = resume[u].id
  OBVIOUS
<1>5. r \in Nat /\ i \in Nat
  BY <1>3, <1>4 DEF TypeTasks, Streams, Positions
<1>6. TopicSound(u)
  BY DEF PubInv
<1>7. OwnItem(u)' /\ OwnStream(u)' /\ Settled(u)'
  BY <1>1, <1>6 DEF TopicSound, OwnItem, OwnStream, Settled
<1>8. ASSUME Running, StreamHeld(u) PROVE StreamHeld(u)'
  <2>1. HeldUpTo(u, r) => HeldUpTo(u, r)'
    BY <1>2, <1>3, <1>5, HeldKept
  <2> QED
    BY <1>1, <1>4, <1>8, <2>1 DEF StreamHeld
<1>9. ASSUME Running, ResumeHeld(u) PROVE ResumeHeld(u)'
  <2>1. HeldUpTo(u, i) => HeldUpTo(u, i)'
    BY <1>2, <1>3, <1>5, HeldKept
  <2> QED
    BY <1>1, <1>4, <1>9, <2>1 DEF ResumeHeld
<1>10. ASSUME Running, FreshClean(u) PROVE FreshClean(u)'
  <2>1. ASSUME Clean(u) PROVE Clean(u)'
    <3>1. ASSUME NEW k \in 1 .. Len(queue'), k \notin 1 .. Len(queue) PROVE queue'[k].topic # u
      <4>1. queue' = Append(queue, Sentinel) => queue'[k] = Sentinel
        BY <1>3, <3>1, SentinelItem DEF TypeBridge
      <4>2. queue' = Append(queue, item[t]) => queue'[k] = item[t]
        <5>1. PICK x : x = item[t]
          OBVIOUS
        <5>2. x \in Items
          BY <1>3, <5>1 DEF TypeTasks
        <5> QED
          BY <1>3, <3>1, <5>1, <5>2 DEF TypeBridge
      <4>3. pc[t] \in {"charge", "put"} => item[t].topic = t
        BY DEF PubInv, TopicSound, OwnItem
      <4> QED
        BY <3>1, <4>1, <4>2, <4>3, SentinelItem DEF TopicJoins
    <3> QED
      BY <1>1, <1>2, <1>3, <2>1, <3>1, QueuePrefix DEF Clean
  <2> QED
    BY <1>1, <1>10, <2>1 DEF FreshClean
<1> QED
  BY <1>2, <1>6, <1>7, <1>8, <1>9, <1>10 DEF TopicSound

LEMMA TopicKeeps ==
    ASSUME PubInv, PubType', NEW t \in Topics, OnlyTopic(t), TopicJoins(t), TopicSound(t)'
    PROVE  PubInv'
<1>1. QueueGrows /\ NothingLost /\ Running' = Running /\ (Running => JoinsHeld)
  BY OnlyTopicFrame
<1>2. YieldSound'
  <2>1. gen' = gen /\ yielded' = yielded /\ log' = log
    BY DEF OnlyTopic
  <2>2. TypeBridge /\ log \in [Topics -> Nat]
    BY DEF PubInv, PubType, TypeOrg
  <2>3. PICK u, n : u = yielded.topic /\ n = yielded.id
    OBVIOUS
  <2>4. n \in Nat /\ 0 \in 0 .. Len(queue)
    BY <2>2, <2>3 DEF TypeBridge, Items
  <2>5. u \in Topics /\ AheadUpTo(u, n, 0) => AheadUpTo(u, n, 0)'
    <3> SUFFICES ASSUME u \in Topics, AheadUpTo(u, n, 0) PROVE AheadUpTo(u, n, 0)'
      OBVIOUS
    <3>1. log' \in [Topics -> Nat] /\ log[u] <= log'[u]
      BY <2>1, <2>2
    <3>2. PICK k : k = 0
      OBVIOUS
    <3>3. AheadUpTo(u, n, k)'
      BY <1>1, <2>2, <2>4, <3>1, <3>2, AheadKept
    <3> QED
      BY <3>2, <3>3
  <2> QED
    BY <2>1, <2>3, <2>5 DEF PubInv, YieldSound
<1>3. QueueSound'
  <2>1. CASE Running
    BY <1>1, <2>1, QueueSoundKept DEF PubInv, PubType, TypeOrg, OnlyTopic
  <2>2. CASE ~Running
    BY <1>1, <2>2 DEF QueueSound
  <2> QED
    BY <2>1, <2>2
<1>4. \A u \in Topics : TopicSound(u)'
  BY OthersSound
<1> QED
  BY <1>2, <1>3, <1>4 DEF PubInv

\* A task keeps its position and enqueues nothing new.
LEMMA TaskGoesOn ==
    ASSUME PubInv, PubType', NEW t \in Topics, OnlyTopic(t), TopicJoins(t),
           ItemKept(t), item'[t] \in {item[t], NoItem},
           committed'[t] = committed[t], resume'[t] = resume[t],
           pc'[t] = "load" => ~resume[t].loaded,
           pc'[t] \in Placed => pc[t] \in Placed \/ resume[t].loaded,
           OwnItem(t)', OwnStream(t)', Running => StreamHeld(t)'
    PROVE  PubInv'
<1>1. QueueGrows /\ NothingLost /\ UNCHANGED log /\ Running' = Running
  BY OnlyTopicFrame
<1>2. /\ TypeBridge /\ TypeTasks /\ log \in [Topics -> Nat] /\ log' \in [Topics -> Nat]
      /\ log[t] <= log'[t]
  BY <1>1 DEF PubInv, PubType, TypeOrg
<1>3. TopicSound(t)
  BY DEF PubInv
<1>4. Settled(t)'
  BY <1>1, <1>3 DEF TopicSound, Settled, NothingLost
<1>5. ASSUME Running PROVE ResumeHeld(t)'
  <2>1. PICK n : n = resume[t].id
    OBVIOUS
  <2>2. n \in Nat
    BY <1>2, <2>1 DEF TypeTasks, Positions
  <2>3. HeldUpTo(t, n) => HeldUpTo(t, n)'
    BY <1>1, <1>2, <2>2, HeldKept
  <2> QED
    BY <1>3, <1>5, <2>1, <2>3 DEF TopicSound, ResumeHeld
<1>6. ASSUME Running PROVE FreshClean(t)'
  <2>1. ASSUME Clean(t) PROVE Clean(t)'
    <3>1. item[t] = NoItem /\ pc[t] \notin {"charge", "put"}
      BY <1>3, <2>1, SentinelItem DEF Clean, TopicSound, OwnItem, NoItem
    <3>2. queue' = queue \/ queue' = Append(queue, Sentinel)
      BY <3>1 DEF TopicJoins
    <3>3. ASSUME NEW k \in 1 .. Len(queue'), k \notin 1 .. Len(queue) PROVE queue'[k].topic # t
      <4>1. queue' = Append(queue, Sentinel) => queue'[k] = Sentinel
        BY <1>2, <3>3, SentinelItem DEF TypeBridge
      <4> QED
        BY <3>2, <3>3, <4>1, SentinelItem
    <3> QED
      BY <1>1, <1>2, <2>1, <3>1, <3>3, QueuePrefix DEF Clean, NothingLost
  <2> QED
    BY <1>3, <1>6, <2>1 DEF TopicSound, FreshClean, Placed
<1>7. TopicSound(t)'
  BY <1>1, <1>4, <1>5, <1>6 DEF TopicSound
<1> QED
  BY <1>7, TopicKeeps

\* A stream that has read no further holds what it has read.
LEMMA ReadHeld ==
    ASSUME PubInv, NEW t \in Topics, OnlyTopic(t), TopicJoins(t), ItemKept(t),
           Running, pc[t] \in {"stream", "charge", "put"}, conn'[t].read = conn[t].read
    PROVE  StreamHeld(t)'
<1>1. QueueGrows /\ NothingLost /\ UNCHANGED log
  BY OnlyTopicFrame
<1>2. /\ TypeBridge /\ TypeTasks /\ log \in [Topics -> Nat] /\ log' \in [Topics -> Nat]
      /\ log[t] <= log'[t]
  BY <1>1 DEF PubInv, PubType, TypeOrg
<1>3. PICK n : n = conn[t].read
  OBVIOUS
<1>4. n \in Nat
  BY <1>2, <1>3 DEF TypeTasks, Streams
<1>5. HeldUpTo(t, n)
  BY <1>3 DEF PubInv, TopicSound, StreamHeld
<1>6. HeldUpTo(t, n)'
  BY <1>1, <1>2, <1>4, <1>5, HeldKept
<1> QED
  BY <1>3, <1>6 DEF StreamHeld

-----------------------------------------------------------------------------
(* Every step keeps the types.                                               *)

\* What keeps the types of the org and the outcome when one topic's task steps.
LEMMA OrgType ==
    ASSUME PubType, UNCHANGED <<log, oldest>>
    PROVE  TypeOrg'
BY DEF PubType, TypeOrg

LEMMA OutcomeType ==
    ASSUME PubType, UNCHANGED outcome
    PROVE  TypeOutcome'
BY DEF PubType, TypeOutcome, outcome

\* Appending an item keeps the type of the bridge.
LEMMA BridgeType ==
    ASSUME PubType, QueueGrows, UNCHANGED <<gen, stop, cancelled, yielded>>
    PROVE  TypeBridge'
<1>1. CASE queue' = queue
  BY <1>1 DEF PubType, TypeBridge
<1>2. CASE \E x \in Items : queue' = Append(queue, x)
  BY <1>2 DEF PubType, TypeBridge
<1> QED
  BY <1>1, <1>2 DEF QueueGrows

\* The next event of a response exists, so its line is there or not.
LEMMA NextRead ==
    ASSUME PubInv, NEW t \in Topics, pc[t] = "stream", conn[t].read < conn[t].last
    PROVE  /\ conn[t].read + 1 \in Nat /\ conn[t].read + 1 <= log[t]
           /\ Kept[t][conn[t].read + 1] \in BOOLEAN
<1>1. conn[t].read \in Nat /\ conn[t].last \in Nat /\ log[t] \in Nat /\ log[t] <= Len(Kept[t])
  BY DEF PubInv, PubType, TypeTasks, TypeOrg, Streams
<1>2. conn[t].last <= log[t]
  BY DEF PubInv, TopicSound, OwnStream
<1>3. Kept[t] \in Seq(BOOLEAN)
  OBVIOUS
<1>4. conn[t].read + 1 \in 1 .. Len(Kept[t])
  BY <1>1, <1>2, <1>3
<1> QED
  BY <1>1, <1>2, <1>3, <1>4

LEMMA EnqueueType ==
    ASSUME PubType, NEW t \in Topics, NEW x \in Items, Enqueue(t, x)
    PROVE  item' \in [Topics -> Items] /\ resume' \in [Topics -> Positions] /\ pc' \in [Topics -> Places]
<1>1. x.id \in Nat
  BY DEF Items
<1>2. item' \in [Topics -> Items] /\ pc' \in [Topics -> Places]
  BY DEF Enqueue, PubType, TypeTasks, Places
<1>3. PICK p \in Positions : p = resume[t]
  BY DEF PubType, TypeTasks
<1>4. [p EXCEPT !.id = x.id, !.preset = "CUSTOM"] \in Positions
  BY <1>1 DEF Positions
<1>5. resume \in [Topics -> Positions]
  BY DEF PubType, TypeTasks
<1>6. resume' = [resume EXCEPT ![t] = [p EXCEPT !.id = x.id, !.preset = "CUSTOM"]]
  BY <1>3, <1>5 DEF Enqueue
<1> QED
  BY <1>2, <1>4, <1>5, <1>6

LEMMA TopicStepType ==
    ASSUME PubInv, NEW t \in Topics,
           \/ LoopHead(t) \/ Load(t) \/ Connect(t) \/ Respond(t) \/ NextEvent(t) \/ TopUp(t)
           \/ Charge(t) \/ PutItem(t) \/ PutSentinel(t)
           \/ LoadFails(t) \/ LoadCorrupt(t) \/ StreamEnds(t) \/ PoisonEvent(t) \/ SchemaFails(t)
           \/ TopUpFails(t) \/ Keepalive(t) \/ IdRejected(t)
    PROVE  PubType'
<1>1. PubType
  BY DEF PubInv
<1>2. TypeOrg'
  BY <1>1, OrgType DEF LoopHead, Load, Connect, Respond, NextEvent, TopUp, Charge, PutItem,
       PutSentinel, LoadFails, LoadCorrupt, StreamEnds, PoisonEvent, SchemaFails, TopUpFails,
       Keepalive, IdRejected, org
<1>3. TypeBridge'
  <2>1. item[t] \in Items
    BY <1>1 DEF PubType, TypeTasks
  <2>2. QueueGrows
    BY <2>1, SentinelItem DEF QueueGrows, LoopHead, Load, Connect, Respond, NextEvent, TopUp, Charge,
       PutItem, PutSentinel, SentinelPut, LoadFails, LoadCorrupt, StreamEnds, PoisonEvent,
       SchemaFails, TopUpFails, Keepalive, IdRejected, bridge
  <2>3. UNCHANGED control
    BY DEF LoopHead, Load, Connect, Respond, NextEvent, TopUp, Charge, PutItem,
       PutSentinel, LoadFails, LoadCorrupt, StreamEnds, PoisonEvent, SchemaFails, TopUpFails,
       Keepalive, IdRejected
  <2> QED
    BY <1>1, <2>2, <2>3, BridgeType DEF control
<1>4. NoStream \in Streams /\ NoItem \in Items /\ NoPosition \in Positions
  BY SentinelItem DEF NoStream, Streams, NoPosition, Positions
<1>5. /\ log[t] \in Nat /\ oldest[t] - 1 \in Nat /\ committed[t] \in Nat /\ resume[t].id \in Nat
      /\ InitialPreset \in {"LATEST", "EARLIEST"}
  BY <1>1 DEF PubType, TypeOrg, TypeOutcome, TypeTasks, Positions, InitialPreset
<1>6. CASE \/ LoopHead(t) \/ LoadFails(t) \/ StreamEnds(t) \/ SchemaFails(t) \/ TopUpFails(t)
           \/ PutSentinel(t) \/ Charge(t) \/ PutItem(t)
  <2>1. TypeOutcome'
    BY <1>1, <1>6, OutcomeType DEF LoopHead, LoadFails, StreamEnds, SchemaFails, TopUpFails,
       PutSentinel, Charge, PutItem
  <2>2. TypeTasks'
    <3>1. pc' \in [Topics -> Places] /\ resume' \in [Topics -> Positions]
      BY <1>1, <1>6 DEF PubType, TypeTasks, Places, LoopHead, LoadFails, StreamEnds, SchemaFails,
         TopUpFails, PutSentinel, Charge, PutItem
    <3>2. conn' \in [Topics -> Streams]
      BY <1>1, <1>4, <1>6 DEF PubType, TypeTasks, LoopHead, LoadFails, StreamEnds, SchemaFails,
         TopUpFails, PutSentinel, Charge, PutItem
    <3>3. item' \in [Topics -> Items]
      BY <1>1, <1>4, <1>6 DEF PubType, TypeTasks, LoopHead, LoadFails, StreamEnds, SchemaFails,
         TopUpFails, PutSentinel, Charge, PutItem
    <3> QED
      BY <3>1, <3>2, <3>3 DEF TypeTasks
  <2> QED
    BY <1>2, <1>3, <2>1, <2>2 DEF PubType
<1>7. CASE Load(t) \/ LoadCorrupt(t) \/ IdRejected(t)
  <2>1. TypeOutcome'
    BY <1>1, <1>7 DEF Load, LoadCorrupt, IdRejected, PubType, TypeOutcome, outcome
  <2>2. PICK p \in Positions : resume' = [resume EXCEPT ![t] = p]
    <3>1. ASSUME NEW q \in {"LATEST", "EARLIEST", "CUSTOM"}, NEW n \in Nat
          PROVE  [loaded |-> TRUE, id |-> n, preset |-> q] \in Positions
      BY DEF Positions
    <3>2. CASE Load(t)
      <4>1. (IF committed[t] # 0 THEN "CUSTOM" ELSE InitialPreset) \in {"LATEST", "EARLIEST", "CUSTOM"}
        BY <1>5
      <4> QED
        BY <1>5, <3>1, <3>2, <4>1 DEF Load
    <3>3. CASE LoadCorrupt(t)
      BY <1>5, <3>1, <3>3 DEF LoadCorrupt
    <3>4. CASE IdRejected(t)
      BY <3>1, <3>4 DEF IdRejected, AfterRejection
    <3> QED
      BY <1>7, <3>2, <3>3, <3>4
  <2>3. resume' \in [Topics -> Positions]
    BY <1>1, <2>2 DEF PubType, TypeTasks
  <2>4. TypeTasks'
    BY <1>1, <1>7, <2>3 DEF Load, LoadCorrupt, IdRejected, PubType, TypeTasks, Places
  <2> QED
    BY <1>2, <1>3, <2>1, <2>4 DEF PubType
<1>8. CASE Connect(t)
  <2>1. StartsAfter(t) \in Nat
    BY <1>1, <1>5 DEF StartsAfter, PubType, TypeTasks, Positions
  <2>2. NotPromised(t) \subseteq Nat
    BY <1>1, <1>5 DEF NotPromised, PubType, TypeTasks, Positions
  <2>3. TypeOutcome'
    BY <1>1, <1>8, <2>2 DEF Connect, PubType, TypeOutcome
  <2>4. TypeTasks'
    BY <1>1, <1>8, <2>1 DEF Connect, PubType, TypeTasks, Places, Streams
  <2> QED
    BY <1>2, <1>3, <2>3, <2>4 DEF PubType
<1>9. CASE Respond(t) \/ TopUp(t)
  <2>1. TypeOutcome'
    BY <1>1, <1>9, OutcomeType DEF Respond, TopUp
  <2>2. conn[t] \in Streams
    BY <1>1 DEF PubType, TypeTasks
  <2>3. TypeTasks'
    <3>1. CASE Respond(t)
      <4>1. PICK n \in 1 .. conn[t].credits :
               conn' = [conn EXCEPT ![t].last = @ + n, ![t].credits = @ - n, ![t].open = TRUE]
        BY <3>1 DEF Respond
      <4>2. conn[t].last + n \in Nat /\ conn[t].credits - n \in Nat
        BY <2>2 DEF Streams
      <4> QED
        BY <1>1, <2>2, <3>1, <4>1, <4>2 DEF Respond, PubType, TypeTasks, Streams
    <3>2. CASE TopUp(t)
      <4>1. PICK c : c = conn[t].credits
        OBVIOUS
      <4>2. c \in Nat /\ c + Credits \in Nat
        BY <2>2, <4>1 DEF Streams
      <4>3. PICK d \in Nat : conn' = [conn EXCEPT ![t].open = FALSE, ![t].credits = d]
        BY <3>2, <4>1, <4>2 DEF TopUp
      <4>4. [conn[t] EXCEPT !.open = FALSE, !.credits = d] \in Streams
        BY <2>2, <4>3 DEF Streams
      <4>5. conn' \in [Topics -> Streams]
        BY <1>1, <4>3, <4>4 DEF PubType, TypeTasks
      <4> QED
        BY <1>1, <3>2, <4>5 DEF TopUp, PubType, TypeTasks
    <3> QED
      BY <1>9, <3>1, <3>2
  <2> QED
    BY <1>2, <1>3, <2>1, <2>3 DEF PubType
<1>10. CASE NextEvent(t) \/ Keepalive(t)
  <2>1. TypeOutcome'
    BY <1>1, <1>10, OutcomeType DEF NextEvent, Keepalive
  <2>2. conn' \in [Topics -> Streams]
    <3>1. conn[t] \in Streams /\ conn \in [Topics -> Streams]
      BY <1>1 DEF PubType, TypeTasks
    <3>2. CASE NextEvent(t)
      <4>1. conn[t].read + 1 \in Nat /\ conn' = [conn EXCEPT ![t].read = conn[t].read + 1]
        BY <3>2, NextRead DEF NextEvent
      <4>2. [conn[t] EXCEPT !.read = conn[t].read + 1] \in Streams
        BY <3>1, <4>1 DEF Streams
      <4> QED
        BY <3>1, <4>1, <4>2
    <3>3. CASE Keepalive(t)
      BY <3>1, <3>3 DEF Keepalive, Streams
    <3> QED
      BY <1>10, <3>2, <3>3
  <2>3. /\ item' \in [Topics -> Items] /\ resume' \in [Topics -> Positions]
        /\ pc' \in [Topics -> Places]
    <3>1. ASSUME NEW e \in Nat, NEW l \in BOOLEAN PROVE Entry(t, e, l) \in Items
      BY DEF Entry, Items
    <3>2. CASE UNCHANGED <<resume, item>> /\ (pc' = pc \/ pc' = [pc EXCEPT ![t] = "sentinel"])
      BY <1>1, <3>2 DEF PubType, TypeTasks, Places
    <3>3. CASE Enqueue(t, Entry(t, log[t], FALSE))
      BY <1>1, <1>5, <3>1, <3>3, EnqueueType
    <3>4. ASSUME NextEvent(t), Enqueue(t, Entry(t, conn[t].read + 1, Kept[t][conn[t].read + 1]))
          PROVE  /\ item' \in [Topics -> Items] /\ resume' \in [Topics -> Positions]
                 /\ pc' \in [Topics -> Places]
      <4>1. Entry(t, conn[t].read + 1, Kept[t][conn[t].read + 1]) \in Items
        BY <3>1, <3>4, NextRead DEF NextEvent
      <4> QED
        BY <1>1, <3>4, <4>1, EnqueueType
    <3> QED
      BY <1>10, <3>2, <3>3, <3>4 DEF NextEvent, Keepalive
  <2> QED
    BY <1>2, <1>3, <2>1, <2>2, <2>3 DEF PubType, TypeTasks
<1>11. CASE PoisonEvent(t)
  <2>1. conn[t].read + 1 \in Nat
    BY <1>11, NextRead DEF PoisonEvent
  <2>2. TypeOutcome'
    BY <1>1, <1>11, <2>1 DEF PoisonEvent, PubType, TypeOutcome
  <2>3. [conn[t] EXCEPT !.read = conn[t].read + 1] \in Streams
    <3>1. conn[t] \in Streams
      BY <1>1 DEF PubType, TypeTasks
    <3> QED
      BY <2>1, <3>1 DEF Streams
  <2>4. TypeTasks'
    BY <1>1, <1>11, <2>3 DEF PoisonEvent, PubType, TypeTasks
  <2> QED
    BY <1>2, <1>3, <2>2, <2>4 DEF PubType
<1> QED
  BY <1>6, <1>7, <1>8, <1>9, <1>10, <1>11

-----------------------------------------------------------------------------
(* Every step of a topic's task keeps the invariant.                         *)

LEMMA LeavesStream ==
    ASSUME PubInv, NEW t \in Topics,
           \/ LoopHead(t) \/ LoadFails(t) \/ StreamEnds(t) \/ SchemaFails(t) \/ TopUpFails(t)
           \/ PutSentinel(t)
    PROVE  PubInv'
<1>1. PubType'
  BY TopicStepType
<1>2. TypeTasks /\ OwnItem(t)
  BY DEF PubInv, PubType, TopicSound
<1>3. item[t] = NoItem /\ item' = item
  BY <1>2 DEF OwnItem, LoopHead, LoadFails, StreamEnds, SchemaFails, TopUpFails, PutSentinel
<1>4. OnlyTopic(t)
  BY <1>2 DEF TypeTasks, OnlyTopic, LoopHead, LoadFails, StreamEnds, SchemaFails, TopUpFails,
              PutSentinel, org, outcome, control
<1>5. TopicJoins(t)
  BY DEF TopicJoins, LoopHead, LoadFails, StreamEnds, SchemaFails, TopUpFails, PutSentinel,
         SentinelPut, bridge
<1>6. /\ pc'[t] \notin {"stream", "charge", "put"} /\ (pc'[t] = "load" => ~resume[t].loaded)
      /\ (pc'[t] \in Placed => resume[t].loaded)
      /\ resume' = resume /\ committed' = committed
  BY <1>2 DEF TypeTasks, LoopHead, LoadFails, StreamEnds, SchemaFails, TopUpFails, PutSentinel,
              outcome, Placed
<1>7. OwnItem(t)' /\ OwnStream(t)' /\ StreamHeld(t)'
  BY <1>3, <1>4, <1>6 DEF OnlyTopic, OwnItem, OwnStream, StreamHeld, PubInv, TopicSound
<1> QED
  BY <1>1, <1>3, <1>4, <1>5, <1>6, <1>7, TaskGoesOn DEF ItemKept

\* Where a task resumes changes while nothing of its topic is under way, or to
\* a position that is excused when it is taken.
LEMMA NewPosition ==
    ASSUME PubInv, NEW t \in Topics, Load(t) \/ LoadCorrupt(t) \/ IdRejected(t)
    PROVE  PubInv'
<1>1. PubType' /\ PubType
  BY TopicStepType DEF PubInv
<1>2. TypeTasks /\ TypeOutcome /\ TypeBridge /\ TopicSound(t)
  BY <1>1 DEF PubInv, PubType
<1>3. /\ UNCHANGED <<item, conn, queue, yielded, gen, delivered, excused, log>>
      /\ pc[t] \in {"load", "connect"} /\ pc'[t] \in {"head", "connect"}
  BY <1>2 DEF Load, LoadCorrupt, IdRejected, TypeTasks, outcome, org, control, bridge
<1>4. OnlyTopic(t) /\ TopicJoins(t)
  BY <1>2, <1>3 DEF TypeTasks, TypeOutcome, OnlyTopic, TopicJoins, Load, LoadCorrupt, IdRejected,
                    outcome
<1>5. committed'[t] \in {committed[t], 0}
  BY <1>2 DEF TypeOutcome, Load, LoadCorrupt, IdRejected, outcome
<1>6. OwnItem(t)' /\ OwnStream(t)' /\ StreamHeld(t)'
  <2>1. resume'[t].id \in {committed[t], 0} /\ log[t] \in Nat
    BY <1>1, <1>2 DEF Load, LoadCorrupt, IdRejected, AfterRejection, PubType, TypeOrg, TypeTasks
  <2>2. resume'[t].id <= log[t]
    BY <1>2, <2>1 DEF TopicSound, Settled
  <2> QED
    BY <1>2, <1>3, <2>2 DEF TopicSound, OwnItem, OwnStream, StreamHeld
<1>7. Settled(t)'
  BY <1>1, <1>2, <1>3, <1>5 DEF PubType, TypeOrg, TopicSound, Settled
<1>8. Running' = Running /\ (Clean(t) => Clean(t)')
  BY <1>3 DEF Running, Clean
<1>9. ASSUME Running PROVE ResumeHeld(t)' /\ FreshClean(t)'
  <2>1. CASE Load(t)
    <3>1. Clean(t)'
      BY <1>2, <1>8, <1>9, <2>1 DEF Load, TopicSound, FreshClean
    <3>2. committed'[t] = committed[t]
      BY <2>1 DEF Load, outcome
    <3>3. /\ resume'[t].loaded /\ resume'[t].id = committed[t]
          /\ resume'[t].preset = "LATEST" => committed[t] = 0
      BY <1>2, <2>1 DEF Load, TypeTasks
    <3>4. PICK n : n = committed[t]
      OBVIOUS
    <3>5. HeldUpTo(t, n)'
      BY <1>3, <1>7, <3>2, <3>4 DEF Settled, HeldUpTo, InFlight, Coming
    <3> QED
      BY <1>3, <3>1, <3>2, <3>3, <3>4, <3>5 DEF ResumeHeld, FreshClean
  <2>2. CASE LoadCorrupt(t)
    <3>1. Clean(t)'
      BY <1>2, <1>8, <1>9, <2>2 DEF LoadCorrupt, TopicSound, FreshClean
    <3>2. committed'[t] = 0 /\ resume'[t].loaded /\ resume'[t].preset # "CUSTOM"
      BY <1>2, <2>2 DEF LoadCorrupt, TypeTasks, TypeOutcome, InitialPreset
    <3> QED
      BY <1>3, <3>1, <3>2 DEF ResumeHeld, FreshClean
  <2>3. CASE IdRejected(t)
    <3>1. resume'[t].loaded /\ resume'[t].preset = "EARLIEST"
      BY <1>2, <2>3 DEF IdRejected, AfterRejection, TypeTasks
    <3> QED
      BY <1>3, <3>1 DEF ResumeHeld, FreshClean
  <2> QED
    BY <2>1, <2>2, <2>3
<1>10. TopicSound(t)'
  BY <1>6, <1>7, <1>8, <1>9 DEF TopicSound
<1> QED
  BY <1>1, <1>4, <1>10, TopicKeeps

LEMMA ReadsOn ==
    ASSUME PubInv, NEW t \in Topics, Respond(t) \/ TopUp(t)
    PROVE  PubInv'
<1>1. PubType' /\ PubType
  BY TopicStepType DEF PubInv
<1>2. TypeTasks /\ TypeOrg /\ OwnItem(t) /\ OwnStream(t)
  BY DEF PubInv, PubType, TopicSound
<1>3. OnlyTopic(t) /\ TopicJoins(t)
  BY <1>2 DEF TypeTasks, OnlyTopic, TopicJoins, Respond, TopUp, org, outcome, control, bridge
<1>4. /\ UNCHANGED <<item, resume, committed, pc, log>> /\ pc[t] = "stream"
      /\ conn'[t].read = conn[t].read
  <2>1. PICK c \in Streams : c = conn[t]
    BY <1>2 DEF TypeTasks
  <2>2. CASE Respond(t)
    <3>1. PICK n \in 1 .. conn[t].credits :
             conn' = [conn EXCEPT ![t].last = @ + n, ![t].credits = @ - n, ![t].open = TRUE]
      BY <2>2 DEF Respond
    <3>2. conn'[t] = [c EXCEPT !.last = @ + n, !.credits = @ - n, !.open = TRUE]
      BY <1>2, <2>1, <3>1 DEF TypeTasks
    <3> QED
      BY <2>1, <2>2, <3>2 DEF Respond, Streams, org, outcome
  <2>3. CASE TopUp(t)
    BY <1>2, <2>1, <2>3 DEF TopUp, TypeTasks, Streams, org, outcome
  <2> QED
    BY <2>2, <2>3
<1>5. OwnItem(t)'
  BY <1>2, <1>4 DEF OwnItem
<1>6. OwnStream(t)'
  <2>1. conn[t] \in Streams /\ conn'[t] \in Streams /\ log[t] \in Nat
    BY <1>1, <1>2 DEF PubType, TypeTasks, TypeOrg
  <2>2. CASE Respond(t)
    <3>1. PICK n \in 1 .. conn[t].credits :
             /\ conn[t].read + n <= log[t]
             /\ conn'[t].last = conn[t].last + n /\ conn'[t].open
      <4>1. PICK c \in Streams : c = conn[t]
        BY <2>1
      <4>2. PICK n \in 1 .. conn[t].credits :
               /\ conn[t].read + n <= log[t]
               /\ conn' = [conn EXCEPT ![t].last = @ + n, ![t].credits = @ - n, ![t].open = TRUE]
        BY <2>2 DEF Respond
      <4>3. conn'[t] = [c EXCEPT !.last = @ + n, !.credits = @ - n, !.open = TRUE]
        BY <1>2, <4>1, <4>2 DEF TypeTasks
      <4>4. conn'[t].last = c.last + n /\ conn'[t].open
        BY <4>1, <4>3 DEF Streams
      <4> QED
        BY <4>1, <4>2, <4>4
    <3>2. conn[t].read = conn[t].last
      BY <1>2, <1>4, <2>2 DEF OwnStream, Respond
    <3>3. conn[t].read \in Nat /\ conn[t].last \in Nat
      BY <2>1 DEF Streams
    <3>4. conn'[t].read <= conn'[t].last /\ conn'[t].last <= log[t]
      BY <1>4, <2>1, <3>1, <3>2, <3>3
    <3> QED
      BY <1>2, <1>4, <3>1, <3>4 DEF OwnStream
  <2>3. CASE TopUp(t)
    <3>1. conn'[t].last = conn[t].last /\ conn[t].read = conn[t].last
      BY <1>2, <2>3 DEF TopUp, TypeTasks
    <3> QED
      BY <1>2, <1>4, <3>1 DEF OwnStream
  <2> QED
    BY <2>2, <2>3
<1>7. Running => StreamHeld(t)'
  BY <1>3, <1>4, ReadHeld DEF ItemKept
<1> QED
  BY <1>1, <1>3, <1>4, <1>5, <1>6, <1>7, TaskGoesOn DEF ItemKept

\* A new stream starts after its position, and what it leaves out is excused.
LEMMA ConnectKeeps ==
    ASSUME PubInv, NEW t \in Topics, Connect(t)
    PROVE  PubInv'
<1>1. PubType' /\ PubType
  BY TopicStepType DEF PubInv
<1>2. TypeTasks /\ TypeOrg /\ TypeBridge /\ TypeOutcome /\ TopicSound(t)
  BY <1>1 DEF PubInv, PubType
<1>3. OnlyTopic(t) /\ TopicJoins(t)
  BY <1>2 DEF TypeTasks, TypeOutcome, OnlyTopic, TopicJoins, Connect, org, control, bridge
<1>4. /\ UNCHANGED <<item, resume, committed, log, queue, yielded>> /\ pc[t] = "connect" /\ pc'[t] = "stream"
      /\ conn'[t].read = StartsAfter(t) /\ conn'[t].last = StartsAfter(t)
      /\ excused'[t] = excused[t] \cup NotPromised(t)
  BY <1>2 DEF Connect, TypeTasks, TypeOutcome, org, control, bridge
<1>5. item[t] = NoItem
  BY <1>2, <1>4 DEF TopicSound, OwnItem
<1>6. OwnItem(t)'
  BY <1>4, <1>5 DEF OwnItem
<1>7. PICK n : n = StartsAfter(t)
  OBVIOUS
<1>8. /\ log[t] \in Nat /\ oldest[t] \in 1 .. log[t] + 1
      /\ resume[t].preset \in {"LATEST", "EARLIEST", "CUSTOM"} /\ resume[t].id \in Nat
  BY <1>2 DEF TypeOrg, TypeTasks, Positions
<1>9. ASSUME Running PROVE HeldUpTo(t, n)'
  <2>1. resume[t].loaded
    BY <1>2, <1>4, <1>9 DEF TopicSound, FreshClean, Placed
  <2>2. CASE resume[t].preset = "CUSTOM"
    <3>1. HeldUpTo(t, n) /\ n \in Nat
      BY <1>2, <1>7, <1>8, <1>9, <2>1, <2>2 DEF TopicSound, ResumeHeld, StartsAfter
    <3>2. QueueGrows /\ NothingLost /\ log' \in [Topics -> Nat] /\ log[t] <= log'[t]
      BY <1>2, <1>3, <1>4, OnlyTopicFrame DEF TypeOrg
    <3> QED
      BY <1>2, <1>5, <3>1, <3>2, HeldKept DEF ItemKept, TypeOrg
  <2>3. CASE resume[t].preset # "CUSTOM"
    <3>1. n <= log[t] /\ 1 .. n \subseteq NotPromised(t)
      <4>1. CASE resume[t].preset = "EARLIEST"
        BY <1>7, <1>8, <4>1 DEF StartsAfter, NotPromised
      <4>2. CASE resume[t].preset = "LATEST"
        BY <1>2, <1>7, <1>8, <1>9, <2>1, <4>2 DEF StartsAfter, NotPromised, TopicSound, FreshClean
      <4> QED
        BY <1>8, <2>3, <4>1, <4>2
    <3> QED
      BY <1>4, <3>1 DEF HeldUpTo, InFlight, Coming
  <2> QED
    BY <2>2, <2>3
<1>10. OwnStream(t)'
  <2>1. StartsAfter(t) <= log[t]
    <3>1. CASE resume[t].preset = "CUSTOM"
      BY <1>2, <3>1 DEF StartsAfter, TopicSound, OwnStream
    <3>2. CASE resume[t].preset # "CUSTOM"
      BY <1>8, <3>2 DEF StartsAfter
    <3> QED
      BY <3>1, <3>2
  <2>2. StartsAfter(t) \in Nat
    BY <1>8 DEF StartsAfter
  <2> QED
    BY <1>2, <1>4, <1>8, <2>1, <2>2 DEF OwnStream, TopicSound
<1>11. Running => StreamHeld(t)'
  BY <1>4, <1>7, <1>9 DEF StreamHeld
<1> QED
  BY <1>1, <1>3, <1>4, <1>5, <1>6, <1>10, <1>11, TaskGoesOn DEF ItemKept, Placed

\* An event that cannot be decoded is excused.
LEMMA PoisonKeeps ==
    ASSUME PubInv, NEW t \in Topics, PoisonEvent(t)
    PROVE  PubInv'
<1>1. PubType' /\ PubType
  BY TopicStepType DEF PubInv
<1>2. TypeTasks /\ TypeOrg /\ TypeBridge /\ TypeOutcome /\ TopicSound(t)
  BY <1>1 DEF PubInv, PubType
<1>3. PICK r : r = conn[t].read
  OBVIOUS
<1>4. r \in Nat /\ r + 1 \in Nat /\ r + 1 <= log[t] /\ r + 1 <= conn[t].last /\ log[t] \in Nat
  BY <1>2, <1>3, NextRead DEF PoisonEvent, TypeTasks, TypeOrg, Streams
<1>5. OnlyTopic(t) /\ TopicJoins(t)
  BY <1>2 DEF TypeTasks, TypeOutcome, OnlyTopic, TopicJoins, PoisonEvent, org, control, bridge
<1>6. /\ UNCHANGED <<item, resume, committed, pc, log>> /\ pc[t] = "stream" /\ conn[t].open
      /\ r + 1 \in excused'[t]
  BY <1>2, <1>3 DEF PoisonEvent, TypeOutcome, org
<1>7. conn'[t].read = r + 1 /\ conn'[t].last = conn[t].last /\ conn'[t].open = conn[t].open
  <2>1. PICK c \in Streams : c = conn[t]
    BY <1>2 DEF TypeTasks
  <2>2. conn'[t] = [c EXCEPT !.read = r + 1]
    BY <1>2, <1>3, <2>1 DEF PoisonEvent, TypeTasks
  <2> QED
    BY <2>1, <2>2 DEF Streams
<1>8. OwnItem(t)' /\ OwnStream(t)' /\ item[t] = NoItem
  BY <1>2, <1>4, <1>6, <1>7 DEF TopicSound, OwnItem, OwnStream
<1>9. ASSUME Running PROVE HeldUpTo(t, r + 1)'
  <2>1. HeldUpTo(t, r)
    BY <1>2, <1>3, <1>6, <1>9 DEF TopicSound, StreamHeld
  <2>2. QueueGrows /\ NothingLost /\ log' \in [Topics -> Nat] /\ log[t] <= log'[t]
    BY <1>2, <1>5, <1>6, OnlyTopicFrame DEF TypeOrg
  <2>3. HeldUpTo(t, r)'
    BY <1>2, <1>4, <1>8, <2>1, <2>2, HeldKept DEF ItemKept, TypeOrg
  <2>4. ASSUME NEW e \in 1 .. r + 1, Kept[t][e] PROVE InFlight(t, e)'
    <3>1. CASE e = r + 1
      BY <1>6, <3>1 DEF InFlight, Coming
    <3>2. CASE e \in 1 .. r
      BY <2>3, <2>4, <3>2 DEF HeldUpTo
    <3> QED
      BY <1>4, <3>1, <3>2
  <2> QED
    BY <1>4, <1>6, <2>4 DEF HeldUpTo
<1>10. Running => StreamHeld(t)'
  <2>1. PICK n : n = r + 1
    OBVIOUS
  <2> QED
    BY <1>7, <1>9, <2>1 DEF StreamHeld
<1> QED
  BY <1>1, <1>5, <1>6, <1>8, <1>10, TaskGoesOn DEF ItemKept

\* What a task enqueues is the event it has just read, or the end of the log.
LEMMA EnqueueKeeps ==
    ASSUME PubInv, PubType', NEW t \in Topics, NEW n \in Nat, NEW l \in BOOLEAN,
           Enqueue(t, Entry(t, n, l)), pc[t] = "stream",
           UNCHANGED <<outcome, org, control, bridge>>,
           \A u \in Topics \ {t} : conn'[u] = conn[u],
           conn'[t].read = n, n <= conn'[t].last, conn'[t].last <= log[t], conn'[t].open,
           \A e \in 1 .. n : Kept[t][e] => e <= conn[t].read \/ (e = n /\ l = TRUE)
    PROVE  PubInv'
<1>1. TypeTasks /\ TypeOrg /\ TypeBridge /\ TypeOutcome /\ TopicSound(t)
  BY DEF PubInv, PubType
<1>2. item[t] = NoItem
  BY <1>1 DEF TopicSound, OwnItem
<1>3. OnlyTopic(t) /\ TopicJoins(t)
  BY <1>1 DEF TypeTasks, OnlyTopic, TopicJoins, Enqueue, outcome, org, control, bridge
<1>4. /\ item'[t] = Entry(t, n, l) /\ pc'[t] = "charge"
      /\ committed' = committed /\ delivered' = delivered /\ excused' = excused /\ log' = log
  BY <1>1 DEF Enqueue, TypeTasks, outcome, org
<1>5. resume'[t].id = n /\ resume'[t].preset = "CUSTOM" /\ resume'[t].loaded = resume[t].loaded
  <2>1. PICK p \in Positions : p = resume[t]
    BY <1>1 DEF TypeTasks
  <2>2. resume' = [resume EXCEPT ![t] = [p EXCEPT !.id = n, !.preset = "CUSTOM"]]
    BY <1>1, <2>1 DEF Enqueue, TypeTasks, Entry
  <2>3. resume'[t] = [p EXCEPT !.id = n, !.preset = "CUSTOM"]
    BY <1>1, <2>2 DEF TypeTasks
  <2> QED
    BY <2>1, <2>3 DEF Positions
<1>6. conn'[t].last \in Nat /\ log[t] \in Nat /\ conn[t].read \in Nat
  BY <1>1 DEF PubType, TypeTasks, TypeOrg, Streams
<1>7. OwnItem(t)' /\ OwnStream(t)'
  BY <1>4, <1>5, <1>6 DEF OwnItem, OwnStream, Entry
<1>8. Settled(t)'
  BY <1>1, <1>4 DEF TopicSound, Settled
<1>9. ASSUME Running PROVE HeldUpTo(t, n)'
  <2>1. HeldUpTo(t, conn[t].read)
    BY <1>1, <1>9 DEF TopicSound, StreamHeld
  <2>2. QueueGrows /\ NothingLost
    BY <1>3, OnlyTopicFrame
  <2>3. ASSUME NEW e \in 1 .. n, Kept[t][e] PROVE InFlight(t, e)'
    <3>1. CASE e = n /\ l = TRUE
      BY <1>4, <3>1 DEF InFlight
    <3>2. CASE e <= conn[t].read
      <4>1. InFlight(t, e)
        BY <1>6, <2>1, <2>3, <3>2 DEF HeldUpTo
      <4> QED
        BY <1>1, <1>2, <2>2, <4>1, InFlightKept DEF ItemKept
    <3> QED
      BY <2>3, <3>1, <3>2
  <2> QED
    BY <1>4, <1>6, <2>3 DEF HeldUpTo
<1>10. ASSUME Running PROVE StreamHeld(t)' /\ ResumeHeld(t)' /\ FreshClean(t)'
  <2>1. resume[t].loaded
    BY <1>1, <1>10 DEF TopicSound, FreshClean, Placed
  <2> QED
    BY <1>4, <1>5, <1>9, <1>10, <2>1 DEF StreamHeld, ResumeHeld, FreshClean, Placed
<1>11. TopicSound(t)'
  <2>1. Running' = Running
    BY <1>3 DEF OnlyTopic, Running
  <2> QED
    BY <1>7, <1>8, <1>10, <2>1 DEF TopicSound
<1> QED
  BY <1>3, <1>11, TopicKeeps

LEMMA ReceivesKeep ==
    ASSUME PubInv, NEW t \in Topics, Keepalive(t) \/ NextEvent(t)
    PROVE  PubInv'
<1>1. PubType' /\ PubType
  BY TopicStepType DEF PubInv
<1>2. TypeTasks /\ TypeOrg /\ TypeBridge /\ TypeOutcome /\ TopicSound(t)
  BY <1>1 DEF PubInv, PubType
<1>3. PICK c \in Streams : c = conn[t]
  BY <1>2 DEF TypeTasks
<1>4. /\ c.read \in Nat /\ c.last \in Nat /\ log[t] \in Nat /\ c.read <= c.last /\ c.last <= log[t]
      /\ pc[t] = "stream" /\ item[t] = NoItem
  BY <1>2, <1>3 DEF TypeOrg, Streams, TopicSound, OwnStream, OwnItem, Keepalive, NextEvent
<1>5. CASE UNCHANGED <<resume, item>> /\ (UNCHANGED pc \/ pc' = [pc EXCEPT ![t] = "sentinel"])
  <2>1. OnlyTopic(t) /\ TopicJoins(t)
    BY <1>2, <1>5 DEF TypeTasks, OnlyTopic, TopicJoins, Keepalive, NextEvent, org, outcome, control, bridge
  <2>2. /\ UNCHANGED <<committed, log>> /\ (pc'[t] = "sentinel" \/ Keepalive(t))
    <3>1. ~NextEvent(t) \/ pc'[t] # "stream"
      BY <1>2 DEF NextEvent, Enqueue, TypeTasks
    <3> QED
      BY <1>2, <1>4, <1>5, <3>1 DEF Keepalive, NextEvent, org, outcome, TypeTasks
  <2>3. Keepalive(t) => conn'[t].read = c.read /\ conn'[t].last = c.last /\ conn'[t].open
    <3>1. Keepalive(t) => conn'[t] = [c EXCEPT !.open = TRUE]
      BY <1>2, <1>3 DEF Keepalive, TypeTasks
    <3> QED
      BY <1>3, <3>1 DEF Streams
  <2>4. OwnItem(t)'
    BY <1>2, <1>4, <1>5 DEF OwnItem, TypeTasks
  <2>5. OwnStream(t)'
    BY <1>2, <1>3, <1>4, <1>5, <2>2, <2>3 DEF OwnStream, TopicSound
  <2>6. Running => StreamHeld(t)'
    <3>1. CASE pc'[t] = "sentinel"
      BY <3>1 DEF StreamHeld
    <3>2. CASE Keepalive(t)
      BY <1>3, <1>4, <1>5, <2>1, <2>3, <3>2, ReadHeld DEF ItemKept
    <3> QED
      BY <2>2, <3>1, <3>2
  <2>7. (pc'[t] = "load" => ~resume[t].loaded) /\ (pc'[t] \in Placed => pc[t] \in Placed)
    BY <1>2, <1>4, <1>5 DEF Placed, TypeTasks
  <2> QED
    BY <1>1, <1>5, <2>1, <2>2, <2>4, <2>5, <2>6, <2>7, TaskGoesOn DEF ItemKept
<1>6. ASSUME Keepalive(t), Enqueue(t, Entry(t, log[t], FALSE)) PROVE PubInv'
  <2>1. conn'[t] = [c EXCEPT !.open = TRUE] /\ \A u \in Topics \ {t} : conn'[u] = conn[u]
    BY <1>2, <1>3, <1>6 DEF Keepalive, TypeTasks
  <2>2. conn'[t].read = c.read /\ conn'[t].last = c.last /\ conn'[t].open
    BY <1>3, <2>1 DEF Streams
  <2>3. c.read = log[t] /\ UNCHANGED <<outcome, org, control, bridge>>
    BY <1>3, <1>6 DEF Keepalive
  <2>4. PICK n \in Nat : n = log[t]
    BY <1>4
  <2>5. n <= conn'[t].last /\ conn'[t].last <= log[t] /\ conn'[t].read = n
    BY <1>4, <2>2, <2>3, <2>4
  <2>6. \A e \in 1 .. n : e <= conn[t].read
    BY <1>3, <2>3, <2>4
  <2> QED
    BY <1>1, <1>4, <1>6, <2>1, <2>2, <2>3, <2>4, <2>5, <2>6, EnqueueKeeps
<1>7. ASSUME NextEvent(t), Enqueue(t, Entry(t, c.read + 1, Kept[t][c.read + 1])) PROVE PubInv'
  <2>1. PICK n \in Nat : n = c.read + 1
    BY <1>4
  <2>2. Kept[t][n] \in BOOLEAN /\ n <= log[t] /\ n <= c.last
    BY <1>3, <1>4, <1>7, <2>1, NextRead DEF NextEvent
  <2>3. PICK l \in BOOLEAN : l = Kept[t][n]
    BY <2>2
  <2>4. conn'[t] = [c EXCEPT !.read = n] /\ \A u \in Topics \ {t} : conn'[u] = conn[u]
    BY <1>2, <1>3, <1>7, <2>1 DEF NextEvent, TypeTasks
  <2>5. conn'[t].read = n /\ conn'[t].last = c.last /\ conn'[t].open
    BY <1>3, <1>7, <2>4 DEF Streams, NextEvent
  <2>6. UNCHANGED <<outcome, org, control, bridge>>
    BY <1>7 DEF NextEvent
  <2>7. \A e \in 1 .. n : Kept[t][e] => e <= conn[t].read \/ (e = n /\ l = TRUE)
    BY <1>3, <1>4, <2>1, <2>3
  <2> QED
    BY <1>1, <1>4, <1>7, <2>1, <2>2, <2>3, <2>4, <2>5, <2>6, <2>7, EnqueueKeeps
<1> QED
  BY <1>3, <1>5, <1>6, <1>7 DEF Keepalive, NextEvent

\* An entry gets its place in the queue, or waits for it.
LEMMA JoinKeeps ==
    ASSUME PubInv, NEW t \in Topics, Charge(t) \/ PutItem(t)
    PROVE  PubInv'
<1>1. PubType' /\ PubType
  BY TopicStepType DEF PubInv
<1>2. TypeTasks /\ TypeOrg /\ TypeBridge /\ TypeOutcome /\ TopicSound(t)
  BY <1>1 DEF PubInv, PubType
<1>3. pc[t] \in {"charge", "put"} /\ UNCHANGED <<resume, conn, committed, log>>
  BY DEF Charge, PutItem, outcome, org
<1>4. OnlyTopic(t)
  BY <1>2 DEF TypeTasks, OnlyTopic, Charge, PutItem, org, outcome, control
<1>5. \/ queue' = queue /\ item' = item /\ pc'[t] = "put"
      \/ queue' = Append(queue, item[t]) /\ item'[t] = NoItem /\ pc'[t] = "stream"
  BY <1>2 DEF Charge, PutItem, TypeTasks
<1>6. TopicJoins(t) /\ ItemKept(t) /\ item'[t] \in {item[t], NoItem}
  BY <1>3, <1>5 DEF TopicJoins, ItemKept
<1>7. OwnItem(t)' /\ OwnStream(t)'
  BY <1>2, <1>3, <1>5 DEF TopicSound, OwnItem, OwnStream
<1>8. Running => StreamHeld(t)'
  BY <1>3, <1>4, <1>6, ReadHeld
<1> QED
  BY <1>1, <1>3, <1>4, <1>5, <1>6, <1>7, <1>8, TaskGoesOn DEF Placed

-----------------------------------------------------------------------------
(* Every other step keeps the types.                                         *)

LEMMA ControlType ==
    ASSUME PubType, Start \/ Rediscover \/ RediscoverEnds \/ PutRediscoverSentinel \/ SetStop
                    \/ Cancel \/ Close \/ Kill
    PROVE  PubType'
<1>1. TypeOrg' /\ TypeOutcome'
  BY OrgType, OutcomeType DEF Start, Rediscover, RediscoverEnds, PutRediscoverSentinel, SetStop, Cancel,
     Close, Kill, org
<1>2. NoStream \in Streams /\ NoItem \in Items /\ NoPosition \in Positions /\ Sentinel \in Items
  BY SentinelItem DEF NoStream, Streams, NoPosition, Positions
<1>3. TypeTasks'
  BY <1>2 DEF PubType, TypeTasks, Places, Start, Rediscover, Spawn, RediscoverEnds, PutRediscoverSentinel,
     SetStop, Cancel, Close, Kill, tasks
<1>4. TypeBridge'
  <2>1. queue' \in Seq(Items)
    <3>1. queue' = queue \/ queue' = <<>> \/ queue' = Append(queue, Sentinel)
      BY DEF Start, Rediscover, RediscoverEnds, PutRediscoverSentinel, SentinelPut, SetStop, Cancel,
         Close, Kill, bridge
    <3>2. queue \in Seq(Items) /\ Sentinel \in Items /\ <<>> \in Seq(Items)
      BY <1>2 DEF PubType, TypeBridge
    <3>3. Append(queue, Sentinel) \in Seq(Items)
      BY <3>2
    <3> QED
      BY <3>1, <3>2, <3>3
  <2> QED
    BY <1>2, <2>1 DEF PubType, TypeBridge, Start, Rediscover, RediscoverEnds, PutRediscoverSentinel,
       SetStop, Cancel, Close, Kill
<1> QED
  BY <1>1, <1>3, <1>4 DEF PubType

LEMMA EventsType ==
    ASSUME PubType, NEW t \in Topics, Publish(t) \/ Enable(t) \/ Expire(t)
    PROVE  PubType'
<1>1. TypeOutcome' /\ TypeTasks' /\ TypeBridge'
  BY DEF PubType, TypeOutcome, TypeTasks, TypeBridge, Publish, Enable, Expire, outcome, tasks, bridge,
         control
<1>2. TypeOrg'
  <2>1. CASE Publish(t)
    <3>1. log[t] \in Nat /\ log[t] + 1 \in Nat /\ Len(Kept[t]) \in Nat
      BY DEF PubType, TypeOrg
    <3>2. log' \in [Topics -> Nat] /\ \A u \in Topics : log'[u] = IF u = t THEN log[t] + 1 ELSE log[u]
      BY <2>1, <3>1 DEF Publish, PubType, TypeOrg
    <3>3. \A u \in Topics : log'[u] <= Len(Kept[u])
      BY <2>1, <3>1, <3>2 DEF Publish, PubType, TypeOrg
    <3>4. \A u \in Topics : oldest'[u] \in 1 .. log'[u] + 1
      BY <2>1, <3>1, <3>2 DEF Publish, PubType, TypeOrg
    <3> QED
      BY <2>1, <3>2, <3>3, <3>4 DEF Publish, PubType, TypeOrg
  <2>2. CASE Enable(t)
    BY <2>2 DEF Enable, PubType, TypeOrg
  <2>3. CASE Expire(t)
    <3>1. PICK n \in oldest[t] + 1 .. log[t] + 1 : oldest' = [oldest EXCEPT ![t] = n]
      BY <2>3 DEF Expire
    <3>2. n \in 1 .. log[t] + 1 /\ n \in Nat
      BY <3>1 DEF PubType, TypeOrg
    <3> QED
      BY <2>3, <3>1, <3>2 DEF Expire, PubType, TypeOrg
  <2> QED
    BY <2>1, <2>2, <2>3
<1> QED
  BY <1>1, <1>2 DEF PubType

LEMMA SettleType ==
    ASSUME PubType, Take \/ Settle
    PROVE  PubType'
<1>1. TypeOrg' /\ TypeTasks'
  BY OrgType DEF Take, Settle, org, tasks, PubType, TypeTasks
<1>2. CASE Take
  <2>1. Head(queue) \in Items /\ Tail(queue) \in Seq(Items)
    BY <1>2 DEF Take, PubType, TypeBridge
  <2>2. TypeBridge'
    BY <1>2, <2>1 DEF Take, PubType, TypeBridge
  <2> QED
    BY <1>1, <1>2, <2>2, OutcomeType DEF Take, PubType
<1>3. CASE Settle
  <2>1. yielded.id \in Nat
    BY DEF PubType, TypeBridge, Items
  <2>2. TypeOutcome'
    BY <1>3, <2>1 DEF Settle, PubType, TypeOutcome
  <2>3. TypeBridge'
    BY <1>3, SentinelItem DEF Settle, PubType, TypeBridge, bridge
  <2> QED
    BY <1>1, <2>2, <2>3 DEF PubType
<1> QED
  BY <1>2, <1>3

-----------------------------------------------------------------------------
(* Every other step keeps the invariant.                                     *)

\* Nobody but the org, the stop event and the re-discovery moves.
LEMMA OrgKeeps ==
    ASSUME PubInv, PubType', UNCHANGED <<resume, conn, item, outcome, yielded, gen>>,
           queue' = queue \/ queue' = Append(queue, Sentinel),
           \A t \in Topics : log[t] <= log'[t],
           \A t \in Topics : pc'[t] = pc[t] \/ (pc[t] = "off" /\ pc'[t] = "head")
    PROVE  PubInv'
<1>1. /\ TypeBridge /\ TypeTasks /\ TypeOutcome /\ log \in [Topics -> Nat] /\ log' \in [Topics -> Nat]
      /\ QueueSound /\ YieldSound
  BY DEF PubInv, PubType, TypeOrg
<1>2. QueueGrows /\ NothingLost /\ JoinsHeld /\ Running' = Running
  BY SentinelItem DEF QueueGrows, NothingLost, JoinsHeld, Running, outcome
<1>3. YieldSound'
  <2>1. PICK u, n, k : u = yielded.topic /\ n = yielded.id /\ k = 0
    OBVIOUS
  <2>2. n \in Nat /\ k \in 0 .. Len(queue)
    BY <1>1, <2>1 DEF TypeBridge, Items
  <2>3. u \in Topics /\ AheadUpTo(u, n, k) => AheadUpTo(u, n, k)'
    BY <1>1, <1>2, <2>2, AheadKept
  <2> QED
    BY <1>1, <2>1, <2>3 DEF YieldSound
<1>4. QueueSound'
  <2>1. CASE Running
    BY <1>1, <1>2, <2>1, QueueSoundKept
  <2>2. CASE ~Running
    BY <1>2, <2>2 DEF QueueSound
  <2> QED
    BY <2>1, <2>2
<1>5. ASSUME NEW t \in Topics PROVE TopicSound(t)'
  <2>1. TopicSound(t) /\ log[t] \in Nat /\ log'[t] \in Nat /\ log[t] <= log'[t]
    BY <1>1 DEF PubInv
  <2>2. PICK r, i : r = conn[t].read /\ i = resume[t].id
    OBVIOUS
  <2>3. r \in Nat /\ i \in Nat /\ conn[t].last \in Nat /\ committed[t] \in Nat
    BY <1>1, <2>2 DEF TypeTasks, TypeOutcome, Streams, Positions
  <2>4. OwnItem(t)' /\ OwnStream(t)'
    BY <2>1, <2>2, <2>3 DEF TopicSound, OwnItem, OwnStream
  <2>5. Settled(t)'
    BY <2>1, <2>3 DEF TopicSound, Settled, outcome
  <2>6. ASSUME Running, StreamHeld(t) PROVE StreamHeld(t)'
    <3>1. HeldUpTo(t, r) => HeldUpTo(t, r)'
      BY <1>1, <1>2, <2>3, HeldKept DEF ItemKept
    <3> QED
      BY <2>2, <2>6, <3>1 DEF StreamHeld
  <2>7. ASSUME Running, ResumeHeld(t) PROVE ResumeHeld(t)'
    <3>1. HeldUpTo(t, i) => HeldUpTo(t, i)'
      BY <1>1, <1>2, <2>3, HeldKept DEF ItemKept
    <3> QED
      BY <2>2, <2>7, <3>1 DEF ResumeHeld
  <2>8. Clean(t) => Clean(t)'
    <3>1. ASSUME Clean(t), NEW k \in 1 .. Len(queue') PROVE queue'[k].topic # t
      <4>1. CASE k \in 1 .. Len(queue)
        BY <1>1, <1>2, <3>1, <4>1, QueuePrefix DEF Clean
      <4>2. CASE k \notin 1 .. Len(queue)
        <5>1. queue' = Append(queue, Sentinel) => queue'[k] = Sentinel
          BY <1>1, <3>1, <4>2, SentinelItem DEF TypeBridge
        <5> QED
          BY <3>1, <4>2, <5>1, SentinelItem
      <4> QED
        BY <4>1, <4>2
    <3> QED
      BY <3>1 DEF Clean
  <2>9. FreshClean(t) => FreshClean(t)'
    BY <2>8 DEF FreshClean, Placed, outcome
  <2> QED
    BY <1>2, <2>1, <2>4, <2>5, <2>6, <2>7, <2>9 DEF TopicSound
<1> QED
  BY <1>3, <1>4, <1>5 DEF PubInv

LEMMA OrgStepsKeep ==
    ASSUME PubInv, \/ Rediscover \/ RediscoverEnds \/ PutRediscoverSentinel \/ SetStop
                   \/ \E t \in Topics : Publish(t) \/ Enable(t) \/ Expire(t)
    PROVE  PubInv'
<1>1. PubType /\ TypeOrg /\ TypeTasks
  BY DEF PubInv, PubType
<1>2. CASE Rediscover \/ RediscoverEnds \/ PutRediscoverSentinel \/ SetStop
  <2>1. PubType' /\ UNCHANGED <<resume, conn, item, outcome, yielded, gen, log>>
    BY <1>1, <1>2, ControlType DEF Rediscover, RediscoverEnds, PutRediscoverSentinel, SetStop, tasks, org
  <2>2. queue' = queue \/ queue' = Append(queue, Sentinel)
    BY <1>2 DEF Rediscover, RediscoverEnds, PutRediscoverSentinel, SetStop, SentinelPut, bridge
  <2>3. \A t \in Topics : pc'[t] = pc[t] \/ (pc[t] = "off" /\ pc'[t] = "head")
    BY <1>1, <1>2 DEF Rediscover, Spawn, Subscribed, RediscoverEnds, PutRediscoverSentinel, SetStop, tasks
  <2>4. \A t \in Topics : log[t] <= log'[t]
    BY <1>1, <2>1 DEF TypeOrg
  <2> QED
    BY <2>1, <2>2, <2>3, <2>4, OrgKeeps
<1>3. ASSUME NEW t \in Topics, Publish(t) \/ Enable(t) \/ Expire(t) PROVE PubInv'
  <2>1. PubType' /\ UNCHANGED <<resume, conn, item, pc, outcome, yielded, gen, queue>>
    BY <1>1, <1>3, EventsType DEF Publish, Enable, Expire, tasks, control, bridge
  <2>2. \A u \in Topics : log[u] <= log'[u]
    <3>1. log[t] \in Nat /\ (log' = log \/ log' = [log EXCEPT ![t] = log[t] + 1])
      BY <1>1, <1>3 DEF Publish, Enable, Expire, TypeOrg
    <3>2. \A u \in Topics : log[u] \in Nat
      BY <1>1 DEF TypeOrg
    <3>3. CASE log' = [log EXCEPT ![t] = log[t] + 1]
      BY <1>1, <3>1, <3>2, <3>3 DEF TypeOrg
    <3> QED
      BY <3>1, <3>2, <3>3
  <2> QED
    BY <2>1, <2>2, OrgKeeps
<1> QED
  BY <1>2, <1>3

\* Where the generator starts, is cancelled, ends or dies, nothing is under way.
LEMMA ResetKeeps ==
    ASSUME PubInv, Start \/ Cancel \/ Close \/ Kill
    PROVE  PubInv'
<1>1. PubType /\ PubType' /\ TypeOrg /\ TypeTasks /\ UNCHANGED <<log, outcome>>
  BY ControlType DEF PubInv, PubType, Start, Cancel, Close, Kill, org
<1>2. ASSUME NEW t \in Topics
      PROVE  item'[t] = NoItem /\ pc'[t] \in {"off", "head", "sentinel", "ended"}
  BY <1>1, <1>2 DEF PubInv, TopicSound, OwnItem, TypeTasks, Places, Start, Cancel, Close, Kill, AllEnded,
     tasks
<1>3. Running' => Start
  BY DEF Running, Cancel, Close, Kill
<1>4. Start => /\ yielded' = NoItem /\ gen' = "get" /\ queue' = <<>>
               /\ \A t \in Topics : resume'[t] = NoPosition
  BY DEF Start
<1>5. YieldSound' /\ QueueSound'
  <2>1. Len(<<>>) = 0 /\ 1 .. 0 = {}
    OBVIOUS
  <2> QED
    BY <1>3, <1>4, <2>1 DEF YieldSound, QueueSound, Running
<1>6. ASSUME NEW t \in Topics PROVE TopicSound(t)'
  <2>1. TopicSound(t) /\ log[t] \in Nat
    BY <1>1 DEF PubInv, TypeOrg
  <2>2. OwnItem(t)' /\ Settled(t)' /\ StreamHeld(t)'
    BY <1>1, <1>2, <2>1 DEF TopicSound, OwnItem, Settled, StreamHeld, outcome
  <2>3. OwnStream(t)'
    <3>1. resume'[t] = resume[t] \/ resume'[t].id = 0
      BY DEF Start, Cancel, Close, Kill, NoPosition, tasks
    <3> QED
      BY <1>1, <1>2, <2>1, <3>1 DEF TopicSound, OwnStream
  <2>4. ASSUME Start PROVE ResumeHeld(t)' /\ FreshClean(t)'
    <3>1. ~resume'[t].loaded
      BY <1>4, <2>4 DEF NoPosition
    <3>2. Clean(t)'
      <4>1. Len(<<>>) = 0 /\ 1 .. 0 = {}
        OBVIOUS
      <4> QED
        BY <1>2, <1>4, <2>4, <4>1, SentinelItem DEF Clean, NoItem
    <3> QED
      BY <1>2, <3>1, <3>2 DEF ResumeHeld, FreshClean, Placed
  <2> QED
    BY <1>3, <2>2, <2>3, <2>4 DEF TopicSound
<1> QED
  BY <1>1, <1>5, <1>6 DEF PubInv

\* The generator yields the head of the queue or settles what it has yielded.
LEMMA GeneratorKeeps ==
    ASSUME PubInv, PubType', Running, UNCHANGED <<log, tasks>>, YieldSound', QueueSound',
           \A t \in Topics, e \in Nat : InFlight(t, e) => InFlight(t, e)',
           \A t \in Topics : Clean(t) => Clean(t)' /\ committed'[t] = committed[t],
           \A t \in Topics : Settled(t)'
    PROVE  PubInv'
<1>1. ASSUME NEW t \in Topics PROVE TopicSound(t)'
  <2>1. TopicSound(t) /\ UNCHANGED <<pc, resume, conn, item>>
    BY DEF PubInv, tasks
  <2>2. OwnItem(t)' /\ OwnStream(t)'
    BY <2>1 DEF TopicSound, OwnItem, OwnStream
  <2>3. PICK r, i : r = conn[t].read /\ i = resume[t].id
    OBVIOUS
  <2>4. r \in Nat /\ i \in Nat
    BY <2>3 DEF PubInv, PubType, TypeTasks, Streams, Positions
  <2>5. ASSUME NEW n \in Nat, HeldUpTo(t, n) PROVE HeldUpTo(t, n)'
    BY <2>5 DEF HeldUpTo
  <2>6. StreamHeld(t)' /\ ResumeHeld(t)'
    BY <2>1, <2>3, <2>4, <2>5 DEF TopicSound, StreamHeld, ResumeHeld
  <2>7. FreshClean(t)'
    BY <2>1 DEF TopicSound, FreshClean
  <2> QED
    BY <2>2, <2>6, <2>7 DEF TopicSound
<1> QED
  BY <1>1 DEF PubInv

LEMMA TakeKeeps ==
    ASSUME PubInv, Take
    PROVE  PubInv'
<1>1. /\ PubType /\ PubType' /\ TypeBridge /\ TypeBridge' /\ QueueSound /\ Running
      /\ gen = "get" /\ yielded = NoItem
      /\ UNCHANGED <<log, tasks, committed, delivered, excused>>
  BY SettleType DEF PubInv, PubType, YieldSound, Running, Take, org, outcome
<1>2. PICK x \in Items : x = queue[1] /\ Head(queue) = x
  BY DEF Take, PubInv, PubType, TypeBridge
<1>3. /\ Len(queue) \in Nat /\ Len(queue') = Len(queue) - 1 /\ Len(queue') \in Nat /\ 1 \in 1 .. Len(queue)
      /\ \A m \in 1 .. Len(queue') : m + 1 \in 1 .. Len(queue) /\ queue'[m] = queue[m + 1]
  BY <1>1 DEF Take, TypeBridge
<1>4. (x = Sentinel /\ yielded' = NoItem) \/ (yielded' = x /\ gen' = "yield" /\ x # Sentinel)
  BY <1>1, <1>2 DEF Take
\* Each place moves one up, and the head is what is yielded.
<1>5. ASSUME NEW t \in Topics, NEW e, NEW k \in Nat, k + 1 <= Len(queue), Coming(t, e, k + 1)
      PROVE  Coming(t, e, k)'
  <2>1. CASE e \in delivered[t] \cup excused[t]
    BY <1>1, <2>1 DEF Coming
  <2>2. ASSUME NEW m \in 1 .. k + 1, queue[m] = Entry(t, e, TRUE) PROVE Coming(t, e, k)'
    <3>1. CASE m = 1
      BY <1>2, <1>4, <2>2, <3>1, SentinelItem DEF Coming
    <3>2. CASE m # 1
      <4>1. PICK l : l = m - 1
        OBVIOUS
      <4>2. l \in 1 .. k /\ l \in 1 .. Len(queue') /\ m = l + 1
        BY <1>3, <1>5, <3>2, <4>1
      <4>3. queue'[l] = Entry(t, e, TRUE)
        BY <1>3, <2>2, <4>2
      <4> QED
        BY <4>2, <4>3 DEF Coming
    <3> QED
      BY <3>1, <3>2
  <2>3. yielded # Entry(t, e, TRUE)
    BY <1>1, SentinelItem DEF NoItem
  <2> QED
    BY <1>5, <2>1, <2>2, <2>3 DEF Coming
<1>6. ASSUME NEW t \in Topics, NEW n \in Nat, NEW k \in Nat, k + 1 <= Len(queue), AheadUpTo(t, n, k + 1)
      PROVE  AheadUpTo(t, n, k)'
  <2>1. n <= log'[t]
    BY <1>1, <1>6 DEF AheadUpTo
  <2>2. ASSUME NEW e \in 1 .. n, Kept[t][e] PROVE Coming(t, e, k)'
    BY <1>5, <1>6, <2>2 DEF AheadUpTo
  <2> QED
    BY <2>1, <2>2 DEF AheadUpTo
<1>7. YieldSound'
  <2>1. CASE x = Sentinel
    <3>1. yielded' = NoItem /\ gen' # "yield"
      BY <1>1, <1>2, <1>4, <2>1 DEF Take
    <3> QED
      BY <3>1 DEF YieldSound
  <2>2. CASE x # Sentinel
    <3>1. PICK u, n : u = x.topic /\ n = x.id
      OBVIOUS
    <3>2. u \in Topics /\ AheadUpTo(u, n, 1) /\ n \in Nat
      BY <1>1, <1>2, <1>3, <2>2, <3>1 DEF QueueSound, Items
    <3>3. PICK k \in Nat : k = 0
      OBVIOUS
    <3>4. k + 1 = 1 /\ k + 1 <= Len(queue)
      BY <1>3, <3>3
    <3>5. AheadUpTo(u, n, k)'
      BY <1>6, <3>2, <3>4
    <3> QED
      BY <1>4, <2>2, <3>1, <3>2, <3>3, <3>5 DEF YieldSound
  <2> QED
    BY <2>1, <2>2
<1>8. QueueSound'
  <2>1. ASSUME NEW k \in 1 .. Len(queue'), queue'[k] # Sentinel
        PROVE  queue'[k].topic \in Topics /\ AheadUpTo(queue[k].topic, queue[k].id, k)'
    <3>1. PICK y \in Items : y = queue[k + 1] /\ queue'[k] = y
      BY <1>1, <1>3, <2>1 DEF TypeBridge
    <3>2. PICK u, n : u = y.topic /\ n = y.id
      OBVIOUS
    <3>3. u \in Topics /\ AheadUpTo(u, n, k + 1) /\ n \in Nat
      BY <1>1, <1>3, <2>1, <3>1, <3>2 DEF QueueSound, Items
    <3>4. AheadUpTo(u, n, k)'
      BY <1>3, <1>6, <2>1, <3>3
    <3> QED
      BY <3>1, <3>2, <3>3, <3>4
  <2> QED
    BY <2>1 DEF QueueSound
<1>9. ASSUME NEW t \in Topics, NEW e \in Nat, InFlight(t, e) PROVE InFlight(t, e)'
  <2>1. CASE item[t] = Entry(t, e, TRUE)
    BY <1>1, <2>1 DEF InFlight, tasks
  <2>2. CASE Coming(t, e, Len(queue))
    <3>1. PICK k \in Nat : k = Len(queue')
      BY <1>3
    <3>2. k + 1 = Len(queue)
      BY <1>3, <3>1
    <3>3. Coming(t, e, k)'
      BY <1>3, <1>5, <2>2, <3>2
    <3> QED
      BY <3>1, <3>3 DEF InFlight
  <2> QED
    BY <1>9, <2>1, <2>2 DEF InFlight
<1>10. ASSUME NEW t \in Topics, Clean(t) PROVE Clean(t)'
  <2>1. yielded'.topic # t
    BY <1>2, <1>3, <1>4, <1>10, SentinelItem DEF Clean, NoItem
  <2>2. \A k \in 1 .. Len(queue') : queue'[k].topic # t
    BY <1>3, <1>10 DEF Clean
  <2> QED
    BY <1>1, <1>10, <2>1, <2>2 DEF Clean, tasks
<1>11. ASSUME NEW t \in Topics PROVE Settled(t)'
  BY <1>1 DEF PubInv, TopicSound, Settled
<1> QED
  BY <1>1, <1>7, <1>8, <1>9, <1>10, <1>11, GeneratorKeeps


LEMMA SettleKeeps ==
    ASSUME PubInv, Settle
    PROVE  PubInv'
<1>1. PubType /\ PubType' /\ TypeBridge /\ TypeOutcome /\ TypeOrg /\ gen = "yield" /\ gen' = "get" /\ Running
  BY SettleType DEF PubInv, PubType, Running, Settle
<1>2. UNCHANGED <<log, tasks, excused, queue>> /\ yielded' = NoItem
  BY DEF Settle, org, bridge
<1>3. PICK u, n : u = yielded.topic /\ n = yielded.id
  OBVIOUS
<1>4. u \in Topics /\ n \in Nat /\ AheadUpTo(u, n, 0)
  BY <1>1, <1>3 DEF PubInv, YieldSound, TypeBridge, Items
<1>5. /\ committed' = [committed EXCEPT ![u] = n]
      /\ delivered' = IF yielded.live THEN [delivered EXCEPT ![u] = @ \cup {n}] ELSE delivered
  BY <1>3 DEF Settle
<1>6. \A t \in Topics : delivered[t] \subseteq delivered'[t]
  BY <1>1, <1>5 DEF TypeOutcome
<1>7. ASSUME NEW t \in Topics, NEW e, yielded = Entry(t, e, TRUE) PROVE e \in delivered'[t]
  BY <1>1, <1>3, <1>5, <1>7 DEF Entry, TypeOutcome
<1>8. ASSUME NEW t \in Topics, NEW e, NEW k, Coming(t, e, k) PROVE Coming(t, e, k)'
  BY <1>2, <1>6, <1>7, <1>8 DEF Coming
<1>9. YieldSound'
  BY <1>1, <1>2 DEF YieldSound
<1>10. QueueSound'
  <2>1. ASSUME NEW t \in Topics, NEW m, NEW k, AheadUpTo(t, m, k) PROVE AheadUpTo(t, m, k)'
    BY <1>2, <1>8, <2>1 DEF AheadUpTo
  <2>2. ASSUME NEW k \in 1 .. Len(queue), queue[k] # Sentinel
        PROVE  queue[k].topic \in Topics /\ AheadUpTo(queue[k].topic, queue[k].id, k)'
    <3>1. PICK t, m : t = queue[k].topic /\ m = queue[k].id
      OBVIOUS
    <3>2. t \in Topics /\ AheadUpTo(t, m, k)
      BY <1>1, <2>2, <3>1 DEF PubInv, QueueSound
    <3>3. AheadUpTo(t, m, k)'
      BY <2>1, <3>2
    <3>4. t = queue'[k].topic /\ m = queue'[k].id
      BY <1>2, <3>1
    <3> QED
      BY <3>1, <3>2, <3>3, <3>4
  <2> QED
    BY <1>2, <2>2 DEF QueueSound
<1>11. ASSUME NEW t \in Topics, NEW e \in Nat, InFlight(t, e) PROVE InFlight(t, e)'
  <2>1. PICK k : k = Len(queue)
    OBVIOUS
  <2>2. Coming(t, e, k) => Coming(t, e, k)'
    BY <1>8
  <2> QED
    BY <1>2, <1>11, <2>1, <2>2 DEF InFlight, tasks
<1>12. ASSUME NEW t \in Topics, Clean(t) PROVE Clean(t)' /\ committed'[t] = committed[t]
  <2>1. t # u
    BY <1>3, <1>12 DEF Clean
  <2> QED
    BY <1>1, <1>2, <1>5, <1>12, <2>1, SentinelItem DEF Clean, NoItem, tasks, TypeOutcome
<1>13. ASSUME NEW t \in Topics PROVE Settled(t)'
  <2>1. Settled(t) /\ committed[t] \in Nat
    BY <1>1 DEF PubInv, TopicSound, TypeOutcome
  <2>2. CASE t # u
    BY <1>1, <1>2, <1>5, <1>6, <2>1, <2>2 DEF Settled, TypeOutcome
  <2>3. CASE t = u
    <3>1. committed'[t] = n
      BY <1>1, <1>5, <2>3 DEF TypeOutcome
    <3>2. ASSUME NEW e \in 1 .. n, Kept[t][e] PROVE e \in delivered'[t] \cup excused'[t]
      <4>1. Coming(t, e, 0)
        BY <1>4, <2>3, <3>2 DEF AheadUpTo
      <4>2. ~\E m \in 1 .. 0 : queue[m] = Entry(t, e, TRUE)
        OBVIOUS
      <4> QED
        BY <1>2, <1>6, <1>7, <4>1, <4>2 DEF Coming
    <3>3. n <= log'[t]
      BY <1>2, <1>4, <2>3 DEF AheadUpTo
    <3> QED
      BY <3>1, <3>2, <3>3 DEF Settled
  <2> QED
    BY <2>2, <2>3
<1> QED
  BY <1>1, <1>2, <1>9, <1>10, <1>11, <1>12, <1>13, GeneratorKeeps

-----------------------------------------------------------------------------
(* The theorem.                                                              *)

LEMMA PubSubBegins ==
    ASSUME PubSubInit
    PROVE  PubInv
<1>1. log \in [Topics -> Nat] /\ \A t \in Topics : log[t] <= Len(Kept[t])
  <2>1. PICK f \in [Topics -> 0 .. MaxLen] : log = f /\ \A t \in Topics : f[t] <= Len(Kept[t])
    BY DEF PubSubInit
  <2>2. \A n \in 0 .. MaxLen : n \in Int /\ 0 <= n
    OBVIOUS
  <2>3. \A t \in Topics : f[t] \in Nat
    BY <2>1, <2>2
  <2> QED
    BY <2>1, <2>3
<1>2. NoStream \in Streams /\ NoItem \in Items /\ NoPosition \in Positions
  BY SentinelItem DEF NoStream, Streams, NoPosition, Positions
<1>3. TypeOrg
  BY <1>1 DEF PubSubInit, TypeOrg
<1>4. TypeOutcome
  <2>1. \A t \in Topics : KeptUpTo(t, committed[t]) \subseteq Nat
    BY DEF KeptUpTo
  <2> QED
    BY <1>1, <2>1 DEF PubSubInit, TypeOutcome
<1>5. TypeTasks
  BY <1>2 DEF PubSubInit, TypeTasks, Places
<1>6. TypeBridge
  <2>1. <<>> \in Seq(Items)
    OBVIOUS
  <2> QED
    BY <1>2, <2>1 DEF PubSubInit, TypeBridge
<1>7. YieldSound /\ QueueSound /\ ~Running
  BY DEF PubSubInit, YieldSound, QueueSound, Running
<1>8. ASSUME NEW t \in Topics PROVE TopicSound(t)
  <2>1. log[t] \in Nat /\ delivered[t] = KeptUpTo(t, committed[t]) /\ committed[t] = log[t]
    BY <1>1 DEF PubSubInit
  <2>2. OwnItem(t) /\ OwnStream(t)
    BY <2>1 DEF PubSubInit, OwnItem, OwnStream, NoPosition
  <2>3. Settled(t)
    BY <2>1 DEF Settled, KeptUpTo
  <2> QED
    BY <1>7, <2>2, <2>3 DEF TopicSound
<1> QED
  BY <1>3, <1>4, <1>5, <1>6, <1>7, <1>8 DEF PubInv, PubType

LEMMA PubSubStep ==
    ASSUME PubInv, [PubSubNext]_pubsubVars
    PROVE  PubInv'
<1>1. CASE UNCHANGED pubsubVars
  <2>1. PubType'
    BY <1>1 DEF pubsubVars, org, outcome, control, tasks, bridge, PubInv, PubType, TypeOrg, TypeOutcome,
       TypeTasks, TypeBridge
  <2>2. \A t \in Topics : log[t] <= log'[t]
    BY <1>1 DEF pubsubVars, org, PubInv, PubType, TypeOrg
  <2> QED
    BY <1>1, <2>1, <2>2, OrgKeeps DEF pubsubVars, org, outcome, control, tasks, bridge
<1>2. CASE Rediscover \/ RediscoverEnds \/ PutRediscoverSentinel \/ SetStop
  BY <1>2, OrgStepsKeep
<1>3. CASE Start \/ Cancel \/ Close \/ Kill
  BY <1>3, ResetKeeps
<1>4. CASE Take
  BY <1>4, TakeKeeps
<1>5. CASE Settle
  BY <1>5, SettleKeeps
<1>6. ASSUME NEW t \in Topics,
             \/ Publish(t) \/ Expire(t) \/ Enable(t)
             \/ TopicStep(t) \/ Keepalive(t) \/ IdRejected(t) \/ TopicFault(t)
      PROVE  PubInv'
  <2>1. CASE Publish(t) \/ Expire(t) \/ Enable(t)
    BY <2>1, OrgStepsKeep
  <2>2. CASE LoopHead(t) \/ LoadFails(t) \/ StreamEnds(t) \/ SchemaFails(t) \/ TopUpFails(t) \/ PutSentinel(t)
    BY <2>2, LeavesStream
  <2>3. CASE Load(t) \/ LoadCorrupt(t) \/ IdRejected(t)
    BY <2>3, NewPosition
  <2>4. CASE Connect(t)
    BY <2>4, ConnectKeeps
  <2>5. CASE Respond(t) \/ TopUp(t)
    BY <2>5, ReadsOn
  <2>6. CASE NextEvent(t) \/ Keepalive(t)
    BY <2>6, ReceivesKeep
  <2>7. CASE Charge(t) \/ PutItem(t)
    BY <2>7, JoinKeeps
  <2>8. CASE PoisonEvent(t)
    BY <2>8, PoisonKeeps
  <2> QED
    BY <1>6, <2>1, <2>2, <2>3, <2>4, <2>5, <2>6, <2>7, <2>8 DEF TopicStep, TopicFault
<1> QED
  BY <1>1, <1>2, <1>3, <1>4, <1>5, <1>6 DEF PubSubNext

\* The stored replay id never passes an event that should have been pushed and was
\* not: whatever a task does between two awaits (_run_topic and _enqueue of
\* pubsub_source.py, subscribe of pubsub_client.py), keepalives, rejections, lost
\* streams, cancelled and killed runs included.
THEOREM EventsNeverSkipped == PubSubSpec => []NoSkip
<1>1. PubInv => NoSkip
  BY DEF PubInv, TopicSound, Settled, NoSkip, KeptUpTo
<1> QED
  BY <1>1, PubSubBegins, PubSubStep, PTL DEF PubSubSpec

-----------------------------------------------------------------------------
(* The bridge: counting what is in the queue.                                *)

\* The places of a sequence that hold a member of P.
PlacesOf(q, P) == {k \in DOMAIN q : q[k] \in P}

LEMMA CountPlaces ==
    ASSUME NEW S, NEW q \in Seq(S), NEW P
    PROVE  IsFiniteSet(PlacesOf(q, P)) /\ Cardinality(PlacesOf(q, P)) \in Nat
<1>1. Len(q) \in Nat /\ PlacesOf(q, P) \in SUBSET (1 .. Len(q))
  BY DEF PlacesOf
<1>2. IsFiniteSet(1 .. Len(q))
  BY <1>1, FS_Interval
<1>3. IsFiniteSet(PlacesOf(q, P))
  BY <1>1, <1>2, FS_Subset
<1> QED
  BY <1>3, FS_CardinalityType

LEMMA CountAppend ==
    ASSUME NEW S, NEW q \in Seq(S), NEW x \in S, NEW P
    PROVE  Cardinality(PlacesOf(Append(q, x), P))
               = Cardinality(PlacesOf(q, P)) + IF x \in P THEN 1 ELSE 0
<1>1. PICK r \in Seq(S) : r = Append(q, x)
  <2>1. Append(q, x) \in Seq(S)
    OBVIOUS
  <2> QED
    BY <2>1
<1>2. /\ Len(q) \in Nat /\ DOMAIN q = 1 .. Len(q) /\ DOMAIN r = 1 .. Len(q) + 1
      /\ r[Len(q) + 1] = x /\ \A k \in 1 .. Len(q) : r[k] = q[k]
  BY <1>1
<1>3. Len(q) + 1 \notin PlacesOf(q, P) /\ IsFiniteSet(PlacesOf(q, P))
  <2>1. Len(q) + 1 \notin 1 .. Len(q)
    BY <1>2
  <2>2. Len(q) + 1 \notin PlacesOf(q, P)
    BY <1>2, <2>1 DEF PlacesOf
  <2> QED
    BY <2>2, CountPlaces
<1>4. CASE x \in P
  <2>1. PlacesOf(r, P) = PlacesOf(q, P) \cup {Len(q) + 1}
    BY <1>2, <1>4 DEF PlacesOf
  <2> QED
    BY <1>1, <1>3, <1>4, <2>1, FS_AddElement
<1>5. CASE x \notin P
  <2>1. PlacesOf(r, P) = PlacesOf(q, P)
    BY <1>2, <1>5 DEF PlacesOf
  <2>2. Cardinality(PlacesOf(q, P)) \in Nat
    BY CountPlaces
  <2> QED
    BY <1>1, <1>5, <2>1, <2>2
<1> QED
  BY <1>4, <1>5

\* Each place but the first moves one down.
LEMMA CountTail ==
    ASSUME NEW S, NEW q \in Seq(S), q # <<>>, NEW P
    PROVE  Cardinality(PlacesOf(Tail(q), P))
               = Cardinality(PlacesOf(q, P)) - IF q[1] \in P THEN 1 ELSE 0
<1>1. PICK r \in Seq(S) : r = Tail(q)
  <2>1. Tail(q) \in Seq(S)
    OBVIOUS
  <2> QED
    BY <2>1
<1>2. /\ Len(q) \in Nat /\ DOMAIN q = 1 .. Len(q) /\ DOMAIN r = 1 .. Len(q) - 1
      /\ \A k \in 1 .. Len(q) - 1 : r[k] = q[k + 1]
  BY <1>1
<1>3. /\ IsFiniteSet(PlacesOf(q, P)) /\ IsFiniteSet(PlacesOf(r, P))
      /\ Cardinality(PlacesOf(q, P)) \in Nat
  BY CountPlaces
<1> DEFINE T == PlacesOf(q, P) \ {1}
           f == [k \in PlacesOf(r, P) |-> k + 1]
<1>4. f \in Bijection(PlacesOf(r, P), T)
  <2>1. ASSUME NEW k \in PlacesOf(r, P) PROVE k \in Int /\ f[k] = k + 1 /\ k + 1 \in T
    BY <1>2 DEF PlacesOf
  <2>2. ASSUME NEW m \in T PROVE \E k \in PlacesOf(r, P) : f[k] = m
    <3>1. m - 1 \in PlacesOf(r, P) /\ m - 1 + 1 = m
      BY <1>2 DEF PlacesOf
    <3> QED
      BY <2>1, <3>1
  <2>3. f \in [PlacesOf(r, P) -> T]
    BY <2>1
  <2>4. \A j, k \in PlacesOf(r, P) : f[j] = f[k] => j = k
    BY <2>1
  <2> HIDE DEF f, T
  <2>5. f \in Injection(PlacesOf(r, P), T)
    BY <2>3, <2>4 DEF Injection, IsInjective
  <2>6. f \in Surjection(PlacesOf(r, P), T)
    BY <2>2, <2>3 DEF Surjection
  <2> QED
    BY <2>5, <2>6 DEF Bijection
<1>5. Cardinality(T) = Cardinality(PlacesOf(r, P))
  <2>1. ExistsBijection(PlacesOf(r, P), T)
    BY <1>4 DEF ExistsBijection
  <2> QED
    BY <1>3, <2>1, FS_Bijection
<1>6. 1 \in PlacesOf(q, P) <=> q[1] \in P
  BY <1>2 DEF PlacesOf
<1>7. Cardinality(T) = IF q[1] \in P THEN Cardinality(PlacesOf(q, P)) - 1 ELSE Cardinality(PlacesOf(q, P))
  BY <1>3, <1>6, FS_RemoveElement
<1> QED
  BY <1>1, <1>3, <1>5, <1>7

-----------------------------------------------------------------------------
(* The bridge: its inductive invariant.                                      *)

\* A process that was cancelled does not lead again.  (It would find the bytes of
\* the entries that its cancelled run left in the bridge still charged.)
NoRelead == "relead" \notin PubFaults

\* The tasks that still owe a sentinel, and those that wait for room with a line.
Active == {t \in Topics : pc[t] \notin {"off", "ended"}}
Waiting == {t \in Topics : pc[t] = "put" /\ item[t].live}
RediscoverOwes == IF red \in {"sleep", "sentinel"} THEN 1 ELSE 0
LiveItems == {x \in Items : x.live}
Sentinels == Cardinality(PlacesOf(queue, {Sentinel}))
LiveEntries == Cardinality(PlacesOf(queue, LiveItems))

NobodyActive == Active = {} /\ RediscoverOwes = 0

\* While the generator gets or yields, each sentinel it waits for is in the queue or
\* still owed, and behind the last entry there is one of the two.
SentinelsCounted ==
    gen \in {"get", "yield"} =>
        /\ remaining = Sentinels + Cardinality(Active) + RediscoverOwes
        /\ NobodyActive /\ queue # <<>> => queue[Len(queue)] = Sentinel
\* Otherwise nothing is left.
NothingLeft ==
    /\ gen \in {"idle", "closing"} => queue = <<>> /\ NobodyActive
    /\ gen # "idle" => red # "off"
BytesCounted == bytes = Cost * (LiveEntries + Cardinality(Waiting))

BridgeTypes ==
    /\ listed \in SUBSET Topics /\ remaining \in Int /\ bytes \in Int
    /\ red \in {"off", "sleep", "sentinel", "ended"}
Accounted == SentinelsCounted /\ NothingLeft /\ BytesCounted
BridgeInv == BridgeTypes /\ (~cancelled => Accounted)

LEMMA BridgeCounts ==
    ASSUME PubType
    PROVE  /\ IsFiniteSet(Active) /\ IsFiniteSet(Waiting)
           /\ Cardinality(Active) \in Nat /\ Cardinality(Waiting) \in Nat
           /\ Sentinels \in Nat /\ LiveEntries \in Nat
<1>1. Active \in SUBSET Topics /\ Waiting \in SUBSET Topics /\ IsFiniteSet(Topics)
  BY DEF Active, Waiting
<1>2. IsFiniteSet(Active) /\ IsFiniteSet(Waiting)
  BY <1>1, FS_Subset
<1>3. queue \in Seq(Items)
  BY DEF PubType, TypeBridge
<1> QED
  BY <1>2, <1>3, FS_CardinalityType, CountPlaces DEF Sentinels, LiveEntries

LEMMA EmptyBridge ==
    ASSUME queue' = <<>>
    PROVE  Sentinels' = 0 /\ LiveEntries' = 0
<1>1. PlacesOf(<<>>, {Sentinel}) = {} /\ PlacesOf(<<>>, LiveItems) = {}
  BY DEF PlacesOf
<1> QED
  BY <1>1, FS_EmptySet DEF Sentinels, LiveEntries

\* A step that leaves the queue and who waits or is active alone.
LEMMA BridgeRests ==
    ASSUME PubType, BridgeInv,
           UNCHANGED <<queue, bytes, remaining, cancelled>>,
           gen' = gen \/ (gen = "yield" /\ gen' = "get"),
           red' = red \/ (red = "sleep" /\ red' = "sentinel"),
           listed' \in SUBSET Topics,
           Active' = Active, Waiting' = Waiting
    PROVE  BridgeInv'
<1>1. RediscoverOwes' = RediscoverOwes /\ (red # "off" => red' # "off")
  BY DEF RediscoverOwes
<1>2. Sentinels' = Sentinels /\ LiveEntries' = LiveEntries
  BY DEF Sentinels, LiveEntries
<1>3. BridgeTypes'
  BY DEF BridgeInv, BridgeTypes
<1>4. PICK a, w : a = Active /\ w = Waiting
  OBVIOUS
<1>5. Active' = a /\ Waiting' = w
  BY <1>4
<1>6. ASSUME ~cancelled PROVE Accounted'
  <2>1. Accounted
    BY <1>6 DEF BridgeInv
  <2>2. NobodyActive' = NobodyActive
    BY <1>1 DEF NobodyActive
  <2> QED
    BY <1>1, <1>2, <1>4, <1>5, <2>1, <2>2 DEF Accounted, SentinelsCounted, NothingLeft, BytesCounted
<1> QED
  BY <1>3, <1>6 DEF BridgeInv

\* A task that goes from one place to another, not to or from a place in the queue.
LEMMA TaskMoves ==
    ASSUME PubType, BridgeInv, NEW t \in Topics,
           UNCHANGED <<queue, bytes, remaining, gen, cancelled, red, listed>>,
           \A u \in Topics \ {t} : pc'[u] = pc[u] /\ item'[u] = item[u],
           pc[t] \notin {"off", "ended", "put"}, pc'[t] \notin {"off", "ended", "put"}
    PROVE  BridgeInv'
<1>1. Active' = Active
  BY DEF Active
<1>2. Waiting' = Waiting
  BY DEF Waiting
<1> QED
  BY <1>1, <1>2, BridgeRests DEF BridgeInv, BridgeTypes

LEMMA TasksRest ==
    ASSUME PubType, BridgeInv, NEW t \in Topics,
           \/ LoopHead(t) \/ Load(t) \/ Connect(t) \/ Respond(t) \/ NextEvent(t) \/ TopUp(t)
           \/ Keepalive(t) \/ IdRejected(t) \/ LoadFails(t) \/ LoadCorrupt(t) \/ StreamEnds(t)
           \/ PoisonEvent(t) \/ SchemaFails(t) \/ TopUpFails(t)
    PROVE  BridgeInv'
<1>1. UNCHANGED <<queue, bytes, remaining, gen, cancelled, red, listed>>
  BY DEF LoopHead, Load, Connect, Respond, NextEvent, TopUp, Keepalive, IdRejected, LoadFails, LoadCorrupt,
     StreamEnds, PoisonEvent, SchemaFails, TopUpFails, control, bridge, org
<1>2. TypeTasks
  BY DEF PubType
<1>3. pc[t] \notin {"off", "ended", "put"} /\ pc'[t] \notin {"off", "ended", "put"}
  BY <1>2 DEF TypeTasks, LoopHead, Load, Connect, Respond, NextEvent, TopUp, Keepalive, IdRejected,
     LoadFails, LoadCorrupt, StreamEnds, PoisonEvent, SchemaFails, TopUpFails, Enqueue
<1>4. \A u \in Topics \ {t} : pc'[u] = pc[u] /\ item'[u] = item[u]
  BY <1>2 DEF TypeTasks, LoopHead, Load, Connect, Respond, NextEvent, TopUp, Keepalive, IdRejected,
     LoadFails, LoadCorrupt, StreamEnds, PoisonEvent, SchemaFails, TopUpFails, Enqueue
<1> QED
  BY <1>1, <1>3, <1>4, TaskMoves

LEMMA OrgRests ==
    ASSUME PubType, BridgeInv,
           \/ UNCHANGED pubsubVars \/ SetStop \/ RediscoverEnds \/ Settle
           \/ \E t \in Topics : Publish(t) \/ Enable(t) \/ Expire(t)
    PROVE  BridgeInv'
<1>1. /\ UNCHANGED <<queue, bytes, remaining, cancelled, pc, item>>
      /\ gen' = gen \/ (gen = "yield" /\ gen' = "get")
      /\ red' = red \/ (red = "sleep" /\ red' = "sentinel")
      /\ listed' \in SUBSET Topics
  BY DEF SetStop, RediscoverEnds, Settle, Publish, Enable, Expire, pubsubVars, control, bridge, tasks, org,
         BridgeInv, BridgeTypes
<1>2. Active' = Active /\ Waiting' = Waiting
  BY <1>1 DEF Active, Waiting
<1> QED
  BY <1>1, <1>2, BridgeRests

\* A new run, a closed one and a dead process have nothing in the bridge; of a
\* cancelled one nothing is claimed.
LEMMA BridgeResets ==
    ASSUME NoRelead, PubType, PubType', BridgeInv, Start \/ Cancel \/ Close \/ Kill
    PROVE  BridgeInv'
<1>1. TypeTasks /\ TypeBridge
  BY DEF PubType
<1>2. CASE Start
  <2>1. PICK S \in SUBSET Topics : /\ pc' = [t \in Topics |-> IF t \in S THEN "head" ELSE "off"]
                                   /\ remaining' = Cardinality(S) + 1
    <3>1. Explicit \in SUBSET Topics /\ Explicit \cup listed \in SUBSET Topics
      BY DEF BridgeInv, BridgeTypes
    <3> QED
      BY <1>2, <3>1 DEF Start
  <2>2. IsFiniteSet(S) /\ Cardinality(S) \in Nat
    BY FS_Subset, FS_CardinalityType
  <2>3. /\ ~cancelled /\ gen = "idle" /\ gen' = "get" /\ red' = "sleep" /\ queue' = <<>>
        /\ UNCHANGED <<bytes, listed>>
    BY <1>2 DEF Start, NoRelead, org
  <2>4. Active' = S /\ Waiting' = {}
    BY <2>1 DEF Active, Waiting
  <2>5. Sentinels' = 0 /\ LiveEntries' = 0
    BY <2>3, EmptyBridge
  <2>6. bytes = 0
    <3>1. Accounted /\ queue = <<>> /\ Active = {}
      BY <2>3 DEF BridgeInv, Accounted, NothingLeft, NobodyActive
    <3>2. Waiting = {}
      BY <3>1 DEF Active, Waiting
    <3>3. PlacesOf(queue, LiveItems) = {}
      BY <3>1 DEF PlacesOf
    <3>4. Cardinality(PlacesOf(queue, LiveItems)) = 0 /\ Cardinality(Waiting) = 0
      BY <3>2, <3>3, FS_EmptySet
    <3> QED
      BY <3>1, <3>4 DEF Accounted, BytesCounted, LiveEntries
  <2>7. RediscoverOwes' = 1
    BY <2>3 DEF RediscoverOwes
  <2>8. SentinelsCounted'
    BY <2>1, <2>2, <2>3, <2>4, <2>5, <2>7 DEF SentinelsCounted, NobodyActive
  <2>9. NothingLeft'
    BY <2>3 DEF NothingLeft
  <2>10. BytesCounted'
    <3>1. Cardinality(Waiting)' = 0
      BY <2>4, FS_EmptySet
    <3> QED
      BY <2>3, <2>5, <2>6, <3>1 DEF BytesCounted
  <2>11. BridgeTypes'
    BY <2>1, <2>2, <2>3 DEF BridgeInv, BridgeTypes
  <2> QED
    BY <2>8, <2>9, <2>10, <2>11 DEF BridgeInv, Accounted
<1>3. CASE Cancel
  BY <1>3 DEF Cancel, BridgeInv, BridgeTypes, org, bridge
<1>4. CASE Close
  <2>1. /\ gen = "closing" /\ gen' = "idle"
        /\ UNCHANGED <<queue, bytes, remaining, cancelled, red, listed, pc, item>>
    BY <1>4 DEF Close, org, bridge, tasks
  <2>2. Active' = Active /\ Waiting' = Waiting /\ RediscoverOwes' = RediscoverOwes
    BY <2>1 DEF Active, Waiting, RediscoverOwes
  <2>3. Sentinels' = Sentinels /\ LiveEntries' = LiveEntries
    BY <2>1 DEF Sentinels, LiveEntries
  <2> QED
    BY <2>1, <2>2, <2>3 DEF BridgeInv, BridgeTypes, Accounted, SentinelsCounted, NothingLeft, NobodyActive,
       BytesCounted
<1>5. CASE Kill
  <2>1. /\ gen' = "idle" /\ red' = "off" /\ queue' = <<>> /\ bytes' = 0 /\ remaining' = 0
        /\ pc' = [t \in Topics |-> "off"] /\ listed' = listed
    BY <1>5 DEF Kill, org
  <2>2. Active' = {} /\ Waiting' = {} /\ RediscoverOwes' = 0
    BY <2>1 DEF Active, Waiting, RediscoverOwes
  <2>3. Sentinels' = 0 /\ LiveEntries' = 0
    BY <2>1, EmptyBridge
  <2>4. Cardinality(Waiting)' = 0
    BY <2>2, FS_EmptySet
  <2> QED
    BY <2>1, <2>2, <2>3, <2>4 DEF BridgeInv, BridgeTypes, Accounted, SentinelsCounted, NothingLeft,
       NobodyActive, BytesCounted
<1> QED
  BY <1>2, <1>3, <1>4, <1>5

\* Who still owed a sentinel has put it.
LEMMA SentinelJoins ==
    ASSUME PubType, PubType', BridgeInv, SentinelPut, gen \in {"get", "yield"} \/ cancelled,
           UNCHANGED <<bytes, remaining, gen, cancelled, listed>>,
           red' = red \/ (red = "sentinel" /\ red' = "ended"), Waiting' = Waiting,
           Cardinality(Active)' \in Nat,
           Cardinality(Active)' + RediscoverOwes' + 1 = Cardinality(Active) + RediscoverOwes
    PROVE  BridgeInv'
<1>1. BridgeTypes'
  BY DEF BridgeInv, BridgeTypes
<1>2. ASSUME ~cancelled PROVE Accounted'
  <2>1. Accounted /\ gen \in {"get", "yield"} /\ queue' = Append(queue, Sentinel)
    BY <1>2 DEF BridgeInv, SentinelPut
  <2>2. queue \in Seq(Items) /\ Sentinel \in Items /\ Sentinel \notin LiveItems
    BY SentinelItem DEF PubType, TypeBridge, LiveItems, Sentinel
  <2>3. Sentinels' = Sentinels + 1
    BY <2>1, <2>2, CountAppend DEF Sentinels
  <2>4. LiveEntries' = LiveEntries
    <3>1. LiveEntries \in Nat
      BY BridgeCounts
    <3> QED
      BY <2>1, <2>2, <3>1, CountAppend DEF LiveEntries
  <2>5. PICK a, b, r, s : /\ a = Cardinality(Active) /\ b = Cardinality(Active)'
                          /\ r = RediscoverOwes /\ s = RediscoverOwes'
    OBVIOUS
  <2>6. a \in Nat /\ b \in Nat /\ Sentinels \in Nat /\ b + s + 1 = a + r
    BY <2>5, BridgeCounts
  <2>7. r \in Nat /\ s \in Nat
    BY <2>5 DEF RediscoverOwes
  <2>8. remaining = Sentinels + a + r
    BY <2>1, <2>5 DEF Accounted, SentinelsCounted
  <2>9. remaining' = Sentinels' + b + s
    BY <2>3, <2>6, <2>8, <2>7
  <2>10. Len(queue') \in Nat /\ queue'[Len(queue')] = Sentinel
    BY <2>1, <2>2
  <2>11. SentinelsCounted'
    BY <2>5, <2>9, <2>10 DEF SentinelsCounted
  <2>12. NothingLeft' /\ BytesCounted'
    <3>1. PICK w : w = Waiting
      OBVIOUS
    <3>2. Waiting' = w
      BY <3>1
    <3> QED
      BY <2>1, <2>4, <3>1, <3>2 DEF Accounted, NothingLeft, BytesCounted
  <2> QED
    BY <2>11, <2>12 DEF Accounted
<1> QED
  BY <1>1, <1>2 DEF BridgeInv

LEMMA SentinelsPut ==
    ASSUME PubType, PubType', BridgeInv,
           PutRediscoverSentinel \/ \E t \in Topics : PutSentinel(t)
    PROVE  BridgeInv'
<1>1. CASE PutRediscoverSentinel
  <2>1. /\ SentinelPut /\ red = "sentinel" /\ red' = "ended"
        /\ UNCHANGED <<bytes, remaining, gen, cancelled, listed, pc, item>>
    BY <1>1 DEF PutRediscoverSentinel, org, tasks
  <2>2. Active' = Active /\ Waiting' = Waiting /\ RediscoverOwes = 1 /\ RediscoverOwes' = 0
    BY <2>1 DEF Active, Waiting, RediscoverOwes
  <2>3. gen \in {"get", "yield"} \/ cancelled
    BY <2>2 DEF BridgeInv, Accounted, NothingLeft, NobodyActive, PubType, TypeBridge
  <2>4. /\ Cardinality(Active)' \in Nat
        /\ Cardinality(Active)' + RediscoverOwes' + 1 = Cardinality(Active) + RediscoverOwes
    <3>1. PICK a : a = Cardinality(Active)
      OBVIOUS
    <3>2. Cardinality(Active)' = a /\ a \in Nat
      BY <2>2, <3>1, BridgeCounts
    <3> QED
      BY <2>2, <3>1, <3>2
  <2> QED
    BY <2>1, <2>2, <2>3, <2>4, SentinelJoins
<1>2. ASSUME NEW t \in Topics, PutSentinel(t) PROVE BridgeInv'
  <2>1. /\ SentinelPut /\ pc[t] = "sentinel" /\ pc' = [pc EXCEPT ![t] = "ended"]
        /\ UNCHANGED <<bytes, remaining, gen, cancelled, listed, red, item>>
    BY <1>2 DEF PutSentinel, org, control
  <2>2. pc \in [Topics -> Places]
    BY DEF PubType, TypeTasks
  <2>3. t \in Active /\ Active' = Active \ {t} /\ Waiting' = Waiting /\ RediscoverOwes' = RediscoverOwes
    BY <2>1, <2>2 DEF Active, Waiting, RediscoverOwes
  <2>4. gen \in {"get", "yield"} \/ cancelled
    BY <2>3 DEF BridgeInv, Accounted, NothingLeft, NobodyActive, PubType, TypeBridge
  <2>5. /\ Cardinality(Active)' \in Nat
        /\ Cardinality(Active)' + RediscoverOwes' + 1 = Cardinality(Active) + RediscoverOwes
    <3>1. PICK A : A = Active
      OBVIOUS
    <3>2. IsFiniteSet(A) /\ Cardinality(A) \in Nat
      BY <3>1, BridgeCounts
    <3>3. Cardinality(A \ {t}) = Cardinality(A) - 1 /\ Cardinality(A \ {t}) \in Nat
      BY <2>3, <3>1, <3>2, FS_RemoveElement, FS_CardinalityType
    <3>4. RediscoverOwes \in Nat
      BY DEF RediscoverOwes
    <3>5. Cardinality(Active)' = Cardinality(A \ {t})
      BY <2>3, <3>1
    <3>6. Cardinality(Active) = Cardinality(A)
      BY <3>1
    <3> QED
      BY <2>3, <3>2, <3>3, <3>4, <3>5, <3>6
  <2> QED
    BY <2>1, <2>3, <2>4, <2>5, SentinelJoins
<1> QED
  BY <1>1, <1>2

\* Re-discovery waits for as many more sentinels as it spawns tasks.
LEMMA SpawnCounted ==
    ASSUME PubType, PubType', BridgeInv, Rediscover
    PROVE  BridgeInv'
<1>1. PICK S \in SUBSET Topics : S = listed \ Subscribed
  BY DEF BridgeInv, BridgeTypes
<1>2. IsFiniteSet(S) /\ Cardinality(S) \in Nat
  BY FS_Subset, FS_CardinalityType
<1>3. /\ remaining' = remaining + Cardinality(S) /\ red = "sleep"
      /\ pc' = [t \in Topics |-> IF t \in S THEN "head" ELSE pc[t]]
      /\ UNCHANGED <<queue, bytes, gen, cancelled, listed, red, item>>
  BY <1>1 DEF Rediscover, Spawn, org, bridge
<1>4. pc \in [Topics -> Places]
  BY DEF PubType, TypeTasks
<1>5. \A t \in S : pc[t] = "off"
  BY <1>1 DEF Subscribed
<1>6. Active' = Active \cup S /\ Active \cap S = {} /\ Waiting' = Waiting
  BY <1>3, <1>4, <1>5 DEF Active, Waiting
<1>7. PICK A, w : A = Active /\ w = Waiting
  OBVIOUS
<1>8. IsFiniteSet(A) /\ Cardinality(A) \in Nat
  BY <1>7, BridgeCounts
<1>9. Active' = A \cup S /\ Waiting' = w
  BY <1>6, <1>7
<1>10. Cardinality(A \cup S) = Cardinality(A) + Cardinality(S)
  <2>1. A \cap S = {} /\ Cardinality(A \cap S) = 0
    BY <1>6, <1>7, FS_EmptySet
  <2>2. Cardinality(A \cup S) = Cardinality(A) + Cardinality(S) - Cardinality(A \cap S)
    BY <1>2, <1>8, FS_Union
  <2> QED
    BY <1>2, <1>8, <2>1, <2>2
<1>11. RediscoverOwes = 1 /\ RediscoverOwes' = 1 /\ Sentinels' = Sentinels /\ LiveEntries' = LiveEntries
  BY <1>3 DEF RediscoverOwes, Sentinels, LiveEntries
<1>12. BridgeTypes'
  BY <1>2, <1>3 DEF BridgeInv, BridgeTypes
<1>13. ASSUME ~cancelled PROVE Accounted'
  <2>1. Accounted /\ gen \in {"get", "yield"}
    BY <1>11, <1>13 DEF BridgeInv, Accounted, NothingLeft, NobodyActive, PubType, TypeBridge
  <2>2. remaining = Sentinels + Cardinality(A) + 1
    BY <1>7, <1>11, <2>1 DEF Accounted, SentinelsCounted
  <2>3. Sentinels \in Nat
    BY BridgeCounts
  <2>4. remaining' = Sentinels' + Cardinality(A \cup S) + RediscoverOwes'
    BY <1>2, <1>3, <1>8, <1>10, <1>11, <2>2, <2>3
  <2>5. SentinelsCounted'
    BY <1>9, <1>11, <2>4 DEF SentinelsCounted, NobodyActive
  <2>6. NothingLeft' /\ BytesCounted'
    BY <1>3, <1>7, <1>9, <1>11, <2>1 DEF Accounted, NothingLeft, BytesCounted
  <2> QED
    BY <2>5, <2>6 DEF Accounted
<1> QED
  BY <1>3, <1>12, <1>13 DEF BridgeInv

\* An entry is charged when it waits or is in the queue, and not for both.
LEMMA EntryJoins ==
    ASSUME PubInv, PubType', BridgeInv, NEW t \in Topics, Charge(t) \/ PutItem(t)
    PROVE  BridgeInv'
<1>1. /\ PubType /\ queue \in Seq(Items) /\ pc \in [Topics -> Places] /\ item \in [Topics -> Items]
      /\ bytes \in Int
  BY DEF PubInv, PubType, TypeBridge, TypeTasks, BridgeInv, BridgeTypes
<1>2. PICK x \in Items : x = item[t]
  BY <1>1
<1>3. /\ pc[t] \in {"charge", "put"} /\ pc'[t] \in {"put", "stream"}
      /\ UNCHANGED <<gen, remaining, cancelled, listed, red>>
      /\ \A u \in Topics \ {t} : pc'[u] = pc[u] /\ item'[u] = item[u]
  BY <1>1 DEF Charge, PutItem, org, control
<1>4. Active' = Active /\ t \in Active /\ RediscoverOwes' = RediscoverOwes
  BY <1>3 DEF Active, RediscoverOwes
<1>5. x # Sentinel
  <2>1. x.topic = t
    BY <1>2, <1>3 DEF PubInv, TopicSound, OwnItem
  <2> QED
    BY <2>1, SentinelItem
<1>6. BridgeTypes'
  <2>1. EntryBytes(item[t]) \in Int
    BY DEF EntryBytes
  <2> QED
    BY <1>1, <1>3, <2>1 DEF BridgeInv, BridgeTypes, Charge, PutItem
<1>7. PICK W : W = Waiting
  OBVIOUS
<1>8. IsFiniteSet(W) /\ Cardinality(W) \in Nat /\ Sentinels \in Nat /\ LiveEntries \in Nat
  BY <1>1, <1>7, BridgeCounts
<1>9. x \in LiveItems <=> x.live
  BY DEF LiveItems
<1>10. Sentinels' = Sentinels
  <2>1. CASE queue' = queue
    BY <2>1 DEF Sentinels
  <2>2. CASE queue' = Append(queue, x)
    BY <1>1, <1>5, <1>8, <2>2, CountAppend DEF Sentinels
  <2> QED
    BY <1>2, <2>1, <2>2 DEF Charge, PutItem
<1>11. LiveEntries' = LiveEntries + IF queue' # queue /\ x.live THEN 1 ELSE 0
  <2>1. CASE queue' = queue
    BY <1>8, <2>1 DEF LiveEntries
  <2>2. CASE queue' = Append(queue, x)
    <3>1. queue' # queue
      BY <1>1, <2>2
    <3> QED
      BY <1>1, <1>9, <2>2, <3>1, CountAppend DEF LiveEntries
  <2> QED
    BY <1>2, <2>1, <2>2 DEF Charge, PutItem
<1>12. ASSUME ~cancelled PROVE BytesCounted'
  <2>1. PICK n, m : n = LiveEntries /\ m = Cardinality(W)
    OBVIOUS
  <2>2. bytes = Cost * (n + m) /\ n \in Nat /\ m \in Nat /\ Cost \in Nat
    BY <1>7, <1>8, <1>12, <2>1 DEF BridgeInv, Accounted, BytesCounted
  <2>3. Cost * (n + m + 1) = Cost * (n + m) + Cost
    BY <2>2
  <2>4. n + m + 1 = n + 1 + m /\ n + m + 1 = n + (m + 1)
    BY <2>2
  <2>5. EntryBytes(x) = IF x.live THEN Cost ELSE 0
    BY DEF EntryBytes
  <2>6. CASE queue' = queue
    <3>1. pc[t] = "charge" /\ pc'[t] = "put" /\ item'[t] = x /\ bytes' = bytes + EntryBytes(x)
      <4>1. ~PutItem(t) /\ Charge(t)
        <5>1. PutItem(t) => Len(queue') = Len(queue) + 1 /\ Len(queue) \in Nat
          BY <1>1, <1>2 DEF PutItem
        <5> QED
          BY <2>6, <5>1
      <4>2. Append(queue, x) # queue
        BY <1>1
      <4> QED
        BY <1>1, <1>2, <2>6, <4>1, <4>2 DEF Charge
    <3>2. t \notin W /\ Waiting' = IF x.live THEN W \cup {t} ELSE W
      BY <1>3, <1>7, <3>1 DEF Waiting
    <3>3. Cardinality(Waiting)' = m + IF x.live THEN 1 ELSE 0
      <4>1. Cardinality(W \cup {t}) = m + 1
        BY <1>8, <2>1, <3>2, FS_AddElement
      <4> QED
        BY <2>1, <2>2, <3>2, <4>1
    <3>4. LiveEntries' = n
      BY <1>11, <2>1, <2>2, <2>6
    <3> QED
      BY <2>2, <2>3, <2>4, <2>5, <3>1, <3>3, <3>4 DEF BytesCounted
  <2>7. CASE queue' # queue
    <3>1. pc'[t] = "stream"
      BY <1>1, <2>7 DEF Charge, PutItem
    <3>2. LiveEntries' = n + IF x.live THEN 1 ELSE 0
      BY <1>11, <2>1, <2>7
    <3>3. CASE pc[t] = "charge"
      <4>1. bytes' = bytes + EntryBytes(x)
        BY <1>2, <3>3 DEF Charge, PutItem
      <4>2. Waiting' = W
        BY <1>3, <1>7, <3>1, <3>3 DEF Waiting
      <4>3. Cardinality(Waiting)' = m
        BY <2>1, <4>2
      <4> QED
        BY <2>2, <2>3, <2>4, <2>5, <3>2, <4>1, <4>3 DEF BytesCounted
    <3>4. CASE pc[t] = "put"
      <4>1. bytes' = bytes
        BY <3>4 DEF Charge, PutItem
      <4>2. (t \in W <=> x.live) /\ Waiting' = W \ {t}
        BY <1>2, <1>3, <1>7, <3>1, <3>4 DEF Waiting
      <4>3. Cardinality(W \ {t}) = m - IF x.live THEN 1 ELSE 0
        <5>1. Cardinality(W \ {t}) = IF t \in W THEN Cardinality(W) - 1 ELSE Cardinality(W)
          BY <1>8, FS_RemoveElement
        <5>2. x.live \in BOOLEAN
          BY DEF Items
        <5> QED
          BY <2>1, <2>2, <4>2, <5>1, <5>2
      <4>4. Cardinality(Waiting)' = m - IF x.live THEN 1 ELSE 0
        BY <4>2, <4>3
      <4>5. LiveEntries' + Cardinality(Waiting)' = n + m
        BY <2>2, <3>2, <4>4
      <4> QED
        BY <2>2, <4>1, <4>5 DEF BytesCounted
    <3> QED
      BY <1>3, <3>3, <3>4
  <2> QED
    BY <2>6, <2>7
<1>13. ASSUME ~cancelled PROVE SentinelsCounted' /\ NothingLeft'
  <2>1. Accounted /\ Active # {}
    BY <1>4, <1>13 DEF BridgeInv
  <2>2. gen \notin {"idle", "closing"} /\ ~NobodyActive'
    BY <1>4, <2>1 DEF Accounted, NothingLeft, NobodyActive
  <2>3. PICK a : a = Cardinality(Active)
    OBVIOUS
  <2>4. Cardinality(Active)' = a
    BY <1>4, <2>3
  <2> QED
    BY <1>3, <1>4, <1>10, <2>1, <2>2, <2>3, <2>4 DEF Accounted, SentinelsCounted, NothingLeft
<1> QED
  BY <1>3, <1>6, <1>12, <1>13 DEF BridgeInv, Accounted

\* The generator takes the head: with the last sentinel there is nothing behind it.
LEMMA HeadTaken ==
    ASSUME PubType, PubType', BridgeInv, Take
    PROVE  BridgeInv'
<1>1. /\ queue \in Seq(Items) /\ queue # <<>> /\ queue' = Tail(queue) /\ gen = "get" /\ ~cancelled
      /\ UNCHANGED <<cancelled, listed, red, pc, item>>
  BY DEF PubType, TypeBridge, Take, org, tasks
<1>2. PICK x \in Items : x = queue[1] /\ Head(queue) = x
  BY <1>1
<1>3. Accounted /\ bytes \in Int /\ remaining \in Int
  BY <1>1 DEF BridgeInv, BridgeTypes
<1>4. Active' = Active /\ Waiting' = Waiting /\ RediscoverOwes' = RediscoverOwes
  BY <1>1 DEF Active, Waiting, RediscoverOwes
<1>5. PICK a, m, n, s : /\ a = Cardinality(Active) /\ m = Cardinality(Waiting)
                        /\ n = LiveEntries /\ s = Sentinels
  OBVIOUS
<1>6. a \in Nat /\ m \in Nat /\ n \in Nat /\ s \in Nat
  BY <1>5, BridgeCounts
<1>7. Cardinality(Active)' = a /\ Cardinality(Waiting)' = m /\ NobodyActive' = NobodyActive
  BY <1>4, <1>5 DEF NobodyActive
<1>8. Sentinels' = s - IF x = Sentinel THEN 1 ELSE 0
  BY <1>1, <1>2, <1>5, CountTail DEF Sentinels
<1>9. LiveEntries' = n - IF x.live THEN 1 ELSE 0
  <2>1. x \in LiveItems <=> x.live
    BY DEF LiveItems
  <2> QED
    BY <1>1, <1>2, <1>5, <2>1, CountTail DEF LiveEntries
<1>10. bytes = Cost * (n + m) /\ Cost \in Nat /\ remaining = s + a + RediscoverOwes
  BY <1>1, <1>3, <1>5 DEF Accounted, BytesCounted, SentinelsCounted
<1>11. /\ bytes' = bytes - EntryBytes(x)
       /\ remaining' = remaining - IF x = Sentinel THEN 1 ELSE 0
       /\ gen' = IF x = Sentinel THEN IF remaining = 1 THEN "closing" ELSE "get" ELSE "yield"
  <2>1. EntryBytes(Sentinel) = 0
    BY DEF EntryBytes, Sentinel
  <2> QED
    BY <1>2, <1>3, <2>1 DEF Take, BridgeRelease
<1>12. BytesCounted'
  <2>1. n - 1 \in Int /\ n + m = (n - 1 + m) + 1
    BY <1>6
  <2>2. Cost * ((n - 1 + m) + 1) = Cost * (n - 1 + m) + Cost
    BY <1>6, <1>10
  <2>3. EntryBytes(x) = IF x.live THEN Cost ELSE 0
    BY DEF EntryBytes
  <2>4. CASE x.live
    <3>1. Cost * (n - 1 + m) \in Int
      BY <1>6, <1>10
    <3>2. bytes' = Cost * (n - 1 + m)
      BY <1>10, <1>11, <2>1, <2>2, <2>3, <2>4, <3>1
    <3> QED
      BY <1>7, <1>9, <2>4, <3>2 DEF BytesCounted
  <2>5. CASE ~x.live
    BY <1>3, <1>6, <1>7, <1>9, <1>10, <1>11, <2>3, <2>5 DEF BytesCounted
  <2> QED
    BY <2>4, <2>5
<1>13. ASSUME NobodyActive, queue' # <<>> PROVE queue'[Len(queue')] = Sentinel
  <2>1. queue[Len(queue)] = Sentinel
    BY <1>1, <1>3, <1>13 DEF Accounted, SentinelsCounted
  <2> QED
    BY <1>1, <1>13, <2>1
<1>14. SentinelsCounted'
  <2>1. RediscoverOwes \in Nat
    BY DEF RediscoverOwes
  <2>2. remaining' = Sentinels' + a + RediscoverOwes'
    BY <1>4, <1>6, <1>8, <1>10, <1>11, <2>1
  <2> QED
    BY <1>7, <1>13, <2>2 DEF SentinelsCounted
<1>15. NothingLeft'
  <2>1. ASSUME x = Sentinel, remaining = 1 PROVE queue' = <<>> /\ NobodyActive
    <3>1. 1 \in PlacesOf(queue, {Sentinel}) /\ IsFiniteSet(PlacesOf(queue, {Sentinel}))
      <4>1. 1 \in DOMAIN queue
        BY <1>1
      <4>2. 1 \in PlacesOf(queue, {Sentinel})
        BY <1>2, <2>1, <4>1 DEF PlacesOf
      <4> QED
        BY <1>1, <4>2, CountPlaces
    <3>2. s # 0
      BY <1>5, <3>1, FS_EmptySet DEF Sentinels
    <3>3. s = 1 /\ a = 0 /\ RediscoverOwes = 0
      BY <1>6, <1>10, <2>1, <3>2 DEF RediscoverOwes
    <3>4. NobodyActive
      BY <1>5, <3>3, BridgeCounts, FS_EmptySet DEF NobodyActive
    <3>5. queue[Len(queue)] = Sentinel /\ Len(queue) \in DOMAIN queue
      BY <1>1, <1>3, <3>4 DEF Accounted, SentinelsCounted
    <3>6. Len(queue) \in PlacesOf(queue, {Sentinel})
      BY <3>5 DEF PlacesOf
    <3>7. Len(queue) = 1
      <4>1. Cardinality(PlacesOf(queue, {Sentinel})) = 1
        BY <1>5, <3>3 DEF Sentinels
      <4>2. PICK k : PlacesOf(queue, {Sentinel}) = {k}
        BY <3>1, <4>1, FS_Singleton
      <4> QED
        BY <3>1, <3>6, <4>2
    <3> QED
      BY <1>1, <3>4, <3>7
  <2>2. gen' \notin {"idle"} /\ (gen' = "closing" => x = Sentinel /\ remaining = 1)
    BY <1>11
  <2>3. red' # "off"
    BY <1>1, <1>3 DEF Accounted, NothingLeft
  <2> QED
    BY <1>7, <2>1, <2>2, <2>3 DEF NothingLeft
<1>16. BridgeTypes'
  <2>1. EntryBytes(x) \in Int
    BY DEF EntryBytes
  <2> QED
    BY <1>1, <1>3, <1>11, <2>1 DEF BridgeInv, BridgeTypes
<1> QED
  BY <1>12, <1>14, <1>15, <1>16 DEF BridgeInv, Accounted

LEMMA BridgeBegins ==
    ASSUME PubSubInit
    PROVE  BridgeInv
<1>1. Active = {} /\ Waiting = {} /\ RediscoverOwes = 0
  BY DEF PubSubInit, Active, Waiting, RediscoverOwes
<1>2. PlacesOf(queue, LiveItems) = {}
  BY DEF PubSubInit, PlacesOf
<1>3. LiveEntries = 0 /\ Cardinality(Waiting) = 0
  BY <1>1, <1>2, FS_EmptySet DEF LiveEntries
<1> QED
  BY <1>1, <1>3 DEF PubSubInit, BridgeInv, BridgeTypes, Accounted, SentinelsCounted, NothingLeft, BytesCounted,
     NobodyActive

LEMMA BridgeStep ==
    ASSUME NoRelead, PubInv, PubInv', BridgeInv, [PubSubNext]_pubsubVars
    PROVE  BridgeInv'
<1>1. PubType /\ PubType'
  BY DEF PubInv
<1>2. CASE UNCHANGED pubsubVars \/ RediscoverEnds \/ SetStop \/ Settle
  BY <1>1, <1>2, OrgRests
<1>3. CASE Start \/ Cancel \/ Close \/ Kill
  BY <1>1, <1>3, BridgeResets
<1>4. CASE Take
  BY <1>1, <1>4, HeadTaken
<1>5. CASE Rediscover
  BY <1>1, <1>5, SpawnCounted
<1>6. CASE PutRediscoverSentinel
  BY <1>1, <1>6, SentinelsPut
<1>7. ASSUME NEW t \in Topics,
             \/ Publish(t) \/ Expire(t) \/ Enable(t)
             \/ TopicStep(t) \/ Keepalive(t) \/ IdRejected(t) \/ TopicFault(t)
      PROVE  BridgeInv'
  <2>1. CASE Publish(t) \/ Expire(t) \/ Enable(t)
    BY <1>1, <2>1, OrgRests
  <2>2. CASE PutSentinel(t)
    BY <1>1, <2>2, SentinelsPut
  <2>3. CASE Charge(t) \/ PutItem(t)
    BY <1>1, <2>3, EntryJoins
  <2> QED
    BY <1>1, <1>7, <2>1, <2>2, <2>3, TasksRest DEF TopicStep, TopicFault
<1> QED
  BY <1>2, <1>3, <1>4, <1>5, <1>6, <1>7 DEF PubSubNext

\* The bridge loses neither bytes nor entries: _bridge_charge and _bridge_release of
\* pubsub_source.py keep an account of what sits in the queue or waits for room in it,
\* and events() leaves its loop with the last sentinel only when every task has ended
\* and every entry was yielded, those that re-discovery added included.
THEOREM BridgeKeepsAccount == NoRelead => (PubSubSpec => []BridgeSound)
<1> SUFFICES ASSUME NoRelead PROVE PubSubSpec => []BridgeSound
  OBVIOUS
<1>1. PubInv /\ BridgeInv => BridgeSound
  <2> SUFFICES ASSUME PubInv, BridgeInv PROVE BridgeBytesExact /\ EndsDrained
    BY DEF BridgeSound
  <2>1. queue \in Seq(Items)
    BY DEF PubInv, PubType, TypeBridge
  <2>2. PlacesOf(queue, LiveItems) = {i \in DOMAIN queue : queue[i].live}
    BY <2>1 DEF PlacesOf, LiveItems
  <2>3. BridgeBytesExact
    BY <2>2 DEF BridgeInv, Accounted, BytesCounted, BridgeBytesExact, LiveEntries, Waiting
  <2>4. EndsDrained
    BY DEF BridgeInv, BridgeTypes, Accounted, NothingLeft, NobodyActive, Active, RediscoverOwes, EndsDrained,
       AllEnded
  <2> QED
    BY <2>3, <2>4
<1> QED
  BY <1>1, PubSubBegins, PubSubStep, BridgeBegins, BridgeStep, PTL DEF PubSubSpec

=============================================================================
