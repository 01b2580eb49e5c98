---------------------------- MODULE PubSubSource ----------------------------
(***************************************************************************)
(* The Pub/Sub source (src/sf2loki/sources/pubsub_source.py) with its      *)
(* client (salesforce/pubsub_client.py): one task per topic subscribes,    *)
(* decodes and puts entries into a bridge queue, which the generator       *)
(* events() drains for the pipeline; a further task discovers new topics.  *)
(*                                                                         *)
(* An action is what a task does between two awaits.  The replay id of an  *)
(* event is its place in the topic's log, 1, 2, ...; 0 is the empty id.    *)
(* The pipeline behind the generator settles one entry at a time.          *)
(***************************************************************************)
EXTENDS Integers, Sequences, FiniteSets

CONSTANTS
    Topics,      \* the topics that pass the include, exclude and owner filters
    NoTopic,
    Explicit,    \* those that the configuration names
    Kept,        \* [Topics -> Seq(BOOLEAN)]: the topic's events; FALSE if one is
                 \* sampled out or filtered and leaves a bare checkpoint only
    Preset,      \* cfg.replay_preset
    Credits,     \* cfg.default_num_requested
    QueueMax,    \* queue_maxsize of the bridge
    BridgeMax,   \* bridge_max_bytes
    Cost,        \* bytes of an entry with a line
    PubFaults,   \* which of the faults below may happen
    MaxTrouble,  \* bound on errors and expiries
    MaxRuns      \* bound on the calls of events()

PubFaultKinds == {"stream", "schema", "poison", "load", "corrupt", "rejected", "discovery",
                  "expire", "cancel", "relead", "kill", "stop"}

ASSUME PubSubAssumption ==
    /\ NoTopic \notin Topics /\ Explicit \subseteq Topics /\ IsFiniteSet(Topics)
    /\ Kept \in [Topics -> Seq(BOOLEAN)]
    /\ Preset \in {"LATEST", "EARLIEST", "CUSTOM"}
    /\ Credits \in 1 .. 100
    /\ QueueMax \in Nat \ {0} /\ BridgeMax \in Nat \ {0} /\ Cost \in Nat \ {0}
    /\ PubFaults \subseteq PubFaultKinds
    /\ MaxTrouble \in Nat /\ MaxRuns \in Nat

VARIABLES
    log,        \* [Topics -> events published so far]
    oldest,     \* [Topics -> the oldest event that is still retained]
    listed,     \* the topics that discovery would report
    committed,  \* [Topics -> the stored replay id; 0 when there is none]
    delivered,  \* [Topics -> events that were pushed]
    excused,    \* [Topics -> events that a subscription without replay id left out
                \*  or that could not be decoded, which is counted]
    gen,        \* where the generator is
    stop,       \* the run's stop event
    cancelled,  \* the generator was cancelled and has cancelled its tasks
    pc,         \* [Topics -> where the topic's task is]
    resume,     \* [Topics -> the task's replay preset and replay id, and
                \*  whether it has loaded them]
    conn,       \* [Topics -> the stream: last event read, last event of the
                \*  response, credits left, whether a response is being handled]
    item,       \* [Topics -> the entry being enqueued]
    red,        \* where the re-discovery task is
    queue,      \* the bridge queue
    bytes,      \* _bridge_queued_bytes; outlives a call of events()
    remaining,  \* sentinels_remaining
    yielded,    \* the entry that the pipeline has
    trouble,    \* errors so far
    runs        \* calls of events() so far

org == <<log, oldest, listed>>
outcome == <<committed, delivered, excused>>
tasks == <<pc, resume, conn, item>>
bridge == <<queue, bytes>>
control == <<gen, stop, cancelled, red, remaining, yielded>>
pubsubVars == <<org, outcome, control, tasks, bridge, trouble, runs>>

Sentinel == [topic |-> NoTopic, id |-> 0, live |-> FALSE]
NoItem == Sentinel
\* What _run_topic starts with: nothing loaded yet.
NoPosition == [loaded |-> FALSE, preset |-> "LATEST", id |-> 0]
NoStream == [read |-> 0, last |-> 0, credits |-> 0, open |-> FALSE]

\* _entry_bytes: a sentinel or a bare checkpoint is free.
EntryBytes(i) == IF i.live THEN Cost ELSE 0

MaxLen == CHOOSE n \in {Len(Kept[t]) : t \in Topics} : \A t \in Topics : Len(Kept[t]) <= n
KeptUpTo(t, n) == {e \in 1 .. n : Kept[t][e]}

\* An earlier process may have settled a prefix of each topic's events.
PubSubInit ==
    /\ log \in {f \in [Topics -> 0 .. MaxLen] : \A t \in Topics : f[t] <= Len(Kept[t])}
    /\ oldest = [t \in Topics |-> 1] /\ listed = Explicit
    /\ committed = log
    /\ delivered = [t \in Topics |-> KeptUpTo(t, committed[t])]
    /\ excused = [t \in Topics |-> {}]
    /\ gen = "idle" /\ stop = FALSE /\ cancelled = FALSE
    /\ pc = [t \in Topics |-> "off"]
    /\ resume = [t \in Topics |-> NoPosition]
    /\ conn = [t \in Topics |-> NoStream]
    /\ item = [t \in Topics |-> NoItem]
    /\ red = "off" /\ queue = <<>> /\ bytes = 0 /\ remaining = 0
    /\ yielded = NoItem /\ trouble = 0 /\ runs = 0

-----------------------------------------------------------------------------
(***************************************************************************)
(* The org.                                                                *)
(***************************************************************************)

Publish(t) ==
    /\ log[t] < Len(Kept[t])
    /\ log' = [log EXCEPT ![t] = @ + 1]
    /\ UNCHANGED <<oldest, listed, outcome, control, tasks, bridge, trouble, runs>>

\* A channel is enabled in the org.
Enable(t) ==
    /\ t \notin listed
    /\ listed' = listed \cup {t}
    /\ UNCHANGED <<log, oldest, outcome, control, tasks, bridge, trouble, runs>>

Trouble(f) ==
    /\ f \in PubFaults /\ trouble < MaxTrouble
    /\ trouble' = trouble + 1

\* The events before n leave the 72 hours' retention.  (What Salesforce does to an
\* open stream that is three days behind is not modelled.)
Expire(t) ==
    /\ Trouble("expire")
    /\ pc[t] \notin {"stream", "charge", "put"}
    /\ \E n \in oldest[t] + 1 .. log[t] + 1 : oldest' = [oldest EXCEPT ![t] = n]
    /\ UNCHANGED <<log, listed, outcome, control, tasks, bridge, runs>>

-----------------------------------------------------------------------------
(***************************************************************************)
(* events(), its tasks' lifecycle and the bridge.                          *)
(***************************************************************************)

\* The topics a task was spawned for in this run.
Subscribed == {t \in Topics : pc[t] # "off"}

\* _spawn_topic, for each topic of S.
Spawn(S) ==
    /\ pc' = [t \in Topics |-> IF t \in S THEN "head" ELSE pc[t]]
    /\ remaining' = remaining + Cardinality(S)

\* events() is called: resolve the topics, spawn their tasks and the re-discovery.
\* A process that was force-cancelled calls it again only if it leads again.
Start ==
    /\ gen = "idle" /\ runs < MaxRuns
    /\ ~cancelled \/ "relead" \in PubFaults
    /\ \E S \in {Explicit, Explicit \cup listed} :
          /\ IF S = Explicit \cup listed THEN UNCHANGED trouble ELSE Trouble("discovery")
          /\ pc' = [t \in Topics |-> IF t \in S THEN "head" ELSE "off"]
          /\ remaining' = Cardinality(S) + 1
    /\ runs' = runs + 1
    /\ gen' = "get" /\ stop' = FALSE /\ cancelled' = FALSE /\ red' = "sleep"
    /\ queue' = <<>>
    /\ resume' = [t \in Topics |-> NoPosition]
    /\ conn' = [t \in Topics |-> NoStream] /\ item' = [t \in Topics |-> NoItem]
    /\ yielded' = NoItem
    /\ UNCHANGED <<org, outcome, bytes>>

\* _rediscover_loop: a pass that finds new topics, finds none, or fails.
Rediscover ==
    /\ red = "sleep" /\ ~stop
    /\ listed \ Subscribed # {}
    /\ Spawn(listed \ Subscribed)
    /\ UNCHANGED <<org, outcome, gen, stop, cancelled, red, yielded, resume, conn, item,
                   bridge, trouble, runs>>

RediscoverEnds ==
    /\ red = "sleep" /\ stop
    /\ red' = "sentinel"
    /\ UNCHANGED <<org, outcome, gen, stop, cancelled, remaining, yielded, tasks, bridge,
                   trouble, runs>>

\* Mutant: the sentinel is awaited although nobody drains the queue any more.
SentinelPutAlways == Len(queue) < QueueMax /\ queue' = Append(queue, Sentinel)
\* _put_sentinel: wait for room, unless the task is being cancelled.
SentinelPut ==
    \/ Len(queue) < QueueMax /\ queue' = Append(queue, Sentinel)
    \/ Len(queue) >= QueueMax /\ cancelled /\ UNCHANGED queue

PutSentinel(t) ==
    /\ pc[t] = "sentinel"
    /\ SentinelPut
    /\ pc' = [pc EXCEPT ![t] = "ended"]
    /\ UNCHANGED <<org, outcome, control, resume, conn, item, bytes, trouble, runs>>

PutRediscoverSentinel ==
    /\ red = "sentinel"
    /\ SentinelPut
    /\ red' = "ended"
    /\ UNCHANGED <<org, outcome, gen, stop, cancelled, remaining, yielded, tasks, bytes,
                   trouble, runs>>

\* Mutant: the bytes are given back only when the entry has been pushed.
BridgeReleaseNothing(i) == UNCHANGED bytes
\* _bridge_release.
BridgeRelease(i) == bytes' = bytes - EntryBytes(i)

\* The generator takes an item from the bridge and yields it, or counts a
\* sentinel and leaves its loop with the last one.
Take ==
    /\ gen = "get" /\ queue # <<>> /\ ~cancelled
    /\ queue' = Tail(queue)
    /\ \/ /\ Head(queue) = Sentinel
          /\ remaining' = remaining - 1
          /\ gen' = IF remaining = 1 THEN "closing" ELSE "get"
          /\ UNCHANGED <<bytes, yielded>>
       \/ /\ Head(queue) # Sentinel
          /\ BridgeRelease(Head(queue))
          /\ yielded' = Head(queue) /\ gen' = "yield"
          /\ UNCHANGED remaining
    /\ UNCHANGED <<org, outcome, stop, cancelled, red, tasks, trouble, runs>>

\* The pipeline pushes the entry and commits its token; a bare checkpoint is
\* committed without a push.
Settle ==
    /\ gen = "yield"
    /\ LET t == yielded.topic IN
          /\ delivered' = IF yielded.live THEN [delivered EXCEPT ![t] = @ \cup {yielded.id}]
                          ELSE delivered
          /\ committed' = [committed EXCEPT ![t] = yielded.id]
    /\ gen' = "get" /\ yielded' = NoItem
    /\ UNCHANGED <<org, excused, stop, cancelled, red, remaining, tasks, bridge, trouble, runs>>

SetStop ==
    /\ "stop" \in PubFaults
    /\ gen \in {"get", "yield"} /\ ~stop
    /\ stop' = TRUE
    /\ UNCHANGED <<org, outcome, gen, cancelled, red, remaining, yielded, tasks, bridge,
                   trouble, runs>>

\* The grace period is over and the generator is cancelled: it cancels its tasks,
\* each of which goes to its finally block from wherever it awaits.
Cancel ==
    /\ "cancel" \in PubFaults
    /\ gen \in {"get", "yield"} /\ stop /\ ~cancelled
    /\ cancelled' = TRUE /\ gen' = "closing" /\ yielded' = NoItem
    /\ pc' = [t \in Topics |-> IF pc[t] \in {"off", "ended"} THEN pc[t] ELSE "sentinel"]
    /\ red' = IF red = "ended" THEN red ELSE "sentinel"
    /\ conn' = [t \in Topics |-> NoStream] /\ item' = [t \in Topics |-> NoItem]
    /\ resume' = [t \in Topics |-> NoPosition]
    /\ UNCHANGED <<org, outcome, stop, remaining, bridge, trouble, runs>>

\* The generator has awaited its tasks.
AllEnded == red = "ended" /\ \A t \in Topics : pc[t] \in {"off", "ended"}

Close ==
    /\ gen = "closing" /\ AllEnded
    /\ gen' = "idle"
    /\ UNCHANGED <<org, outcome, stop, cancelled, red, remaining, yielded, tasks, bridge,
                   trouble, runs>>

\* The process dies.
Kill ==
    /\ "kill" \in PubFaults
    /\ gen # "idle" \/ cancelled
    /\ gen' = "idle" /\ stop' = FALSE /\ cancelled' = FALSE /\ red' = "off" /\ remaining' = 0
    /\ yielded' = NoItem
    /\ pc' = [t \in Topics |-> "off"]
    /\ queue' = <<>> /\ bytes' = 0
    /\ conn' = [t \in Topics |-> NoStream] /\ item' = [t \in Topics |-> NoItem]
    /\ resume' = [t \in Topics |-> NoPosition]
    /\ UNCHANGED <<org, outcome, trouble, runs>>

-----------------------------------------------------------------------------
(***************************************************************************)
(* _run_topic and the stream that subscribe() reads.                       *)
(***************************************************************************)

\* The head of the reconnect loop, where a task starts and where it comes back
\* to from every back-off.
LoopHead(t) ==
    /\ pc[t] = "head"
    /\ pc' = [pc EXCEPT ![t] = IF stop THEN "sentinel"
                              ELSE IF resume[t].loaded THEN "connect" ELSE "load"]
    /\ UNCHANGED <<org, outcome, control, resume, conn, item, bridge, trouble, runs>>

\* Where a topic without a stored id starts.
InitialPreset == IF Preset = "CUSTOM" THEN "LATEST" ELSE Preset

Load(t) ==
    /\ pc[t] = "load"
    /\ resume' = [resume EXCEPT ![t] =
                     [loaded |-> TRUE, id |-> committed[t],
                      preset |-> IF committed[t] # 0 THEN "CUSTOM" ELSE InitialPreset]]
    /\ pc' = [pc EXCEPT ![t] = "connect"]
    /\ UNCHANGED <<org, outcome, control, conn, item, bridge, trouble, runs>>

LoadFails(t) ==
    /\ pc[t] = "load"
    /\ Trouble("load")
    /\ pc' = [pc EXCEPT ![t] = "head"]
    /\ UNCHANGED <<org, outcome, control, resume, conn, item, bridge, runs>>

\* The stored value does not decode: it is as good as none.
LoadCorrupt(t) ==
    /\ pc[t] = "load" /\ committed[t] # 0
    /\ Trouble("corrupt")
    /\ committed' = [committed EXCEPT ![t] = 0]
    /\ resume' = [resume EXCEPT ![t] = [loaded |-> TRUE, id |-> 0, preset |-> InitialPreset]]
    /\ pc' = [pc EXCEPT ![t] = "connect"]
    /\ UNCHANGED <<org, delivered, excused, control, conn, item, bridge, runs>>

\* Salesforce does not take an id that has left its retention.
Expired(t) == resume[t].preset = "CUSTOM" /\ resume[t].id < oldest[t]

\* The last event before the first one that a new subscription gets.
StartsAfter(t) ==
    CASE resume[t].preset = "CUSTOM" -> resume[t].id
      [] resume[t].preset = "EARLIEST" -> oldest[t] - 1
      [] resume[t].preset = "LATEST" -> log[t]

\* What no configuration promises: with LATEST the events before a topic's first
\* position, with EARLIEST the ones that have left the retention.
NotPromised(t) ==
    CASE resume[t].preset = "EARLIEST" -> 1 .. oldest[t] - 1
      [] resume[t].preset = "LATEST" /\ committed[t] = 0 -> 1 .. log[t]
      [] OTHER -> {}

\* subscribe(): the first FetchRequest is accepted.
Connect(t) ==
    /\ pc[t] = "connect" /\ ~Expired(t)
    /\ conn' = [conn EXCEPT ![t] = [read |-> StartsAfter(t), last |-> StartsAfter(t),
                                   credits |-> Credits, open |-> FALSE]]
    /\ excused' = [excused EXCEPT ![t] = @ \cup NotPromised(t)]
    /\ pc' = [pc EXCEPT ![t] = "stream"]
    /\ UNCHANGED <<org, committed, delivered, control, resume, item, bridge, trouble, runs>>

\* Mutant: a rejected id is replaced by the present end of the log.
AfterRejectionLatest == [loaded |-> TRUE, id |-> 0, preset |-> "LATEST"]
AfterRejection == [loaded |-> TRUE, id |-> 0, preset |-> "EARLIEST"]

\* INVALID_ARGUMENT while resuming: an expired id, or one that Salesforce takes
\* for corrupt (the trailer says so, or there is none).
IdRejected(t) ==
    /\ pc[t] = "connect" /\ resume[t].preset = "CUSTOM"
    /\ IF Expired(t) THEN UNCHANGED trouble ELSE Trouble("rejected")
    /\ resume' = [resume EXCEPT ![t] = AfterRejection]
    /\ pc' = [pc EXCEPT ![t] = "head"]
    /\ UNCHANGED <<org, outcome, control, conn, item, bridge, runs>>

\* Any other way for a subscription or a stream to end: an INVALID_ARGUMENT whose
\* trailer names something else, a transport or authentication error, the stall
\* watchdog, a clean end.  The position is kept.
StreamEnds(t) ==
    /\ pc[t] = "connect" \/ (pc[t] = "stream" /\ ~conn[t].open)
    /\ Trouble("stream")
    /\ pc' = [pc EXCEPT ![t] = "head"]
    /\ conn' = [conn EXCEPT ![t] = NoStream]
    /\ UNCHANGED <<org, outcome, control, resume, item, bridge, runs>>

\* A FetchResponse with n events.
Respond(t) ==
    /\ pc[t] = "stream" /\ ~conn[t].open
    /\ \E n \in 1 .. conn[t].credits :
          /\ conn[t].read + n <= log[t]
          /\ conn' = [conn EXCEPT ![t].last = @ + n, ![t].credits = @ - n, ![t].open = TRUE]
    /\ UNCHANGED <<org, outcome, control, pc, resume, item, bridge, trouble, runs>>

Entry(t, e, live) == [topic |-> t, id |-> e, live |-> live]

\* Go on to _enqueue an item; its id is where a reconnect resumes from now on.
Enqueue(t, i) ==
    /\ item' = [item EXCEPT ![t] = i]
    /\ resume' = [resume EXCEPT ![t].id = i.id, ![t].preset = "CUSTOM"]
    /\ pc' = [pc EXCEPT ![t] = "charge"]

\* A FetchResponse without events and with the latest replay id, which is enqueued
\* as a bare checkpoint unless it is the id the task has already.
Keepalive(t) ==
    /\ pc[t] = "stream" /\ ~conn[t].open
    /\ conn[t].read = log[t] /\ log[t] # 0
    /\ conn' = [conn EXCEPT ![t].open = TRUE]
    /\ \/ /\ stop
          /\ pc' = [pc EXCEPT ![t] = "sentinel"]
          /\ UNCHANGED <<resume, item>>
       \/ /\ ~stop /\ log[t] = resume[t].id
          /\ UNCHANGED <<pc, resume, item>>
       \/ /\ ~stop /\ log[t] # resume[t].id
          /\ Enqueue(t, Entry(t, log[t], FALSE))
    /\ UNCHANGED <<org, outcome, control, bridge, trouble, runs>>

\* The next event of the response is decoded and enqueued, with its line or as a
\* bare checkpoint.
NextEvent(t) ==
    LET e == conn[t].read + 1 IN
    /\ pc[t] = "stream" /\ conn[t].open /\ conn[t].read < conn[t].last
    /\ conn' = [conn EXCEPT ![t].read = e]
    /\ \/ /\ stop
          /\ pc' = [pc EXCEPT ![t] = "sentinel"]
          /\ UNCHANGED <<resume, item>>
       \/ /\ ~stop
          /\ Enqueue(t, Entry(t, e, Kept[t][e]))
    /\ UNCHANGED <<org, outcome, control, bridge, trouble, runs>>

\* It cannot be decoded: it is counted and skipped.
PoisonEvent(t) ==
    LET e == conn[t].read + 1 IN
    /\ pc[t] = "stream" /\ conn[t].open /\ conn[t].read < conn[t].last
    /\ Trouble("poison")
    /\ conn' = [conn EXCEPT ![t].read = e]
    /\ excused' = [excused EXCEPT ![t] = @ \cup {e}]
    /\ UNCHANGED <<org, committed, delivered, control, pc, resume, item, bridge, runs>>

\* SchemaFetchError leaves subscribe() in the middle of a response.
SchemaFails(t) ==
    /\ pc[t] = "stream" /\ conn[t].open /\ conn[t].read < conn[t].last
    /\ Trouble("schema")
    /\ pc' = [pc EXCEPT ![t] = "head"]
    /\ conn' = [conn EXCEPT ![t] = NoStream]
    /\ UNCHANGED <<org, outcome, control, resume, item, bridge, runs>>

\* The low watermark.
AtWatermark(c) == c <= Credits \div 2

\* The response is through: top the credits up.
TopUp(t) ==
    /\ pc[t] = "stream" /\ conn[t].open /\ conn[t].read = conn[t].last
    /\ conn' = [conn EXCEPT ![t].open = FALSE,
                  ![t].credits = IF AtWatermark(@) THEN @ + Credits ELSE @]
    /\ UNCHANGED <<org, outcome, control, pc, resume, item, bridge, trouble, runs>>

\* The write of the top-up finds the stream closed: a clean end.
TopUpFails(t) ==
    /\ pc[t] = "stream" /\ conn[t].open /\ conn[t].read = conn[t].last
    /\ AtWatermark(conn[t].credits)
    /\ Trouble("stream")
    /\ pc' = [pc EXCEPT ![t] = "head"]
    /\ conn' = [conn EXCEPT ![t] = NoStream]
    /\ UNCHANGED <<org, outcome, control, resume, item, bridge, runs>>

\* _bridge_charge, then a put that waits only if the queue is full.
Charge(t) ==
    /\ pc[t] = "charge"
    /\ EntryBytes(item[t]) = 0 \/ bytes < BridgeMax
    /\ bytes' = bytes + EntryBytes(item[t])
    /\ IF Len(queue) < QueueMax
       THEN /\ queue' = Append(queue, item[t])
            /\ pc' = [pc EXCEPT ![t] = "stream"] /\ item' = [item EXCEPT ![t] = NoItem]
       ELSE /\ pc' = [pc EXCEPT ![t] = "put"]
            /\ UNCHANGED <<queue, item>>
    /\ UNCHANGED <<org, outcome, control, resume, conn, trouble, runs>>

PutItem(t) ==
    /\ pc[t] = "put" /\ Len(queue) < QueueMax
    /\ queue' = Append(queue, item[t])
    /\ pc' = [pc EXCEPT ![t] = "stream"] /\ item' = [item EXCEPT ![t] = NoItem]
    /\ UNCHANGED <<org, outcome, control, resume, conn, bytes, trouble, runs>>

-----------------------------------------------------------------------------
TopicStep(t) ==
    \/ LoopHead(t) \/ Load(t) \/ Connect(t) \/ Respond(t) \/ NextEvent(t) \/ TopUp(t)
    \/ Charge(t) \/ PutItem(t) \/ PutSentinel(t)

TopicFault(t) ==
    \/ LoadFails(t) \/ LoadCorrupt(t) \/ StreamEnds(t) \/ PoisonEvent(t) \/ SchemaFails(t)
    \/ TopUpFails(t)

PubSubNext ==
    \/ Start \/ Rediscover \/ RediscoverEnds \/ PutRediscoverSentinel
    \/ Take \/ Settle \/ SetStop \/ Cancel \/ Close \/ Kill
    \/ \E t \in Topics : \/ Publish(t) \/ Expire(t) \/ Enable(t)
                         \/ TopicStep(t) \/ Keepalive(t) \/ IdRejected(t) \/ TopicFault(t)

\* The event loop serves every task, the pipeline takes what is yielded, the
\* grace period ends, Salesforce answers while it has events and credits, and
\* an expired id is always answered with its rejection.
PubSubFairness ==
    /\ \A t \in Topics : WF_pubsubVars(TopicStep(t)) /\ WF_pubsubVars(Expired(t) /\ IdRejected(t))
    /\ WF_pubsubVars(Rediscover) /\ WF_pubsubVars(RediscoverEnds)
    /\ WF_pubsubVars(PutRediscoverSentinel)
    /\ WF_pubsubVars(Take) /\ WF_pubsubVars(Settle) /\ WF_pubsubVars(Cancel) /\ WF_pubsubVars(Close)

PubSubSpec == PubSubInit /\ [][PubSubNext]_pubsubVars
FairPubSubSpec == PubSubSpec /\ PubSubFairness

-----------------------------------------------------------------------------
(***************************************************************************)
(* Properties.                                                             *)
(***************************************************************************)

\* The stored replay id never passes an event that should have been pushed and
\* was not, although keepalives and sampled-out events commit ids without a
\* push, decoding fails, ids are rejected, and tasks and processes die.
NoSkip ==
    \A t \in Topics : KeptUpTo(t, committed[t]) \subseteq delivered[t] \cup excused[t]

\* The byte account is what sits in the queue or waits for room in it, unless a
\* cancelled run has left entries behind.
BridgeBytesExact ==
    ~cancelled => bytes = Cost * (Cardinality({i \in DOMAIN queue : queue[i].live})
                                  + Cardinality({t \in Topics : pc[t] = "put" /\ item[t].live}))

\* events() returns of its own accord only when every task has ended and every
\* entry was yielded, the tasks that re-discovery added included.
EndsDrained == gen = "closing" /\ ~cancelled => queue = <<>> /\ AllEnded

\* The bridge loses neither bytes nor entries.
BridgeSound == BridgeBytesExact /\ EndsDrained

\* A retained event of a listed topic is pushed in the end if the source stays
\* up: no stream is left without credits, no topic without task, no task waits
\* for room that nobody makes, whatever the streams and the store do meanwhile.
Up(t, e) == gen \in {"get", "yield"} /\ ~stop /\ t \in listed /\ e <= log[t]
EveryEventArrives ==
    \A t \in Topics : \A e \in DOMAIN Kept[t] :
        Kept[t][e] =>
            (<>[]Up(t, e) => <>(e \in delivered[t] \cup excused[t] \/ e < oldest[t]))

\* After stop the generator ends, with the queue full and nobody draining it too.
StopEndsSource == stop ~> gen = "idle"

\* Neither a topic nor the shutdown is ever stuck.
TopicsLive == EveryEventArrives /\ StopEndsSource

=============================================================================
