------------------------------ MODULE Pipeline ------------------------------
(***************************************************************************)
(* The ingestion pipeline of sf2loki (src/sf2loki/app.py, class Pipeline): *)
(* one producer task per source, and per lane one bounded queue, one byte  *)
(* budget and one consumer task that batches, pushes to the sink, retries  *)
(* and commits checkpoints only after the sink accepted the batch.         *)
(*                                                                         *)
(* An asyncio task runs without interruption between two awaits, so every  *)
(* action below is the code between two awaits of one task.                *)
(*                                                                         *)
(* A source is abstracted to the script of entries that Salesforce holds   *)
(* for it; an entry is its source and its position in that script, and the *)
(* checkpoint value of an entry is that position.  A source (re)started    *)
(* after a crash resumes right after the committed position.               *)
(***************************************************************************)
EXTENDS Integers, Sequences, FiniteSets

CONSTANTS
    Sources,        \* one producer task each
    Lanes,          \* "streaming" and "bulk" in the code
    LaneOf,         \* [Sources -> Lanes]
    Script,         \* [Sources -> Seq([live : BOOLEAN, cost : Nat])]
    QueueMax,       \* batch.queue_maxsize
    ByteBudget,     \* batch.queue_max_bytes; 0 disables byte accounting
    MaxEntries,     \* batch.max_entries
    MaxBytes,       \* batch.max_bytes
    MaxCost,        \* largest cost of one entry
    Faults,         \* which faults the environment may inject
    StuckLanes,     \* lanes whose pushes may never be answered
    MaxRuns         \* bound: how many times run() is started

FaultKinds == {"retryable", "lost_answer", "permanent", "over_budget",
               "commit_error", "source_error", "kill", "stop", "grace"}

Item == [live : BOOLEAN, cost : Nat]

ASSUME PipelineAssumption ==
    /\ IsFiniteSet(Sources)
    /\ LaneOf \in [Sources -> Lanes]
    /\ Script \in [Sources -> Seq(Item)]
    /\ QueueMax \in Nat \ {0}
    /\ ByteBudget \in Nat
    /\ MaxEntries \in Nat \ {0}
    /\ MaxBytes \in Nat \ {0}
    /\ MaxCost \in Nat
    /\ \A s \in Sources : \A p \in 1..Len(Script[s]) : Script[s][p].cost <= MaxCost
    /\ Faults \subseteq FaultKinds
    /\ StuckLanes \subseteq Lanes
    /\ MaxRuns \in Nat

VARIABLES
    main,         \* where the run() coroutine is
    verdict,      \* how run() will end once its finally block is through
    stop,         \* the stop event of this run
    graceFired,   \* _drain_with_grace has cancelled run()
    prod,         \* [Sources -> where the producer task is]
    fate,         \* [Sources -> how the producer ends after its sentinel]
    nxt,          \* [Sources -> position of the entry being produced]
    queue,        \* [Lanes -> Seq(Entry)], the lane queues
    queuedBytes,  \* [Lanes -> Int], the lane byte accounts
    cons,         \* [Lanes -> where the consumer task is]
    active,       \* [Lanes -> producers whose sentinel is still to come]
    batch,        \* [Lanes -> Seq(Entry)], the batch being built or flushed
    approxBytes,  \* [Lanes -> Int], its approximate size
    failing,      \* the lanes whose failing_since is set
    committed,    \* [Sources -> Nat], the durable checkpoint
    delivered,    \* entries Loki has accepted
    dropped,      \* entries dropped on purpose, and counted
    abandoned,    \* entries of batches _flush gave up on because of stop
    runs          \* how often run() was started

taskVars  == <<prod, fate, nxt, queue, queuedBytes>>
laneVars  == <<cons, active, batch, approxBytes, failing>>
mainVars  == <<main, verdict, stop, graceFired, runs>>
outVars   == <<committed, delivered, dropped, abandoned>>
vars      == <<mainVars, taskVars, laneVars, outVars>>

-----------------------------------------------------------------------------
(* Entries.                                                                 *)

Entry(s, p) == [src |-> s, pos |-> p]

\* The object a producer puts last; position 0 tells it from every entry.
Sentinel(s) == Entry(s, 0)

IsSentinel(e) == e.pos = 0

\* checkpoint_only is FALSE: the entry has a line to push.
IsLive(e) == e.pos # 0 /\ Script[e.src][e.pos].live

\* Pipeline._entry_cost: sentinels and checkpoint_only entries are free.
EntryCost(e) == IF IsLive(e) THEN Script[e.src][e.pos].cost ELSE 0

Elems(q) == {q[i] : i \in DOMAIN q}
Real(q)  == {e \in Elems(q) : IsLive(e)}

Entries == {e \in [src : Sources, pos : Nat \ {0}] : e.pos <= Len(Script[e.src])}
Items   == Entries \cup {Sentinel(s) : s \in Sources}

SourcesOf(l) == {s \in Sources : LaneOf[s] = l}

-----------------------------------------------------------------------------
(* The two gather() futures of run(): gather resolves when every child is   *)
(* through, or as soon as one child raised or was cancelled.                *)

Running       == {"waiting", "joining", "closing"}
Finished      == {"returned", "raised", "cancelled"}
ProducerEnded == {"done", "failed", "cancelled"}
ConsumerEnded == {"done", "dead", "cancelled"}

ProducersDone == \/ \E s \in Sources : prod[s] \in {"failed", "cancelled"}
                 \/ \A s \in Sources : prod[s] \in ProducerEnded
ConsumersDone == \/ \E l \in Lanes : cons[l] \in {"dead", "cancelled"}
                 \/ \A l \in Lanes : cons[l] \in ConsumerEnded

\* Task.cancel() on every unfinished producer: a task cancelled in its loop
\* enters its finally block; one cancelled while it awaits the put of its
\* sentinel ends there, without having put it.
CancelledProd == [s \in Sources |->
    CASE prod[s] \in {"events", "charge", "put"} -> "sentinel"
      [] prod[s] = "sentinel" -> "cancelled"
      [] OTHER -> prod[s]]
CancelledFate == [s \in Sources |->
    IF prod[s] \in {"events", "charge", "put"} THEN "cancelled" ELSE fate[s]]
CancelledCons == [l \in Lanes |->
    IF cons[l] \in ConsumerEnded THEN cons[l] ELSE "cancelled"]

\* future.cancel(): a no-op on a future that is already done.
CancelProducers ==
    IF ProducersDone THEN UNCHANGED <<prod, fate>>
    ELSE prod' = CancelledProd /\ fate' = CancelledFate
CancelConsumers ==
    IF ConsumersDone THEN UNCHANGED cons ELSE cons' = CancelledCons

-----------------------------------------------------------------------------
(* run() itself.                                                            *)

Init ==
    /\ main = "down" /\ verdict = "none" /\ stop = FALSE /\ graceFired = FALSE
    /\ runs = 0
    /\ prod = [s \in Sources |-> "done"]
    /\ fate = [s \in Sources |-> "done"]
    /\ nxt = [s \in Sources |-> 1]
    /\ queue = [l \in Lanes |-> <<>>]
    /\ queuedBytes = [l \in Lanes |-> 0]
    /\ cons = [l \in Lanes |-> "done"]
    /\ active = [l \in Lanes |-> 0]
    /\ batch = [l \in Lanes |-> <<>>]
    /\ approxBytes = [l \in Lanes |-> 0]
    /\ failing = {}
    /\ committed = [s \in Sources |-> 0]
    /\ delivered = {} /\ dropped = {} /\ abandoned = {}

\* Nothing is in memory, and every source would resume at its checkpoint.
Reset ==
    /\ verdict' = "none" /\ stop' = FALSE /\ graceFired' = FALSE
    /\ fate' = [s \in Sources |-> "done"]
    /\ nxt' = [s \in Sources |-> committed[s] + 1]
    /\ queue' = [l \in Lanes |-> <<>>]
    /\ queuedBytes' = [l \in Lanes |-> 0]
    /\ batch' = [l \in Lanes |-> <<>>]
    /\ approxBytes' = [l \in Lanes |-> 0]
    /\ failing' = {}

\* run() begins: fresh lanes, one consumer for each lane that has a source,
\* and every source loads its committed position.  What an earlier run
\* abandoned and the checkpoint did not pass is going to be read again.
Start ==
    /\ main \in {"down"} \cup Finished
    /\ runs < MaxRuns
    /\ runs' = runs + 1
    /\ main' = "waiting"
    /\ Reset
    /\ prod' = [s \in Sources |-> "events"]
    /\ cons' = [l \in Lanes |-> IF SourcesOf(l) = {} THEN "done" ELSE "get"]
    /\ active' = [l \in Lanes |-> Cardinality(SourcesOf(l))]
    /\ abandoned' = {e \in abandoned : e.pos <= committed[e.src]}
    /\ UNCHANGED <<committed, delivered, dropped>>

\* The process dies: nothing but the checkpoints and Loki's contents survives.
Kill ==
    /\ "kill" \in Faults
    /\ main # "down"
    /\ main' = "down"
    /\ Reset
    /\ prod' = [s \in Sources |-> "done"]
    /\ cons' = [l \in Lanes |-> "done"]
    /\ active' = [l \in Lanes |-> 0]
    /\ UNCHANGED <<runs, outVars>>

\* A signal, or the loss of leadership, sets the run's stop event.
SetStop ==
    /\ "stop" \in Faults
    /\ main \in Running
    /\ ~stop
    /\ stop' = TRUE
    /\ UNCHANGED <<main, verdict, graceFired, runs, taskVars, laneVars, outVars>>

\* The finally block: cancel what is still running, then await both gathers.
Finally(v) ==
    /\ main' = "closing" /\ verdict' = v
    /\ CancelProducers
    /\ CancelConsumers

\* asyncio.wait(FIRST_COMPLETED) returns in run().
Wake ==
    /\ main = "waiting"
    /\ \/ /\ ConsumersDone /\ ~ProducersDone
          /\ Finally(IF \E l \in Lanes : cons[l] = "dead" THEN "raised" ELSE "returned")
       \/ /\ ProducersDone
          /\ \E s \in Sources : prod[s] = "failed"
          /\ Finally("raised")
       \/ /\ ProducersDone
          /\ \A s \in Sources : prod[s] = "done"
          /\ main' = "joining"
          /\ UNCHANGED <<verdict, prod, fate, cons>>
    /\ UNCHANGED <<stop, graceFired, runs, nxt, queue, queuedBytes,
                   active, batch, approxBytes, failing, outVars>>

\* await consumers_done, after every producer has finished.
Join ==
    /\ main = "joining"
    /\ ConsumersDone
    /\ Finally(IF \E l \in Lanes : cons[l] = "dead" THEN "raised"
               ELSE IF \E l \in Lanes : cons[l] = "cancelled" THEN "cancelled"
               ELSE "returned")
    /\ UNCHANGED <<stop, graceFired, runs, nxt, queue, queuedBytes,
                   active, batch, approxBytes, failing, outVars>>

\* The gather of the finally block resolves, and run() is through.
Close ==
    /\ main = "closing"
    /\ ProducersDone /\ ConsumersDone
    /\ main' = verdict
    /\ UNCHANGED <<verdict, stop, graceFired, runs, taskVars, laneVars, outVars>>

\* _drain_with_grace: run() outlived shutdown_grace after stop, and its task
\* is cancelled, once.  The cancellation hits whatever run() awaits.
GraceExpired ==
    /\ "grace" \in Faults
    /\ stop /\ ~graceFired
    /\ main \in Running
    /\ graceFired' = TRUE
    /\ \/ main = "waiting" /\ Finally("cancelled")
       \/ main = "joining" /\ CancelConsumers /\ UNCHANGED <<main, verdict, prod, fate>>
       \/ main = "closing" /\ CancelProducers /\ CancelConsumers
                           /\ UNCHANGED <<main, verdict>>
    /\ UNCHANGED <<stop, runs, nxt, queue, queuedBytes,
                   active, batch, approxBytes, failing, outVars>>

-----------------------------------------------------------------------------
(* Producers: Pipeline._produce.                                            *)

prodRest == <<mainVars, laneVars, outVars>>

\* The source yields its next entry.
Yield(s) ==
    /\ prod[s] = "events"
    /\ nxt[s] <= Len(Script[s])
    /\ prod' = [prod EXCEPT ![s] = "charge"]
    /\ UNCHANGED <<fate, nxt, queue, queuedBytes, prodRest>>

\* Mutant: the lanes share one budget.
HeadroomShared(l, c) == \A k \in Lanes : queuedBytes[k] < ByteBudget

\* _charge admits an entry of cost c while the lane is UNDER its budget, so
\* that one entry may overshoot it.
Headroom(l, c) == queuedBytes[l] < ByteBudget

\* _charge: free entries and a zero budget never wait.
Charge(s) ==
    LET l == LaneOf[s]
        c == EntryCost(Entry(s, nxt[s]))
    IN /\ prod[s] = "charge"
       /\ \/ /\ ByteBudget = 0 \/ c = 0
             /\ UNCHANGED queuedBytes
          \/ /\ ByteBudget > 0 /\ c > 0
             /\ Headroom(l, c)
             /\ queuedBytes' = [queuedBytes EXCEPT ![l] = @ + c]
       /\ prod' = [prod EXCEPT ![s] = "put"]
       /\ UNCHANGED <<fate, nxt, queue, prodRest>>

\* lane.queue.put(entry): waits while the queue is full.
Put(s) ==
    LET l == LaneOf[s]
    IN /\ prod[s] = "put"
       /\ Len(queue[l]) < QueueMax
       /\ queue' = [queue EXCEPT ![l] = Append(@, Entry(s, nxt[s]))]
       /\ nxt' = [nxt EXCEPT ![s] = @ + 1]
       /\ prod' = [prod EXCEPT ![s] = "events"]
       /\ UNCHANGED <<fate, queuedBytes, prodRest>>

\* The source's generator returns, on stop or because it is exhausted.
SourceEnds(s) ==
    /\ prod[s] = "events"
    /\ stop \/ nxt[s] > Len(Script[s])
    /\ prod' = [prod EXCEPT ![s] = "sentinel"]
    /\ UNCHANGED <<fate, nxt, queue, queuedBytes, prodRest>>

\* The source's generator raises.
SourceFails(s) ==
    /\ "source_error" \in Faults
    /\ prod[s] = "events"
    /\ prod' = [prod EXCEPT ![s] = "sentinel"]
    /\ fate' = [fate EXCEPT ![s] = "failed"]
    /\ UNCHANGED <<nxt, queue, queuedBytes, prodRest>>

\* finally: lane.queue.put(_SENTINEL), which waits while the queue is full.
PutSentinel(s) ==
    LET l == LaneOf[s]
    IN /\ prod[s] = "sentinel"
       /\ Len(queue[l]) < QueueMax
       /\ queue' = [queue EXCEPT ![l] = Append(@, Sentinel(s))]
       /\ prod' = [prod EXCEPT ![s] = fate[s]]
       /\ UNCHANGED <<fate, nxt, queuedBytes, prodRest>>

-----------------------------------------------------------------------------
(* Consumers: Pipeline._consume and Pipeline._flush.                        *)

consRest == <<mainVars, prod, fate, nxt>>

\* Mutant: the bytes of a dequeued entry are never given back.
ReleaseNothing(l, e) == UNCHANGED queuedBytes

\* _release: give the bytes of a dequeued entry back to its lane.
Release(l, e) ==
    queuedBytes' = IF ByteBudget = 0 THEN queuedBytes
                   ELSE [queuedBytes EXCEPT ![l] = @ - EntryCost(e)]

\* Mutant: one keepalive in the batch makes the whole batch skip the sink.
FlushAtAnyKeepalive(b) == IF Real(b) # Elems(b) THEN "commit" ELSE "admit"

\* Where _flush starts: a batch of keepalives only is committed directly.
FlushAt(b) == IF Real(b) = {} THEN "commit" ELSE "admit"

BatchFull(b, bytes) == Len(b) >= MaxEntries \/ bytes >= MaxBytes

\* The queue hands over an entry.
GetEntry(l) ==
    LET e == Head(queue[l])
        b == Append(batch[l], e)
        n == approxBytes[l] + EntryCost(e)
    IN /\ cons[l] = "get"
       /\ queue[l] # <<>>
       /\ ~IsSentinel(e)
       /\ queue' = [queue EXCEPT ![l] = Tail(@)]
       /\ Release(l, e)
       /\ batch' = [batch EXCEPT ![l] = b]
       /\ approxBytes' = [approxBytes EXCEPT ![l] = n]
       /\ cons' = [cons EXCEPT ![l] = IF BatchFull(b, n) THEN FlushAt(b) ELSE "get"]
       /\ UNCHANGED <<active, failing, consRest, outVars>>

\* Mutant: the first sentinel ends the lane.
GetFirstSentinel(l) ==
    /\ cons[l] = "get"
    /\ queue[l] # <<>>
    /\ IsSentinel(Head(queue[l]))
    /\ queue' = [queue EXCEPT ![l] = Tail(@)]
    /\ active' = [active EXCEPT ![l] = 0]
    /\ cons' = [cons EXCEPT ![l] = IF batch[l] = <<>> THEN "done" ELSE FlushAt(batch[l])]
    /\ UNCHANGED <<batch, approxBytes, failing, queuedBytes, consRest, outVars>>

\* The queue hands over a sentinel; the last one flushes what is left.
GetSentinel(l) ==
    LET e == Head(queue[l])
    IN /\ cons[l] = "get"
       /\ queue[l] # <<>>
       /\ IsSentinel(e)
       /\ queue' = [queue EXCEPT ![l] = Tail(@)]
       /\ Release(l, e)
       /\ active' = [active EXCEPT ![l] = @ - 1]
       /\ cons' = [cons EXCEPT ![l] = IF active[l] > 1 THEN "get"
                                      ELSE IF batch[l] = <<>> THEN "done"
                                      ELSE FlushAt(batch[l])]
       /\ UNCHANGED <<batch, approxBytes, failing, consRest, outVars>>

\* flush_interval has passed since the batch got its first entry.
FlushDeadline(l) ==
    /\ cons[l] = "get"
    /\ batch[l] # <<>>
    /\ cons' = [cons EXCEPT ![l] = FlushAt(batch[l])]
    /\ UNCHANGED <<active, batch, approxBytes, failing, queue, queuedBytes,
                   consRest, outVars>>

\* Mutant: after its last flush the consumer goes on waiting for the queue.
NextBatchNoReturn(l) ==
    /\ batch' = [batch EXCEPT ![l] = <<>>]
    /\ approxBytes' = [approxBytes EXCEPT ![l] = 0]
    /\ cons' = [cons EXCEPT ![l] = "get"]

\* The consumer is through with its batch, in whichever way.
NextBatch(l) ==
    /\ batch' = [batch EXCEPT ![l] = <<>>]
    /\ approxBytes' = [approxBytes EXCEPT ![l] = 0]
    /\ cons' = [cons EXCEPT ![l] = IF active[l] = 0 THEN "done" ELSE "get"]

\* governor.admit returns True (or there is no governor) ...
Admit(l) ==
    /\ cons[l] = "admit"
    /\ cons' = [cons EXCEPT ![l] = "push"]
    /\ UNCHANGED <<active, batch, approxBytes, failing, queue, queuedBytes,
                   consRest, outVars>>

\* ... or False: the batch is over the daily budget and is dropped.
DropOverBudget(l) ==
    /\ "over_budget" \in Faults
    /\ cons[l] = "admit"
    /\ dropped' = dropped \cup Real(batch[l])
    /\ cons' = [cons EXCEPT ![l] = "commit"]
    /\ UNCHANGED <<active, batch, approxBytes, failing, queue, queuedBytes,
                   consRest, committed, delivered, abandoned>>

\* sink.push returns.
PushOk(l) ==
    /\ cons[l] = "push"
    /\ delivered' = delivered \cup Real(batch[l])
    /\ failing' = failing \ {l}
    /\ cons' = [cons EXCEPT ![l] = "commit"]
    /\ UNCHANGED <<active, batch, approxBytes, queue, queuedBytes,
                   consRest, committed, dropped, abandoned>>

\* sink.push raises PermanentSinkError: the poison batch is dropped.
PushPermanent(l) ==
    /\ "permanent" \in Faults
    /\ cons[l] = "push"
    /\ dropped' = dropped \cup Real(batch[l])
    /\ failing' = failing \ {l}
    /\ cons' = [cons EXCEPT ![l] = "commit"]
    /\ UNCHANGED <<active, batch, approxBytes, queue, queuedBytes,
                   consRest, committed, delivered, abandoned>>

\* stop makes _flush give up on its batch, uncommitted.
Abandon(l) ==
    /\ abandoned' = abandoned \cup Elems(batch[l])
    /\ NextBatch(l)

\* sink.push raises RetryableSinkError.  Loki may have taken the batch when
\* only its answer was lost.
PushRetryable(l) ==
    /\ "retryable" \in Faults
    /\ cons[l] = "push"
    /\ failing' = failing \cup {l}
    /\ \/ UNCHANGED delivered
       \/ "lost_answer" \in Faults /\ delivered' = delivered \cup Real(batch[l])
    /\ \/ stop /\ Abandon(l)
       \/ /\ ~stop
          /\ cons' = [cons EXCEPT ![l] = "backoff"]
          /\ UNCHANGED <<batch, approxBytes, abandoned>>
    /\ UNCHANGED <<active, queue, queuedBytes, consRest, committed, dropped>>

\* Mutant: a failed batch goes back to the end of its queue.
BackoffRequeue(l) ==
    /\ cons[l] = "backoff"
    /\ \/ stop /\ Abandon(l) /\ UNCHANGED queue
       \/ /\ ~stop
          /\ queue' = [queue EXCEPT ![l] = @ \o batch[l]]
          /\ NextBatch(l)
          /\ UNCHANGED abandoned
    /\ UNCHANGED <<active, failing, queuedBytes, consRest,
                   committed, delivered, dropped>>

\* The backoff ends and the batch is pushed again, or stop ends it.
Backoff(l) ==
    /\ cons[l] = "backoff"
    /\ \/ stop /\ Abandon(l)
       \/ /\ ~stop
          /\ cons' = [cons EXCEPT ![l] = "push"]
          /\ UNCHANGED <<batch, approxBytes, abandoned>>
    /\ UNCHANGED <<active, failing, queue, queuedBytes, consRest,
                   committed, delivered, dropped>>

\* _commit: the last token of each key, in one write of the checkpoint store.
Positions(b, s) == {e.pos : e \in {x \in Elems(b) : x.src = s}}
LastIndex(b, s) == CHOOSE i \in DOMAIN b :
                      b[i].src = s /\ \A j \in DOMAIN b : b[j].src = s => j <= i
LastTokens(b) == [s \in Sources |->
    IF Positions(b, s) = {} THEN committed[s] ELSE b[LastIndex(b, s)].pos]

Commit(l) ==
    /\ cons[l] = "commit"
    /\ committed' = LastTokens(batch[l])
    /\ NextBatch(l)
    /\ UNCHANGED <<active, failing, queue, queuedBytes, consRest,
                   delivered, dropped, abandoned>>

\* The checkpoint write, or the write of the budget counter before it, raises
\* and ends the consumer.
CommitFails(l) ==
    /\ "commit_error" \in Faults
    /\ cons[l] = "commit"
    /\ cons' = [cons EXCEPT ![l] = "dead"]
    /\ UNCHANGED <<active, batch, approxBytes, failing, queue, queuedBytes,
                   consRest, outVars>>

-----------------------------------------------------------------------------

Producer(s) == Yield(s) \/ Charge(s) \/ Put(s) \/ SourceEnds(s) \/ SourceFails(s)
               \/ PutSentinel(s)
Consumer(l) == GetEntry(l) \/ GetSentinel(l) \/ FlushDeadline(l) \/ Admit(l)
               \/ DropOverBudget(l) \/ PushOk(l) \/ PushPermanent(l)
               \/ PushRetryable(l) \/ Backoff(l) \/ Commit(l) \/ CommitFails(l)
Control     == Start \/ Kill \/ SetStop \/ Wake \/ Join \/ Close \/ GraceExpired

Next == \/ Control
        \/ \E s \in Sources : Producer(s)
        \/ \E l \in Lanes : Consumer(l)

Spec == Init /\ [][Next]_vars

-----------------------------------------------------------------------------
(* Fairness.  A task that can go on is eventually scheduled by the event    *)
(* loop; httpx timeouts end every push attempt, except in the lanes of      *)
(* StuckLanes, where the sink may hang.  Until stop, outages end: a push    *)
(* that is tried again and again eventually succeeds.  Once stop is set the *)
(* sink may fail every attempt.                                             *)

ProducerFairness == \A s \in Sources :
    /\ WF_vars(Yield(s)) /\ WF_vars(Charge(s)) /\ WF_vars(Put(s))
    /\ WF_vars(SourceEnds(s)) /\ WF_vars(PutSentinel(s))
ConsumerFairness == \A l \in Lanes :
    WF_vars(GetEntry(l) \/ GetSentinel(l) \/ FlushDeadline(l) \/ Admit(l)
            \/ Backoff(l) \/ Commit(l))
SinkAnswers == \A l \in Lanes \ StuckLanes :
    WF_vars(PushOk(l) \/ PushPermanent(l) \/ PushRetryable(l))
SinkRecovers == \A l \in Lanes \ StuckLanes : SF_vars(~stop /\ PushOk(l))
ControlFairness == WF_vars(Start) /\ WF_vars(Wake) /\ WF_vars(Join) /\ WF_vars(Close)
                   /\ WF_vars(GraceExpired)

\* The sink answers every attempt, and may go on answering with errors.
FairSpec == Spec /\ ProducerFairness /\ ConsumerFairness /\ ControlFairness /\ SinkAnswers

\* The outage also ends.
RecoveringSpec == FairSpec /\ SinkRecovers

-----------------------------------------------------------------------------
(* Properties.                                                              *)

\* Every variable has its type.
TypeOK ==
    /\ main \in {"down"} \cup Running \cup Finished
    /\ verdict \in {"none"} \cup Finished
    /\ main = "closing" => verdict \in Finished
    /\ stop \in BOOLEAN /\ graceFired \in BOOLEAN
    /\ runs \in Nat
    /\ prod \in [Sources -> {"events", "charge", "put", "sentinel"} \cup ProducerEnded]
    /\ fate \in [Sources -> ProducerEnded]
    /\ nxt \in [Sources -> Nat \ {0}]
    /\ queue \in [Lanes -> Seq(Items)]
    /\ queuedBytes \in [Lanes -> Int]
    /\ cons \in [Lanes -> {"get", "admit", "push", "backoff", "commit"} \cup ConsumerEnded]
    /\ active \in [Lanes -> Int]
    /\ batch \in [Lanes -> Seq(Entries)]
    /\ approxBytes \in [Lanes -> Nat]
    /\ failing \subseteq Lanes
    /\ committed \in [Sources -> Nat]
    /\ delivered \subseteq Entries
    /\ dropped \subseteq Entries
    /\ abandoned \subseteq Entries

\* The entries the checkpoint has passed: they will never be read again.
Passed(s) == {Entry(s, p) : p \in {q \in 1..Len(Script[s]) :
                                    q <= committed[s] /\ Script[s][q].live}}

\* Commit after push, across lanes, retries, crashes and restarts: a
\* checkpoint never passes an entry that Loki has not accepted and that was
\* not dropped and counted, but for the entries that _flush abandoned when
\* stop interrupted their retries.
CheckpointCovered ==
    \A s \in Sources : Passed(s) \subseteq delivered \cup dropped \cup abandoned

\* The inductive invariant behind CheckpointCovered, in named parts.
\* An entry on its way to the queue is an entry of the script.
ProducedExists ==
    \A s \in Sources : prod[s] \in {"charge", "put"} => nxt[s] <= Len(Script[s])

\* An entry in memory belongs to its lane, is behind its producer and ahead
\* of its checkpoint.
InFlightBounds ==
    \A l \in Lanes :
        /\ \A i \in DOMAIN batch[l] :
              /\ LaneOf[batch[l][i].src] = l
              /\ batch[l][i].pos < nxt[batch[l][i].src]
              /\ batch[l][i].pos > committed[batch[l][i].src]
        /\ \A i \in DOMAIN queue[l] :
              /\ LaneOf[queue[l][i].src] = l
              /\ queue[l][i].pos < nxt[queue[l][i].src]
              /\ queue[l][i].pos # 0 => queue[l][i].pos > committed[queue[l][i].src]

\* Per source, a batch b and then a queue q are in the source's order.
InOrder(b, q) ==
    /\ \A i, j \in DOMAIN b :
          (i < j /\ b[i].src = b[j].src) => b[i].pos < b[j].pos
    /\ \A i \in DOMAIN b : \A j \in DOMAIN q :
          (b[i].src = q[j].src /\ q[j].pos # 0) => b[i].pos < q[j].pos
    /\ \A i, j \in DOMAIN q :
          (i < j /\ q[i].src = q[j].src /\ q[i].pos # 0 /\ q[j].pos # 0)
              => q[i].pos < q[j].pos

InFlightOrdered == \A l \in Lanes : InOrder(batch[l], queue[l])

\* No entry behind its producer is unaccounted for.
Accounted ==
    \A s \in Sources :
        /\ committed[s] < nxt[s]
        /\ \A p \in 1..Len(Script[s]) : (p < nxt[s] /\ Script[s][p].live) =>
              Entry(s, p) \in delivered \cup dropped \cup abandoned
                             \cup Elems(batch[LaneOf[s]]) \cup Elems(queue[LaneOf[s]])

\* A batch is committed only once the sink has settled all of it.
CommitSettled ==
    \A l \in Lanes : cons[l] = "commit" => Real(batch[l]) \subseteq delivered \cup dropped

\* Nothing produced is lost between its producer, its lane's queue, its batch
\* and the sink, and per source everything stays in order on the way.
IInv == TypeOK /\ ProducedExists /\ InFlightBounds /\ InFlightOrdered
        /\ Accounted /\ CommitSettled

\* The pipeline implements the delivery contract of AtLeastOnce.
Contract == INSTANCE AtLeastOnce
                WITH settled <- delivered \cup dropped, forfeit <- abandoned

\* Every run of the pipeline, with retries, shutdowns, crashes and restarts,
\* is a run of the contract: commit after push, and never backwards.
KeepsContract == Contract!Spec

\* What the comment in _flush says of an abandoned batch: it is retried in
\* full after the restart because its checkpoint never advanced; no passed
\* entry is without a delivery or a counted drop.
AbandonedIsRetried ==
    \A s \in Sources : Passed(s) \subseteq delivered \cup dropped

\* The byte account of a lane never exceeds its budget by more than the one
\* entry that _charge lets overshoot it, however many producers compete.
QueuedBytesBounded ==
    ByteBudget > 0 => \A l \in Lanes : queuedBytes[l] < ByteBudget + MaxCost

\* The bytes of a set of entries, each told apart by its entry and its place in it.
BytesOf(S) == UNION {{e} \X (1..EntryCost(e)) : e \in S}
CostOf(S)  == Cardinality(BytesOf(S))

\* The entries of a lane that producers were charged for and still have to put.
Unput(l) == {Entry(s, nxt[s]) : s \in {x \in SourcesOf(l) : prod[x] = "put"}}

\* The account of a lane is what its queue holds, plus what producers were
\* charged for and still have to put: nothing leaks while run() is waiting.
QueuedBytesExact ==
    (ByteBudget > 0 /\ main \in {"waiting", "joining"}) =>
        \A l \in Lanes : queuedBytes[l] = CostOf(Elems(queue[l])) + CostOf(Unput(l))

\* A clean return of run() leaves nothing behind in memory: the last entry
\* each source handed over is committed, or was abandoned by stop.
DrainedOnReturn ==
    main = "returned" => \A s \in Sources :
        \/ committed[s] = nxt[s] - 1
        \/ Entry(s, nxt[s] - 1) \in abandoned

\* While the sink's outages end, everything Salesforce holds is eventually
\* committed, in every lane whose sink does answer, unless stop comes first:
\* neither the byte budget nor another lane's stuck sink blocks it for ever.
LanesDeliver ==
    \A s \in Sources : LaneOf[s] \notin StuckLanes =>
        <>(committed[s] = Len(Script[s]) \/ stop)

\* After stop the pipeline winds down by itself although the sink may fail
\* every attempt, as long as it answers them.
StopEnds ==
    stop ~> (main \in Finished \/ \E l \in StuckLanes : cons[l] = "push")

=============================================================================
