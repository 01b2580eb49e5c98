-------------------------- MODULE HighAvailability --------------------------
(***************************************************************************)
(* The active-passive pair: App.run (src/sf2loki/app.py) runs a pipeline   *)
(* for as long as its FileLeaseCoordinator leads, and the pipeline commits *)
(* checkpoints to the shared FileCheckpointStore                           *)
(* (src/sf2loki/state/file_store.py), fenced by is_leader and the epoch.   *)
(*                                                                         *)
(* Pipeline models one run() in detail; here an instance's pipeline is its *)
(* read position, and it pushes and commits one event at a time.  A commit *)
(* reads, checks and replaces the shared file in two steps: other hosts    *)
(* run in between.  The event loop of its own host does not, because the   *)
(* store and the coordinator do their file I/O without awaiting.           *)
(***************************************************************************)
EXTENDS FileLease

CONSTANTS
    MaxPos       \* bound: how many events Salesforce holds

ASSUME HighAvailabilityAssumption == MaxPos \in Nat

VARIABLES
    doc,         \* the shared state file: checkpoint position and epoch
    delivered,   \* the events Loki has accepted
    pipe,        \* [Instances -> where the acquisition's pipeline is]
    runStop,     \* [Instances -> the acquisition's run_stop event]
    cur,         \* [Instances -> position the pipeline has read to]
    cache        \* [Instances -> the store's cached position, NotLoaded if none]

pipeVars == <<pipe, runStop, cur, cache>>
haVars   == <<leaseVars, doc, delivered, pipeVars>>

NotLoaded == -1

HaInit ==
    /\ LeaseInit
    /\ doc = [pos |-> 0, epoch |-> 0]
    /\ delivered = {}
    /\ pipe = [i \in Instances |-> "off"]
    /\ runStop = [i \in Instances |-> FALSE]
    /\ cur = [i \in Instances |-> 0]
    /\ cache = [i \in Instances |-> NotLoaded]

-----------------------------------------------------------------------------

\* No file I/O of the coordinator is under way on this host.
LoopFree(i) == pc[i] \notin {"contest", "renew", "acquired"}

\* on_acquire: a fresh run_stop, and the pipeline task is created.
OnAcquire(i) ==
    /\ BeginHold(i)
    /\ pipe' = [pipe EXCEPT ![i] = "load"]
    /\ runStop' = [runStop EXCEPT ![i] = FALSE]
    /\ UNCHANGED <<doc, delivered, cur, cache>>

\* The source loads its checkpoint, from the cache if the store has one.
Load(i) ==
    /\ LoopFree(i) /\ pipe[i] = "load"
    /\ cache' = [cache EXCEPT ![i] = IF @ = NotLoaded THEN doc.pos ELSE @]
    /\ cur' = [cur EXCEPT ![i] = cache'[i]]
    /\ pipe' = [pipe EXCEPT ![i] = "run"]
    /\ UNCHANGED <<leaseVars, doc, delivered, runStop>>

\* A batch is read and pushed; it is committed next.  A pipeline that drains
\* after run_stop goes on pushing.
Push(i) ==
    /\ LoopFree(i) /\ pipe[i] = "run" /\ cur[i] < MaxPos
    /\ cur' = [cur EXCEPT ![i] = @ + 1]
    /\ delivered' = delivered \cup {cur[i] + 1}
    /\ pipe' = [pipe EXCEPT ![i] = "commit"]
    /\ UNCHANGED <<leaseVars, doc, runStop, cache>>

\* commit_many raises StateFenceError: check_fence, then the epoch on file.
Fenced(i) == ~leader[i] \/ doc.epoch > epoch[i]

CommitCheck(i) ==
    /\ LoopFree(i) /\ pipe[i] = "commit"
    /\ pipe' = [pipe EXCEPT ![i] = IF Fenced(i) THEN "fenced" ELSE "write"]
    /\ UNCHANGED <<leaseVars, doc, delivered, runStop, cur, cache>>

\* Mutant: the position the source would read next is stored.
CommitWriteAhead(i) ==
    /\ pipe[i] = "write"
    /\ doc' = [pos |-> cur[i] + 1, epoch |-> epoch[i]]
    /\ cache' = [cache EXCEPT ![i] = cur[i]]
    /\ pipe' = [pipe EXCEPT ![i] = "run"]
    /\ UNCHANGED <<leaseVars, delivered, runStop, cur>>

\* _flush: the document read by the check, merged, replaces the file.
CommitWrite(i) ==
    /\ pipe[i] = "write"
    /\ doc' = [pos |-> cur[i], epoch |-> epoch[i]]
    /\ cache' = [cache EXCEPT ![i] = cur[i]]
    /\ pipe' = [pipe EXCEPT ![i] = "run"]
    /\ UNCHANGED <<leaseVars, delivered, runStop, cur>>

\* _flush fails, before the rename or in the directory fsync after it; the
\* cache is ahead of the file then, and the pipeline task ends with the error.
CommitWriteFails(i) ==
    /\ pipe[i] = "write"
    /\ IOError("write_error")
    /\ doc' \in {doc, [pos |-> cur[i], epoch |-> epoch[i]]}
    /\ cache' = [cache EXCEPT ![i] = cur[i]]
    /\ pipe' = [pipe EXCEPT ![i] = "failed"]
    /\ UNCHANGED <<lease, coordVars, crashes, delivered, runStop, cur>>

\* _on_pipeline_done.  A StateFenceError was absorbed by _run_pipeline, which
\* then completed cleanly: the process stops unless it was asked to.
OnPipelineDone(i) ==
    /\ LoopFree(i) /\ pipe[i] \in {"fenced", "failed"}
    /\ pipe' = [pipe EXCEPT ![i] = "off"]
    /\ cur' = [cur EXCEPT ![i] = 0]
    /\ stopping' = [stopping EXCEPT ![i] = @ \/ pipe[i] = "failed" \/ ~runStop[i]]
    /\ UNCHANGED <<lease, pc, timer, age, seen, leader, epoch, sinceOk, ioErrors, crashes,
                   doc, delivered, runStop, cache>>

\* The pipeline drained after run_stop, or the grace period cancelled it.
PipelineStops(i) ==
    /\ LoopFree(i) /\ runStop[i]
    /\ pipe[i] \in {"load", "run", "commit"}
    /\ pipe' = [pipe EXCEPT ![i] = "off"]
    /\ cur' = [cur EXCEPT ![i] = 0]
    /\ UNCHANGED <<leaseVars, doc, delivered, runStop, cache>>

\* on_lose, first half: _stop_acquisition sets run_stop and awaits the task.
StopAcquisition(i) ==
    /\ pc[i] = "losing" /\ pipe[i] # "write" /\ ~runStop[i]
    /\ runStop' = [runStop EXCEPT ![i] = TRUE]
    /\ UNCHANGED <<leaseVars, doc, delivered, pipe, cur, cache>>

\* Mutant: the cache survives the loss of leadership.
OnLoseKeepsCache(i) ==
    /\ pc[i] = "losing" /\ runStop[i] /\ pipe[i] = "off"
    /\ BackToStandby(i)
    /\ runStop' = [runStop EXCEPT ![i] = FALSE]
    /\ UNCHANGED <<doc, delivered, pipe, cur, cache>>

\* on_lose, second half: reset_state, and back to the coordinator.
OnLose(i) ==
    /\ pc[i] = "losing" /\ runStop[i] /\ pipe[i] = "off"
    /\ BackToStandby(i)
    /\ cache' = [cache EXCEPT ![i] = NotLoaded]
    /\ runStop' = [runStop EXCEPT ![i] = FALSE]
    /\ UNCHANGED <<doc, delivered, pipe, cur>>

HaCrash(i) ==
    /\ Crash(i)
    /\ pipe' = [pipe EXCEPT ![i] = "off"]
    /\ runStop' = [runStop EXCEPT ![i] = FALSE]
    /\ cur' = [cur EXCEPT ![i] = 0]
    /\ cache' = [cache EXCEPT ![i] = NotLoaded]
    /\ UNCHANGED <<doc, delivered>>

\* What the coordinator does on its own, while the store is not writing.
Coordinate(i) ==
    /\ CoordStep(i) /\ pipe[i] # "write"
    /\ UNCHANGED <<doc, delivered, pipeVars>>

\* What happens to the hosts and the lease, and the passing of time.
Clock == Tick /\ (Prompt => \A i \in Instances : pipe[i] # "write")
              /\ UNCHANGED <<doc, delivered, pipeVars>>
Environment ==
    \/ /\ (\E i \in Instances : Signal(i) \/ Boot(i)) \/ LeaseLost
       /\ UNCHANGED <<doc, delivered, pipeVars>>
    \/ Clock

-----------------------------------------------------------------------------

Step(i) ==
    \/ Coordinate(i) \/ OnAcquire(i) \/ StopAcquisition(i) \/ OnLose(i)
    \/ Load(i) \/ Push(i) \/ CommitCheck(i) \/ CommitWrite(i) \/ CommitWriteFails(i)
    \/ OnPipelineDone(i) \/ PipelineStops(i)

HaNext == (\E i \in Instances : Step(i) \/ HaCrash(i)) \/ Environment

HaSpec == HaInit /\ [][HaNext]_haVars

\* The event loop of a host serves its ready tasks in turn: pipeline and
\* coordinator both run, however often the other one is in its file I/O.
HaFairness ==
    /\ WF_haVars(Clock)
    /\ \A i \in Instances :
        /\ SF_haVars(Coordinate(i) \/ OnAcquire(i) \/ StopAcquisition(i) \/ OnLose(i))
        /\ SF_haVars(Load(i) \/ Push(i) \/ CommitCheck(i) \/ CommitWrite(i)
                     \/ OnPipelineDone(i) \/ PipelineStops(i))

HaFairSpec == HaSpec /\ HaFairness

-----------------------------------------------------------------------------

\* Every variable has its type.
HaTypeOK ==
    /\ doc \in [pos : 0..MaxPos, epoch : Nat]
    /\ delivered \subseteq 1..MaxPos
    /\ pipe \in [Instances -> {"off", "load", "run", "commit", "write", "fenced", "failed"}]
    /\ runStop \in [Instances -> BOOLEAN]
    /\ cur \in [Instances -> 0..MaxPos]
    /\ cache \in [Instances -> NotLoaded..MaxPos]

\* The checkpoint never passes an event that Loki has not accepted, whichever
\* instances wrote it, however they stalled, crashed or lost the lease.
NoLoss == 1..doc.pos \subseteq delivered

\* What makes NoLoss inductive: neither does any instance's read position, or
\* its cached checkpoint.
ReadDelivered   == \A i \in Instances : 1..cur[i] \subseteq delivered
CachedDelivered == \A i \in Instances : 1..cache[i] \subseteq delivered
HaInv == HaTypeOK /\ NoLoss /\ ReadDelivered /\ CachedDelivered

\* on_lose: an instance that acquires again starts from the shared checkpoint,
\* never from what it remembers of an earlier acquisition.
StartsFresh ==
    [][\A i \in Instances : (pipe[i] = "load" /\ pipe'[i] = "run") => cur'[i] = doc.pos]_haVars

\* Fencing: a stale leader never advances the checkpoint, so no instance
\* commits while another one leads with a newer epoch.
StaleNeverCommits ==
    [][\A i, j \in Instances :
          (pipe[i] = "write" /\ pipe'[i] \in {"run", "failed"} /\ doc' # doc /\ leader[j])
              => epoch[j] <= epoch[i]]_haVars

\* Leadership changes hold up no event: unless in the end no instance is up,
\* every event is delivered and committed.
TakeoverDelivers ==
    ([]<>(\E i \in Instances : pc[i] \notin {"down", "exited"})) => <>(doc.pos = MaxPos)
=============================================================================
