------------------------------ MODULE StateFile ------------------------------
(***************************************************************************)
(* The state file of a single-instance deployment, shared by the daemon    *)
(* and the `sf2loki state` commands (src/sf2loki/state/file_store.py       *)
(* without fence and epoch, src/sf2loki/statecmd.py).  Each process keeps  *)
(* the whole document in a cache, so what protects the checkpoints of one  *)
(* from the writes of another is the flock alone.  The fenced and epoch    *)
(* paths of the store are in HighAvailability.                             *)
(***************************************************************************)
EXTENDS Integers

CONSTANTS
    Daemons,    \* instances started on the same state file
    Tools,      \* invocations of `state set` and `state delete`
    SfKeys,     \* checkpoint keys
    MaxWrites   \* bound: values ever written

Procs == Daemons \cup Tools
None == "nobody"

ASSUME StateFileAssumption ==
    None \notin Procs /\ Daemons \cap Tools = {} /\ MaxWrites \in Nat

VARIABLES
    file,       \* [SfKeys -> value, 0 if the key is absent]
    flock,      \* the process holding the lock, None if nobody
    proc,       \* [Procs -> "new", "loaded", "flushing" or "ended"]
    force,      \* [Procs -> the store was built with exclusive_lock=False]
    sfCache,      \* [Procs -> its copy of the document]
    touched,    \* [Procs -> the key its call is about]
    writes,     \* values handed out
    may,        \* [SfKeys -> what the file may hold: the last value acknowledged,
                \*          or one whose write failed after it]
    raced       \* a forced command ran beside another process

sfVars == <<file, flock, proc, force, sfCache, touched, writes, may, raced>>

NoCheckpoints == [k \in SfKeys |-> 0]

SfInit ==
    /\ file = NoCheckpoints /\ flock = None
    /\ proc = [p \in Procs |-> "new"]
    /\ force \in {f \in [Procs -> BOOLEAN] : \A d \in Daemons : ~f[d]}
    /\ sfCache = [p \in Procs |-> NoCheckpoints]
    /\ touched = [p \in Procs |-> None]
    /\ writes = 0 /\ may = [k \in SfKeys |-> {0}] /\ raced = FALSE

Busy(p) == proc[p] \in {"loaded", "flushing"}

\* The process goes to st; an ended one has closed its store, or left it to
\* the operating system, and the lock with it.
Moves(p, st) ==
    /\ proc' = [proc EXCEPT ![p] = st]
    /\ IF st = "ended" /\ flock = p THEN flock' = None ELSE UNCHANGED flock

\* Mutant: a lock that is held is no reason to stop.
LockRefusedNever(p) == FALSE
\* _acquire_instance_lock raises StateFileLockError.
LockRefused(p) == ~force[p] /\ flock \notin {None, p}

\* The first load, commit or delete: the lock, then the file into the cache.
SfLoad(p) ==
    /\ proc[p] = "new" /\ ~LockRefused(p)
    /\ flock' = IF force[p] THEN flock ELSE p
    /\ proc' = [proc EXCEPT ![p] = "loaded"]
    /\ sfCache' = [sfCache EXCEPT ![p] = file]
    /\ raced' = (raced \/ \E q \in Procs \ {p} : Busy(q) /\ (force[p] \/ force[q]))
    /\ UNCHANGED <<file, force, touched, writes, may>>

\* A daemon, or a command, is started again, with or without --force.
SfRun(p) ==
    /\ proc[p] = "ended"
    /\ proc' = [proc EXCEPT ![p] = "new"]
    /\ \E f \in IF p \in Tools THEN BOOLEAN ELSE {FALSE} : force' = [force EXCEPT ![p] = f]
    /\ UNCHANGED <<file, flock, sfCache, touched, writes, may, raced>>

\* A daemon that is refused exits, a command reports it and returns 1.
SfRefused(p) ==
    /\ proc[p] = "new" /\ LockRefused(p)
    /\ Moves(p, "ended")
    /\ UNCHANGED <<file, force, sfCache, touched, writes, may, raced>>

\* commit_many changes the cache, then flushes it.
SfCommit(p) ==
    /\ proc[p] = "loaded" /\ writes < MaxWrites
    /\ writes' = writes + 1
    /\ \E k \in SfKeys :
          /\ sfCache' = [sfCache EXCEPT ![p][k] = writes + 1]
          /\ touched' = [touched EXCEPT ![p] = k]
    /\ Moves(p, "flushing")
    /\ UNCHANGED <<file, force, may, raced>>

\* `state delete`: a key that is not there needs no flush.
SfDelete(p) ==
    /\ proc[p] = "loaded" /\ p \in Tools
    /\ \E k \in SfKeys :
       /\ touched' = [touched EXCEPT ![p] = k]
       /\ \/ sfCache[p][k] = 0 /\ Moves(p, "ended") /\ UNCHANGED sfCache
          \/ sfCache[p][k] # 0 /\ Moves(p, "flushing") /\ sfCache' = [sfCache EXCEPT ![p][k] = 0]
    /\ UNCHANGED <<file, force, writes, may, raced>>

\* What a daemon or a command does once its call has returned or raised.
AfterCall(p) == IF p \in Daemons THEN "loaded" ELSE "ended"

\* The temporary file has replaced the state file, and the call returns.
SfFlush(p) ==
    /\ proc[p] = "flushing"
    /\ file' = sfCache[p]
    /\ may' = [may EXCEPT ![touched[p]] = {sfCache[p][touched[p]]}]
    /\ Moves(p, AfterCall(p))
    /\ UNCHANGED <<force, sfCache, touched, writes, raced>>

\* Writing the temporary file fails, or syncing the directory after the
\* replacement does: the call raises, and the cache stays changed.
SfFlushFails(p) ==
    /\ proc[p] = "flushing"
    /\ file' \in {file, sfCache[p]}
    /\ may' = [may EXCEPT ![touched[p]] = @ \cup {sfCache[p][touched[p]]}]
    /\ Moves(p, AfterCall(p))
    /\ UNCHANGED <<force, sfCache, touched, writes, raced>>

\* The process dies, in the middle of a flush too.
SfKilled(p) ==
    /\ Busy(p)
    /\ IF proc[p] = "flushing"
       THEN /\ file' \in {file, sfCache[p]}
            /\ may' = [may EXCEPT ![touched[p]] = @ \cup {sfCache[p][touched[p]]}]
       ELSE UNCHANGED <<file, may>>
    /\ Moves(p, "ended")
    /\ UNCHANGED <<force, sfCache, touched, writes, raced>>

SfNext ==
    \E p \in Procs :
        \/ SfRun(p) \/ SfLoad(p) \/ SfRefused(p) \/ SfCommit(p)
        \/ SfDelete(p) \/ SfFlush(p) \/ SfFlushFails(p) \/ SfKilled(p)

SfSpec == SfInit /\ [][SfNext]_sfVars

-----------------------------------------------------------------------------

\* No acknowledged checkpoint is undone by another process's cached document,
\* unless an operator forced a command past the lock beside a running process:
\* the file holds, for every key, the last acknowledged write or delete, or one
\* that was attempted after it.
CheckpointsKept == ~raced => \A k \in SfKeys : file[k] \in may[k]
==============================================================================
