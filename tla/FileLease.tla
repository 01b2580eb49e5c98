------------------------------ MODULE FileLease ------------------------------
(***************************************************************************)
(* Leader election over a lease file on shared storage                     *)
(* (src/sf2loki/coordinate/file_lease.py, FileLeaseCoordinator).           *)
(*                                                                         *)
(* Several instances run the coordinator against one lease file.  A read   *)
(* and the write that follows it are two steps, because the instances are  *)
(* processes on different hosts; between them an instance may stall.       *)
(*                                                                         *)
(* Time is kept as countdowns: the lease holds the time it has left, every *)
(* instance the time its pause still takes and the age of the clock value  *)
(* it captured.  Prompt = TRUE assumes instances that never stall: time    *)
(* does not pass while one of them has a step to take.                     *)
(***************************************************************************)
EXTENDS Integers, FiniteSets

CONSTANTS
    Instances,   \* the replicas, each with its own holder identity
    TTL,         \* lease lifetime
    Renew,       \* renew_interval
    Verify,      \* the pause before the verification re-read
    Prompt,      \* instances never stall
    LeaseFaults, \* which of the faults below may happen
    MaxIOErrors, \* bound on failed reads and writes of the lease
    MaxCrashes,  \* bound on instance crashes
    MaxEpoch     \* bound on the fence epoch

LeaseFaultKinds == {"read_error", "write_error", "lease_lost", "crash", "signal"}

ASSUME FileLeaseAssumption ==
    /\ TTL \in Nat \ {0} /\ Renew \in Nat \ {0} /\ Verify \in Nat \ {0}
    /\ 2 * Renew < TTL          \* FileLeaseConfig._renew_must_beat_ttl
    /\ Verify <= Renew
    /\ Prompt \in BOOLEAN
    /\ LeaseFaults \subseteq LeaseFaultKinds
    /\ MaxIOErrors \in Nat /\ MaxCrashes \in Nat /\ MaxEpoch \in Nat

VARIABLES
    lease,    \* the lease file: NoLease, or holder, time left and epoch
    pc,       \* [Instances -> where the coordinator is]
    timer,    \* [Instances -> time its pause still takes]
    age,      \* [Instances -> age of the clock value it captured]
    seen,     \* [Instances -> epoch of the lease it is about to supersede]
    leader,   \* [Instances -> is_leader]
    epoch,    \* [Instances -> epoch of the lease it holds or held]
    sinceOk,  \* [Instances -> now - last_ok, now being the clock value it captured]
    stopping, \* [Instances -> its process-wide stop event]
    ioErrors, \* failed reads and writes so far
    crashes   \* crashes so far

coordVars == <<pc, timer, age, seen, leader, epoch, sinceOk, stopping>>
leaseVars == <<lease, coordVars, ioErrors, crashes>>

\* Absent or corrupt: no claim to honour.
NoLease == [holder |-> "none", left |-> 0, epoch |-> 0]

-----------------------------------------------------------------------------

LeaseInit ==
    /\ lease = NoLease
    /\ pc = [i \in Instances |-> "down"]
    /\ timer = [i \in Instances |-> 0]
    /\ age = [i \in Instances |-> 0]
    /\ seen = [i \in Instances |-> 0]
    /\ leader = [i \in Instances |-> FALSE]
    /\ epoch = [i \in Instances |-> 0]
    /\ sinceOk = [i \in Instances |-> 0]
    /\ stopping = [i \in Instances |-> FALSE]
    /\ ioErrors = 0 /\ crashes = 0

Pause(i, where, t) ==
    /\ pc' = [pc EXCEPT ![i] = where]
    /\ timer' = [timer EXCEPT ![i] = t]

\* _pause has slept its time, and stop did not fire.
Rested(i, where) == pc[i] = where /\ timer[i] = 0 /\ ~stopping[i]

\* Beyond the ttl, how long ago something was makes no difference.
Capped(n) == IF n > TTL THEN TTL ELSE n

IOError(kind) ==
    /\ kind \in LeaseFaults
    /\ ioErrors < MaxIOErrors
    /\ ioErrors' = ioErrors + 1

\* _write(now, epoch): now was captured age[i] ago.
WriteLease(i, e) ==
    lease' = [holder |-> i,
              left |-> TTL - age[i],
              epoch |-> e]

\* A failed _write leaves the lease as it was, or fails in the directory fsync
\* after the rename has replaced it.
WriteLeaseFails(i, e) ==
    /\ IOError("write_error")
    /\ lease' = lease \/ WriteLease(i, e)

(* _acquire *)

\* Mutants: an unexpired lease is contested too; an expired one never is.
ContestableAlways == TRUE
ContestableIfAbsent == lease = NoLease
\* The lease is absent or expired.
Contestable == lease = NoLease \/ lease.left = 0

\* Read the lease: contest an absent or expired one, poll a live one.
AcquireRead(i) ==
    /\ Rested(i, "standby")
    /\ \/ /\ Contestable
          /\ lease.epoch < MaxEpoch
          /\ pc' = [pc EXCEPT ![i] = "contest"]
          /\ seen' = [seen EXCEPT ![i] = lease.epoch]
          /\ age' = [age EXCEPT ![i] = 0]
          /\ UNCHANGED timer
       \/ /\ ~Contestable
          /\ Pause(i, "standby", Renew)
          /\ UNCHANGED <<seen, age>>
    /\ UNCHANGED <<lease, leader, epoch, sinceOk, stopping, ioErrors, crashes>>

\* A read error is not an absent lease: back off without contesting.
AcquireReadFails(i) ==
    /\ Rested(i, "standby")
    /\ IOError("read_error")
    /\ Pause(i, "standby", Renew)
    /\ UNCHANGED <<lease, age, seen, leader, epoch, sinceOk, stopping, crashes>>

\* Write our claim with the next epoch, then pause before verifying it.
ContestWrite(i) ==
    /\ pc[i] = "contest"
    /\ WriteLease(i, seen[i] + 1)
    /\ Pause(i, "verify", Verify)
    /\ age' = [age EXCEPT ![i] = 0]
    /\ seen' = [seen EXCEPT ![i] = 0]
    /\ UNCHANGED <<leader, epoch, sinceOk, stopping, ioErrors, crashes>>

ContestWriteFails(i) ==
    /\ pc[i] = "contest"
    /\ WriteLeaseFails(i, seen[i] + 1)
    /\ Pause(i, "standby", Renew)
    /\ age' = [age EXCEPT ![i] = 0]
    /\ seen' = [seen EXCEPT ![i] = 0]
    /\ UNCHANGED <<leader, epoch, sinceOk, stopping, crashes>>

\* Mutant: whoever wrote has won.
WonUnverified(i) == TRUE
\* The re-read shows our own, unexpired claim.
Won(i) == lease.holder = i /\ lease.left > 0

VerifyRead(i) ==
    /\ Rested(i, "verify")
    /\ \/ /\ Won(i)
          /\ epoch' = [epoch EXCEPT ![i] = lease.epoch]
          /\ leader' = [leader EXCEPT ![i] = TRUE]
          /\ pc' = [pc EXCEPT ![i] = "acquired"]
          /\ UNCHANGED timer
       \/ /\ ~Won(i)
          /\ Pause(i, "standby", Verify)
          /\ UNCHANGED <<epoch, leader>>
    /\ UNCHANGED <<lease, age, seen, sinceOk, stopping, ioErrors, crashes>>

\* An unreadable lease does not confirm the claim.
VerifyReadFails(i) ==
    /\ Rested(i, "verify")
    /\ IOError("read_error")
    /\ Pause(i, "standby", Verify)
    /\ UNCHANGED <<lease, age, seen, leader, epoch, sinceOk, stopping, crashes>>

\* on_acquire returned: start holding.
BeginHold(i) ==
    /\ pc[i] = "acquired"
    /\ Pause(i, "hold", Renew)
    /\ sinceOk' = [sinceOk EXCEPT ![i] = 0]
    /\ UNCHANGED <<lease, age, seen, leader, epoch, stopping, ioErrors, crashes>>

(* _hold *)

\* Leave _hold: is_leader is cleared, then on_lose is awaited.
Surrender(i) ==
    /\ pc' = [pc EXCEPT ![i] = "losing"]
    /\ leader' = [leader EXCEPT ![i] = FALSE]

\* Somebody else has a claim on file.
Foreign(i) == lease # NoLease /\ lease.holder # i

\* Capture the clock, re-read the lease, and surrender to a foreign holder.
HoldRead(i) ==
    /\ Rested(i, "hold")
    /\ age' = [age EXCEPT ![i] = 0]
    /\ \/ /\ Foreign(i)
          /\ Surrender(i)
          /\ UNCHANGED timer
       \/ /\ lease = NoLease
          /\ Pause(i, "holdverify", Verify)
          /\ UNCHANGED leader
       \/ /\ lease # NoLease /\ ~Foreign(i)
          /\ pc' = [pc EXCEPT ![i] = "renew"]
          /\ UNCHANGED <<timer, leader>>
    /\ UNCHANGED <<lease, seen, epoch, sinceOk, stopping, ioErrors, crashes>>

\* An unreadable lease counts as contested.
HoldReadFails(i) ==
    /\ Rested(i, "hold")
    /\ IOError("read_error")
    /\ age' = [age EXCEPT ![i] = 0]
    /\ Pause(i, "holdverify", Verify)
    /\ UNCHANGED <<lease, seen, leader, epoch, sinceOk, stopping, crashes>>

\* The verification read of a contested lease, with a fresh clock value.
HoldVerify(i) ==
    /\ Rested(i, "holdverify")
    /\ \/ /\ Foreign(i)
          /\ Surrender(i)
          /\ UNCHANGED age
       \/ /\ ~Foreign(i)
          /\ pc' = [pc EXCEPT ![i] = "renew"]
          /\ age' = [age EXCEPT ![i] = 0]
          /\ UNCHANGED leader
    /\ UNCHANGED <<lease, timer, seen, epoch, sinceOk, stopping, ioErrors, crashes>>

\* A verification read that fails too leaves the lease ours to write.
HoldVerifyFails(i) ==
    /\ Rested(i, "holdverify")
    /\ IOError("read_error")
    /\ pc' = [pc EXCEPT ![i] = "renew"]
    /\ age' = [age EXCEPT ![i] = 0]
    /\ UNCHANGED <<lease, timer, seen, leader, epoch, sinceOk, stopping, crashes>>

\* The renewal keeps the epoch.
RenewWrite(i) ==
    /\ pc[i] = "renew"
    /\ WriteLease(i, epoch[i])
    /\ sinceOk' = [sinceOk EXCEPT ![i] = age[i]]
    /\ age' = [age EXCEPT ![i] = 0]
    /\ Pause(i, "hold", Renew)
    /\ UNCHANGED <<seen, leader, epoch, stopping, ioErrors, crashes>>

\* Mutant: one failed renewal is enough to surrender.
RenewalOverdueAtOnce(i) == TRUE
\* (now - last_ok) >= ttl.
RenewalOverdue(i) == sinceOk[i] >= TTL

\* A renewal that fails is retried until the ttl has passed.
RenewWriteFails(i) ==
    /\ pc[i] = "renew"
    /\ WriteLeaseFails(i, epoch[i])
    /\ \/ /\ RenewalOverdue(i)
          /\ Surrender(i)
          /\ UNCHANGED <<timer, sinceOk>>
       \/ /\ ~RenewalOverdue(i)
          /\ Pause(i, "hold", Renew)
          /\ sinceOk' = [sinceOk EXCEPT ![i] = Capped(@ + age[i])]
          /\ UNCHANGED leader
    /\ age' = [age EXCEPT ![i] = 0]
    /\ UNCHANGED <<seen, epoch, stopping, crashes>>

\* on_lose returned: stand by again, unless the process is stopping.
BackToStandby(i) ==
    /\ pc[i] = "losing"
    /\ pc' = [pc EXCEPT ![i] = IF stopping[i] THEN "exited" ELSE "standby"]
    /\ timer' = [timer EXCEPT ![i] = 0]
    /\ UNCHANGED <<lease, age, seen, leader, epoch, sinceOk, stopping, ioErrors, crashes>>

\* stop ends every pause: a standby leaves, a leader surrenders.
StopSeen(i) ==
    /\ stopping[i]
    /\ \/ /\ pc[i] \in {"standby", "verify"}
          /\ pc' = [pc EXCEPT ![i] = "exited"]
          /\ UNCHANGED leader
       \/ /\ pc[i] \in {"hold", "holdverify"}
          /\ Surrender(i)
    /\ UNCHANGED <<lease, timer, age, seen, epoch, sinceOk, stopping, ioErrors, crashes>>

(* The environment *)

\* SIGTERM sets the stop event.
Signal(i) ==
    /\ "signal" \in LeaseFaults
    /\ ~stopping[i] /\ pc[i] # "down"
    /\ stopping' = [stopping EXCEPT ![i] = TRUE]
    /\ UNCHANGED <<lease, pc, timer, age, seen, leader, epoch, sinceOk, ioErrors, crashes>>

\* The process dies without releasing anything.
Crash(i) ==
    /\ "crash" \in LeaseFaults
    /\ crashes < MaxCrashes
    /\ pc[i] \notin {"down", "exited"}
    /\ crashes' = crashes + 1
    /\ pc' = [pc EXCEPT ![i] = "down"]
    /\ leader' = [leader EXCEPT ![i] = FALSE]
    /\ UNCHANGED <<lease, timer, age, seen, epoch, sinceOk, stopping, ioErrors>>

\* The process is started, or started again as the same holder.
Boot(i) ==
    /\ pc[i] = "down"
    /\ pc' = [pc EXCEPT ![i] = "standby"]
    /\ timer' = [timer EXCEPT ![i] = 0]
    /\ epoch' = [epoch EXCEPT ![i] = 0]
    /\ stopping' = [stopping EXCEPT ![i] = FALSE]
    /\ UNCHANGED <<lease, age, seen, leader, sinceOk, ioErrors, crashes>>

\* The lease file is deleted, or its content is corrupted.
LeaseLost ==
    /\ "lease_lost" \in LeaseFaults
    /\ lease # NoLease
    /\ ioErrors < MaxIOErrors
    /\ ioErrors' = ioErrors + 1
    /\ lease' = NoLease
    /\ UNCHANGED <<coordVars, crashes>>

\* Every instance that is up is in a pause that has not ended.
Pausing(i) ==
    \/ pc[i] \in {"down", "exited"}
    \/ pc[i] \in {"standby", "verify", "hold", "holdverify"} /\ timer[i] > 0 /\ ~stopping[i]

Down(n) == IF n = 0 THEN 0 ELSE n - 1

Tick ==
    /\ Prompt => \A i \in Instances : Pausing(i)
    /\ lease' = [lease EXCEPT !.left = Down(@)]
    /\ timer' = [i \in Instances |-> Down(timer[i])]
    /\ age' = [i \in Instances |-> IF pc[i] \in {"contest", "renew"} THEN Capped(age[i] + 1) ELSE 0]
    /\ sinceOk' = [i \in Instances |->
                     CASE pc[i] \in {"hold", "holdverify"} -> Capped(sinceOk[i] + 1)
                       [] pc[i] = "renew" -> sinceOk[i]
                       [] OTHER -> 0]
    /\ UNCHANGED <<pc, seen, leader, epoch, stopping, ioErrors, crashes>>

-----------------------------------------------------------------------------

\* The steps of the coordinator that involve no callback into the app.
CoordStep(i) ==
    \/ AcquireRead(i) \/ AcquireReadFails(i) \/ ContestWrite(i) \/ ContestWriteFails(i)
    \/ VerifyRead(i) \/ VerifyReadFails(i)
    \/ HoldRead(i) \/ HoldReadFails(i) \/ HoldVerify(i) \/ HoldVerifyFails(i)
    \/ RenewWrite(i) \/ RenewWriteFails(i) \/ StopSeen(i)

LeaseNext ==
    \/ \E i \in Instances : CoordStep(i) \/ BeginHold(i) \/ BackToStandby(i)
                            \/ Signal(i) \/ Crash(i) \/ Boot(i)
    \/ LeaseLost
    \/ Tick

LeaseSpec == LeaseInit /\ [][LeaseNext]_leaseVars

\* The event loop runs a coordinator whose pause is over, and time passes.
LeaseFairness ==
    /\ WF_leaseVars(Tick)
    /\ \A i \in Instances : WF_leaseVars(CoordStep(i) \/ BeginHold(i) \/ BackToStandby(i))

LeaseFairSpec == LeaseSpec /\ LeaseFairness

-----------------------------------------------------------------------------

\* Every variable has its type.
LeaseTypeOK ==
    /\ lease \in [holder : Instances \cup {"none"}, left : 0..TTL, epoch : Nat]
    /\ pc \in [Instances -> {"standby", "contest", "verify", "acquired", "hold", "holdverify",
                             "renew", "losing", "exited", "down"}]
    /\ timer \in [Instances -> 0..Renew]
    /\ age \in [Instances -> 0..TTL]
    /\ seen \in [Instances -> Nat]
    /\ leader \in [Instances -> BOOLEAN]
    /\ epoch \in [Instances -> Nat]
    /\ sinceOk \in [Instances -> 0..TTL]
    /\ stopping \in [Instances -> BOOLEAN]
    /\ ioErrors \in Nat /\ crashes \in Nat

\* Two instances never lead at the same time: the promise of the lease, and of
\* the verification re-read when standbys race for an expired one.
AtMostOneLeader ==
    \A i, j \in Instances : leader[i] /\ leader[j] => i = j

\* FileLeaseConfig: with renew_interval below half the ttl, a single missed
\* renewal (one failed read or write) does not cost a leader its leadership.
SingleMissKeepsLeader ==
    [][\A i \in Instances : (leader[i] /\ ~stopping[i] /\ crashes' = crashes) => leader'[i]]_leaseVars
=============================================================================
