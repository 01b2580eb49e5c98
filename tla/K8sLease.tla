------------------------------ MODULE K8sLease ------------------------------
(***************************************************************************)
(* Leader election over a Kubernetes Lease                                 *)
(* (src/sf2loki/coordinate/k8s_lease.py, K8sLeaseCoordinator).             *)
(*                                                                         *)
(* The API server serialises the requests; a read and the write that       *)
(* follows it are two steps, and a write may be applied although its       *)
(* answer is lost.  Every write changes the Lease's resourceVersion: all   *)
(* that matters of a version a replica remembers is whether it is still    *)
(* the Lease's (known, watched).                                           *)
(*                                                                         *)
(* kEnv, fixed at the start, is what the replicas must cope with:          *)
(*   prompt   failed requests, lost answers, crashes and signals, while    *)
(*            no replica stalls (time passes only when all of them wait);  *)
(*   edited   and somebody deletes or empties the Lease by hand;           *)
(*   stall    instead of crashing, a replica may stall between any two of  *)
(*            its steps.                                                   *)
(***************************************************************************)
EXTENDS Integers, FiniteSets

CONSTANTS
    Replicas,    \* the replicas, each with its own holderIdentity
    Duration,    \* lease_duration, in ticks
    RenewEvery,  \* renew_interval
    Second,      \* ticks in a second
    MaxOutages,  \* bound on spells in which a replica's requests may fail
    MaxKCrashes, \* bound on crashes
    MaxKEdits    \* bound on edits of the Lease by hand

Absent == "absent"       \* no Lease object
Unheld == "unheld"       \* a Lease without holder, renewTime or duration

ASSUME K8sLeaseAssumption ==
    /\ Duration \in Nat /\ RenewEvery \in Nat \ {0} /\ Second \in Nat \ {0}
    /\ 2 * RenewEvery < Duration    \* K8sLeaseConfig._renew_must_beat_duration
    /\ {Absent, Unheld} \cap Replicas = {}
    /\ MaxOutages \in Nat /\ MaxKCrashes \in Nat /\ MaxKEdits \in Nat

VARIABLES
    kEnv,     \* the environment, see above
    holder,   \* the Lease: its holder, Unheld or Absent
    idle,     \* time since the Lease was last written
    kpc,      \* [Replicas -> where its coordinator is]
    rest,     \* [Replicas -> time its pause still takes]
    known,    \* [Replicas -> the version it would replace is the Lease's]
    watched,  \* [Replicas -> _observed_version is the Lease's]
    stale,    \* [Replicas -> time since _observed_at]
    since,    \* [Replicas -> now - last_ok]
    lag,      \* [Replicas -> age of the now it captured before its re-read]
    leads,    \* [Replicas -> is_leader]
    stopped,  \* [Replicas -> its stop event]
    cut,      \* the replicas whose requests may fail now
    outages, kCrashes, kEdits

apiVars == <<holder, idle, known, watched>>
faultVars == <<cut, outages, kCrashes, kEdits>>
kVars == <<kEnv, apiVars, kpc, rest, stale, since, lag, leads, stopped, faultVars>>

\* Beyond the duration, how long ago something was makes no difference.
Cap(n) == IF n > Duration THEN Duration ELSE n

KInit ==
    /\ kEnv \in {"prompt", "edited", "stall"}
    /\ holder \in {Absent, Unheld} /\ idle = 0
    /\ kpc = [r \in Replicas |-> "read"]
    /\ rest = [r \in Replicas |-> 0]
    /\ known = [r \in Replicas |-> FALSE] /\ watched = [r \in Replicas |-> FALSE]
    /\ stale = [r \in Replicas |-> 0]
    /\ since = [r \in Replicas |-> 0] /\ lag = [r \in Replicas |-> 0]
    /\ leads = [r \in Replicas |-> FALSE] /\ stopped = [r \in Replicas |-> FALSE]
    /\ cut = {} /\ outages = 0 /\ kCrashes = 0 /\ kEdits = 0

(* The API server *)

\* A write whose answer w has: only w knows the Lease's new version.
Written(w, h) ==
    /\ holder' = h /\ idle' = 0
    /\ known' = [r \in Replicas |-> r = w]
    /\ watched' = [r \in Replicas |-> FALSE]

\* lease_duration_seconds is a whole number: int(body.duration).
LeaseSeconds == (Duration \div Second) * Second

\* A request fails otherwise than by 404 or 409.
RequestFails(r) == r \in cut /\ UNCHANGED faultVars

At(r, where) == kpc[r] = where /\ rest[r] = 0

Goes(r, where, pause) ==
    /\ kpc' = [kpc EXCEPT ![r] = where]
    /\ rest' = [rest EXCEPT ![r] = pause]
    /\ UNCHANGED <<kEnv, stopped>>

(* _acquire *)

\* Mutants: the age of an earlier version counts for the new one; the version is
\* never seen to change.
ObserveAge(r) == stale[r]
ObserveForever(r) == 0
\* _observe: a version not seen before starts its own window.
Observe(r) == IF watched[r] THEN stale[r] ELSE 0

\* is_stale
IsStale(r) == holder = Unheld \/ Observe(r) >= LeaseSeconds

\* The Lease is read; one that is live is polled at the renew interval.
KRead(r) ==
    /\ At(r, "read") /\ ~stopped[r]
    /\ \/ /\ holder = Absent
          /\ Goes(r, "create", 0)
          /\ UNCHANGED <<known, watched, stale>>
       \/ /\ holder # Absent
          /\ stale' = [stale EXCEPT ![r] = Observe(r)]
          /\ watched' = [watched EXCEPT ![r] = TRUE]
          /\ known' = [known EXCEPT ![r] = TRUE]
          /\ IF IsStale(r) THEN Goes(r, "claim", 0) ELSE Goes(r, "read", RenewEvery)
    /\ UNCHANGED <<holder, idle, since, lag, leads, faultVars>>

\* _read: a Lease that cannot be read is treated as absent.
KReadFails(r) ==
    /\ At(r, "read") /\ ~stopped[r]
    /\ RequestFails(r)
    /\ Goes(r, "create", 0)
    /\ UNCHANGED <<apiVars, stale, since, lag, leads>>

Acquired(r) ==
    /\ Goes(r, "acquired", 0)
    /\ leads' = [leads EXCEPT ![r] = TRUE]

\* replace: the Lease still has the version that was read (else 409, or 404).
ClaimAccepted(r) == holder # Absent /\ known[r]

\* create_lease, or replace_lease of a stale Lease.
Writable(r) == \/ kpc[r] = "create" /\ holder = Absent
               \/ kpc[r] = "claim" /\ ClaimAccepted(r)

KClaim(r) ==
    /\ At(r, "create") \/ At(r, "claim")
    /\ \/ Writable(r) /\ Written(r, r) /\ Acquired(r)
       \/ ~Writable(r) /\ Goes(r, "read", RenewEvery) /\ UNCHANGED <<apiVars, leads>>
    /\ UNCHANGED <<stale, since, lag, faultVars>>

\* The request fails, or its answer is lost after it was applied.
KClaimFails(r) ==
    /\ At(r, "create") \/ At(r, "claim")
    /\ RequestFails(r)
    /\ UNCHANGED apiVars \/ (Writable(r) /\ Written(Absent, r))
    /\ Goes(r, "read", RenewEvery)
    /\ UNCHANGED <<stale, since, lag, leads>>

\* on_acquire has started the pipeline: _hold begins.
KHold(r) ==
    /\ At(r, "acquired")
    /\ Goes(r, "hold", RenewEvery)
    /\ since' = [since EXCEPT ![r] = 0]
    /\ UNCHANGED <<apiVars, stale, lag, leads, faultVars>>

(* _hold *)

\* The loop of _hold returns: no longer the leader, on_lose is awaited.
Surrender(r) ==
    /\ Goes(r, "lost", 0)
    /\ leads' = [leads EXCEPT ![r] = FALSE]

\* The re-read finds another holder.
Foreign(r) == holder \notin {Absent, r}

\* Re-read before renewing; the clock was read first.
KReread(r) ==
    /\ At(r, "hold") /\ ~stopped[r]
    /\ lag' = [lag EXCEPT ![r] = 0]
    /\ \/ Foreign(r) /\ Surrender(r) /\ UNCHANGED known
       \/ /\ ~Foreign(r) /\ Goes(r, "renew", 0)
          /\ known' = [known EXCEPT ![r] = @ \/ holder # Absent]
          /\ UNCHANGED leads
    /\ UNCHANGED <<holder, idle, watched, stale, since, faultVars>>

\* Unreadable: the version known from before is used.
KRereadFails(r) ==
    /\ At(r, "hold") /\ ~stopped[r]
    /\ RequestFails(r)
    /\ lag' = [lag EXCEPT ![r] = 0]
    /\ Goes(r, "renew", 0)
    /\ UNCHANGED <<apiVars, stale, since, leads>>

\* replace_lease renews, or is refused: a conflict (409) or a deleted Lease (404).
KRenew(r) ==
    /\ At(r, "renew")
    /\ \/ /\ ClaimAccepted(r) /\ Written(r, r)
          /\ since' = [since EXCEPT ![r] = lag[r]]
          /\ Goes(r, "hold", RenewEvery) /\ UNCHANGED leads
       \/ ~ClaimAccepted(r) /\ Surrender(r) /\ UNCHANGED <<apiVars, since>>
    /\ lag' = [lag EXCEPT ![r] = 0]
    /\ UNCHANGED <<stale, faultVars>>

\* Mutant: failing renewals never cost leadership.
GivesUpNever(r) == FALSE
\* Renewals have failed for a full lease_duration.
GivesUp(r) == since[r] >= Duration

KRenewFails(r) ==
    /\ At(r, "renew")
    /\ RequestFails(r)
    /\ UNCHANGED apiVars \/ (ClaimAccepted(r) /\ Written(Absent, r))
    /\ IF GivesUp(r) THEN Surrender(r) ELSE (Goes(r, "hold", RenewEvery) /\ UNCHANGED leads)
    /\ since' = [since EXCEPT ![r] = Cap(@ + lag[r])]
    /\ lag' = [lag EXCEPT ![r] = 0]
    /\ UNCHANGED stale

\* on_lose has drained the pipeline; standby again.
KLost(r) ==
    /\ At(r, "lost")
    /\ Goes(r, "read", 0)
    /\ UNCHANGED <<apiVars, stale, since, lag, leads, faultVars>>

\* run: stop ends a pause at once, and the coordinator where it next looks.
KStops(r) ==
    /\ stopped[r]
    /\ \/ kpc[r] = "hold" /\ Surrender(r)
       \/ kpc[r] = "read" /\ Goes(r, "ended", 0) /\ UNCHANGED leads
    /\ UNCHANGED <<apiVars, stale, since, lag, faultVars>>

(* The environment *)

KSignal(r) ==
    /\ kpc[r] \notin {"down", "ended"} /\ ~stopped[r]
    /\ \E s \in Replicas \ {r} : ~stopped[s]
    /\ stopped' = [stopped EXCEPT ![r] = TRUE]
    /\ UNCHANGED <<kEnv, apiVars, kpc, rest, stale, since, lag, leads, faultVars>>

\* The process dies: all it remembers is gone.
KCrash(r) ==
    /\ kpc[r] \notin {"down", "ended"}
    /\ kEnv # "stall" /\ kCrashes < MaxKCrashes /\ kCrashes' = kCrashes + 1
    /\ Goes(r, "down", 0)
    /\ leads' = [leads EXCEPT ![r] = FALSE]
    /\ known' = [known EXCEPT ![r] = FALSE] /\ watched' = [watched EXCEPT ![r] = FALSE]
    /\ stale' = [stale EXCEPT ![r] = 0]
    /\ since' = [since EXCEPT ![r] = 0] /\ lag' = [lag EXCEPT ![r] = 0]
    /\ UNCHANGED <<holder, idle, cut, outages, kEdits>>

KRestart(r) ==
    /\ kpc[r] = "down"
    /\ kpc' = [kpc EXCEPT ![r] = "read"]
    /\ stopped' = [stopped EXCEPT ![r] = FALSE]
    /\ UNCHANGED <<kEnv, apiVars, rest, stale, since, lag, leads, faultVars>>

\* A replica's requests begin, and cease, to fail.
KCut(r) ==
    /\ r \notin cut /\ outages < MaxOutages
    /\ cut' = cut \cup {r} /\ outages' = outages + 1
    /\ UNCHANGED <<kEnv, apiVars, kpc, rest, stale, since, lag, leads, stopped, kCrashes, kEdits>>
KHeal(r) ==
    /\ cut' = cut \ {r} /\ r \in cut
    /\ UNCHANGED <<kEnv, apiVars, kpc, rest, stale, since, lag, leads, stopped, outages, kCrashes, kEdits>>

\* kubectl deletes the Lease, or leaves a bare one.
KEdit ==
    /\ kEnv = "edited" /\ kEdits < MaxKEdits /\ kEdits' = kEdits + 1
    /\ \E h \in {Absent, Unheld} : h # holder /\ Written(Absent, h)
    /\ UNCHANGED <<kEnv, kpc, rest, stale, since, lag, leads, stopped, cut, outages, kCrashes>>

Waiting(r) == kpc[r] \in {"down", "ended"} \/ (rest[r] > 0 /\ ~stopped[r])

KTick ==
    /\ kEnv # "stall" => \A r \in Replicas : Waiting(r)
    /\ rest' = [r \in Replicas |-> IF rest[r] > 0 THEN rest[r] - 1 ELSE 0]
    /\ idle' = Cap(idle + 1)
    /\ stale' = [r \in Replicas |-> IF watched[r] THEN Cap(stale[r] + 1) ELSE 0]
    /\ since' = [r \in Replicas |-> IF kpc[r] = "hold" THEN Cap(since[r] + 1) ELSE since[r]]
    /\ lag' = [r \in Replicas |-> IF kpc[r] = "renew" THEN Cap(lag[r] + 1) ELSE 0]
    /\ UNCHANGED <<kEnv, holder, known, watched, kpc, leads, stopped, faultVars>>

KStep(r) ==
    \/ KRead(r) \/ KClaim(r) \/ KHold(r) \/ KReread(r) \/ KRenew(r) \/ KLost(r)
    \/ KReadFails(r) \/ KClaimFails(r) \/ KRereadFails(r) \/ KRenewFails(r)
    \/ KStops(r)
KFault(r) == KSignal(r) \/ KCrash(r) \/ KCut(r)

KNext ==
    \/ \E r \in Replicas : KStep(r) \/ KFault(r) \/ KRestart(r) \/ KHeal(r)
    \/ KEdit \/ KTick

\* Time passes, a replica that runs goes on, a pod that died is restarted, and
\* the API answers again.
KFairness ==
    /\ WF_kVars(KTick)
    /\ \A r \in Replicas : WF_kVars(KStep(r)) /\ WF_kVars(KRestart(r)) /\ WF_kVars(KHeal(r))

KSpec == KInit /\ [][KNext]_kVars /\ KFairness

-----------------------------------------------------------------------------

\* Takeovers wait, stalls and edits included: a replica takes the Lease from
\* another only when it has not been written for the whole lease duration.
TakeoverWaits ==
    [][(holder \in Replicas /\ holder' \in Replicas \ {holder}) => idle >= LeaseSeconds]_kVars

\* While replicas are prompt and nobody edits the Lease, two of them are leaders
\* only at the instant the older one wakes to find out: its checkpoint fence
\* (check_fence) never stays open beside the new leader's.
SoleLeader ==
    kEnv = "prompt" =>
        \A r, s \in Replicas : leads[r] /\ leads[s] /\ r # s => ~Waiting(r) \/ ~Waiting(s)

\* Failed requests, lost answers, crashes, restarts and edits over, leadership
\* settles: there is always again a leader, and among replicas that do not stall
\* exactly one leads in the end, and keeps leading.
LeadershipSettles ==
    /\ []<>(\E r \in Replicas : leads[r])
    /\ kEnv # "stall" => <>[](Cardinality({r \in Replicas : leads[r]}) = 1)

=============================================================================
