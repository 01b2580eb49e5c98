----------------------- MODULE HighAvailabilityProofs -----------------------
(* The lease file and the active-passive pair, for any number of instances,  *)
(* any timing that the configuration accepts, and however the instances      *)
(* stall, crash or disagree about who leads.                                 *)
EXTENDS HighAvailability, TLAPS

-----------------------------------------------------------------------------
(* FileLease: types.                                                         *)

USE FileLeaseAssumption

\* The initial state has the types.
LEMMA InitType == LeaseInit => LeaseTypeOK
BY DEF LeaseInit, LeaseTypeOK, NoLease

\* A step that only moves an instance from one pause to the next keeps the types.
LEMMA PauseType ==
    ASSUME LeaseTypeOK, NEW i \in Instances,
           NEW where \in {"standby", "verify", "hold", "holdverify"},
           NEW t \in {Renew, Verify}, Pause(i, where, t)
    PROVE  /\ pc' \in [Instances -> {"standby", "contest", "verify", "acquired", "hold",
                                     "holdverify", "renew", "losing", "exited", "down"}]
           /\ timer' \in [Instances -> 0..Renew]
<1>1. t \in 0..Renew
  OBVIOUS
<1> QED
  BY <1>1 DEF LeaseTypeOK, Pause

\* What a write leaves in the lease file, complete or failed, has the type of a lease.
LEMMA WriteType ==
    ASSUME LeaseTypeOK, NEW i \in Instances, NEW e \in Nat,
           WriteLease(i, e) \/ WriteLeaseFails(i, e)
    PROVE  lease' \in [holder : Instances \cup {"none"}, left : 0..TTL, epoch : Nat]
<1>1. age[i] \in 0..TTL
  BY DEF LeaseTypeOK
<1>2. TTL - age[i] \in 0..TTL
  BY <1>1
<1> QED
  BY <1>2 DEF LeaseTypeOK, WriteLease, WriteLeaseFails

\* Every step of _acquire keeps the types.
LEMMA AcquireType ==
    ASSUME LeaseTypeOK, NEW i \in Instances,
           \/ AcquireRead(i) \/ AcquireReadFails(i) \/ ContestWrite(i) \/ ContestWriteFails(i)
           \/ VerifyRead(i) \/ VerifyReadFails(i)
    PROVE  LeaseTypeOK'
<1>1. CASE AcquireRead(i)
  <2>1. CASE Pause(i, "standby", Renew) /\ UNCHANGED <<seen, age>>
    BY <1>1, <2>1, PauseType DEF AcquireRead, LeaseTypeOK
  <2>2. CASE /\ pc' = [pc EXCEPT ![i] = "contest"]
             /\ seen' = [seen EXCEPT ![i] = lease.epoch]
             /\ age' = [age EXCEPT ![i] = 0]
             /\ UNCHANGED timer
    BY <1>1, <2>2 DEF AcquireRead, LeaseTypeOK
  <2> QED
    BY <1>1, <2>1, <2>2 DEF AcquireRead
<1>2. CASE AcquireReadFails(i)
  BY <1>2, PauseType DEF IOError, AcquireReadFails, LeaseTypeOK
<1>3. CASE ContestWrite(i)
  <2>1. lease' \in [holder : Instances \cup {"none"}, left : 0..TTL, epoch : Nat]
    BY <1>3, WriteType DEF ContestWrite, LeaseTypeOK
  <2> QED
    BY <1>3, <2>1, PauseType DEF ContestWrite, LeaseTypeOK
<1>4. CASE ContestWriteFails(i)
  <2>1. lease' \in [holder : Instances \cup {"none"}, left : 0..TTL, epoch : Nat]
    BY <1>4, WriteType DEF ContestWriteFails, LeaseTypeOK
  <2>2. ioErrors' \in Nat
    BY <1>4 DEF ContestWriteFails, WriteLeaseFails, IOError, LeaseTypeOK
  <2> QED
    BY <1>4, <2>1, <2>2, PauseType DEF ContestWriteFails, LeaseTypeOK
<1>5. CASE VerifyRead(i)
  <2>1. CASE Pause(i, "standby", Verify) /\ UNCHANGED <<epoch, leader>>
    BY <1>5, <2>1, PauseType DEF VerifyRead, LeaseTypeOK
  <2>2. CASE /\ epoch' = [epoch EXCEPT ![i] = lease.epoch]
             /\ leader' = [leader EXCEPT ![i] = TRUE]
             /\ pc' = [pc EXCEPT ![i] = "acquired"]
             /\ UNCHANGED timer
    BY <1>5, <2>2 DEF VerifyRead, LeaseTypeOK
  <2> QED
    BY <1>5, <2>1, <2>2 DEF VerifyRead
<1>6. CASE VerifyReadFails(i)
  BY <1>6, PauseType DEF IOError, VerifyReadFails, LeaseTypeOK
<1> QED
  BY <1>1, <1>2, <1>3, <1>4, <1>5, <1>6

\* Every step of _hold keeps the types.
LEMMA HoldType ==
    ASSUME LeaseTypeOK, NEW i \in Instances,
           \/ HoldRead(i) \/ HoldReadFails(i) \/ HoldVerify(i) \/ HoldVerifyFails(i)
           \/ RenewWrite(i) \/ RenewWriteFails(i) \/ StopSeen(i)
    PROVE  LeaseTypeOK'
<1>1. CASE HoldRead(i)
  <2>1. CASE Pause(i, "holdverify", Verify) /\ UNCHANGED leader
    BY <1>1, <2>1, PauseType DEF HoldRead, LeaseTypeOK
  <2>2. CASE Surrender(i) /\ UNCHANGED timer
    BY <1>1, <2>2 DEF HoldRead, Surrender, LeaseTypeOK
  <2>3. CASE pc' = [pc EXCEPT ![i] = "renew"] /\ UNCHANGED <<timer, leader>>
    BY <1>1, <2>3 DEF HoldRead, LeaseTypeOK
  <2> QED
    BY <1>1, <2>1, <2>2, <2>3 DEF HoldRead
<1>2. CASE HoldReadFails(i)
  BY <1>2, PauseType DEF IOError, HoldReadFails, LeaseTypeOK
<1>3. CASE HoldVerify(i)
  <2>1. CASE Surrender(i) /\ UNCHANGED age
    BY <1>3, <2>1 DEF HoldVerify, Surrender, LeaseTypeOK
  <2>2. CASE /\ pc' = [pc EXCEPT ![i] = "renew"]
             /\ age' = [age EXCEPT ![i] = 0]
             /\ UNCHANGED leader
    BY <1>3, <2>2 DEF HoldVerify, LeaseTypeOK
  <2> QED
    BY <1>3, <2>1, <2>2 DEF HoldVerify
<1>4. CASE HoldVerifyFails(i)
  BY <1>4 DEF IOError, HoldVerifyFails, LeaseTypeOK
<1>5. CASE RenewWrite(i)
  <2>1. lease' \in [holder : Instances \cup {"none"}, left : 0..TTL, epoch : Nat]
    BY <1>5, WriteType DEF RenewWrite, LeaseTypeOK
  <2> QED
    BY <1>5, <2>1, PauseType DEF RenewWrite, LeaseTypeOK
<1>6. CASE RenewWriteFails(i)
  <2>1. lease' \in [holder : Instances \cup {"none"}, left : 0..TTL, epoch : Nat]
    BY <1>6, WriteType DEF RenewWriteFails, LeaseTypeOK
  <2>2. ioErrors' \in Nat
    BY <1>6 DEF RenewWriteFails, WriteLeaseFails, IOError, LeaseTypeOK
  <2>3. CASE Surrender(i) /\ UNCHANGED <<timer, sinceOk>>
    BY <1>6, <2>1, <2>2, <2>3 DEF RenewWriteFails, Surrender, LeaseTypeOK
  <2>4. CASE /\ Pause(i, "hold", Renew)
             /\ sinceOk' = [sinceOk EXCEPT ![i] = Capped(@ + age[i])]
             /\ UNCHANGED leader
    <3>1. Capped(sinceOk[i] + age[i]) \in 0..TTL
      BY DEF LeaseTypeOK, Capped
    <3> QED
      BY <1>6, <2>1, <2>2, <2>4, <3>1, PauseType DEF RenewWriteFails, LeaseTypeOK
  <2> QED
    BY <1>6, <2>3, <2>4 DEF RenewWriteFails
<1>7. CASE StopSeen(i)
  BY <1>7 DEF StopSeen, Surrender, LeaseTypeOK
<1> QED
  BY <1>1, <1>2, <1>3, <1>4, <1>5, <1>6, <1>7

\* The steps around the callbacks, and what the environment does to one
\* instance, keep the types.
LEMMA HostType ==
    ASSUME LeaseTypeOK, NEW i \in Instances,
           BeginHold(i) \/ BackToStandby(i) \/ Signal(i) \/ Crash(i) \/ Boot(i)
    PROVE  LeaseTypeOK'
<1>1. CASE BeginHold(i)
  BY <1>1, PauseType DEF BeginHold, LeaseTypeOK
<1>2. CASE BackToStandby(i)
  BY <1>2 DEF BackToStandby, LeaseTypeOK
<1>3. CASE Signal(i)
  BY <1>3 DEF Signal, LeaseTypeOK
<1>4. CASE Crash(i)
  BY <1>4 DEF Crash, LeaseTypeOK
<1>5. CASE Boot(i)
  BY <1>5 DEF Boot, LeaseTypeOK
<1> QED
  BY <1>1, <1>2, <1>3, <1>4, <1>5

\* The loss of the lease file and the passing of time keep the types.
LEMMA WorldType ==
    ASSUME LeaseTypeOK, LeaseLost \/ Tick
    PROVE  LeaseTypeOK'
<1>1. CASE LeaseLost
  BY <1>1 DEF LeaseLost, NoLease, coordVars, LeaseTypeOK
<1>2. CASE Tick
  <2>1. \A n \in Nat : Down(n) \in Nat /\ Down(n) <= n
    BY DEF Down
  <2>2. \A n \in 0..TTL : Capped(n + 1) \in 0..TTL
    BY DEF Capped
  <2>3. lease' \in [holder : Instances \cup {"none"}, left : 0..TTL, epoch : Nat]
    BY <1>2, <2>1 DEF Tick, LeaseTypeOK
  <2>4. timer' \in [Instances -> 0..Renew]
    <3>1. \A i \in Instances : Down(timer[i]) \in 0..Renew
      BY <2>1 DEF LeaseTypeOK
    <3> QED
      BY <1>2, <3>1 DEF Tick
  <2>5. age' \in [Instances -> 0..TTL]
    BY <1>2, <2>2 DEF Tick, LeaseTypeOK
  <2>6. sinceOk' \in [Instances -> 0..TTL]
    BY <1>2, <2>2 DEF Tick, LeaseTypeOK
  <2> QED
    BY <1>2, <2>3, <2>4, <2>5, <2>6 DEF Tick, LeaseTypeOK
<1> QED
  BY <1>1, <1>2

\* Whatever the instances and the storage do, the lease on file never outlives
\* its ttl, and every variable of every coordinator has its type.
THEOREM LeaseTypeCorrect == LeaseSpec => []LeaseTypeOK
<1>1. LeaseInit => LeaseTypeOK
  BY InitType
<1>2. LeaseTypeOK /\ [LeaseNext]_leaseVars => LeaseTypeOK'
  <2> SUFFICES ASSUME LeaseTypeOK, [LeaseNext]_leaseVars PROVE LeaseTypeOK'
    OBVIOUS
  <2>1. CASE UNCHANGED leaseVars
    BY <2>1 DEF leaseVars, coordVars, LeaseTypeOK
  <2>2. ASSUME NEW i \in Instances, CoordStep(i)
        PROVE  LeaseTypeOK'
    BY <2>2, AcquireType, HoldType DEF CoordStep
  <2>3. ASSUME NEW i \in Instances,
               BeginHold(i) \/ BackToStandby(i) \/ Signal(i) \/ Crash(i) \/ Boot(i)
        PROVE  LeaseTypeOK'
    BY <2>3, HostType
  <2>4. CASE LeaseLost \/ Tick
    BY <2>4, WorldType
  <2> QED
    BY <2>1, <2>2, <2>3, <2>4 DEF LeaseNext
<1> QED
  BY <1>1, <1>2, PTL DEF LeaseSpec

-----------------------------------------------------------------------------
(* HighAvailability: leadership changes lose nothing.                        *)

USE HighAvailabilityAssumption

\* The steps that leave the pipelines and the shared file alone.
LEMMA IdleStep ==
    ASSUME HaInv, UNCHANGED <<doc, delivered, pipeVars>>
    PROVE  HaInv'
BY DEF HaInv, HaTypeOK, NoLoss, ReadDelivered, CachedDelivered, pipeVars

\* Every step of an instance other than the coordinator's own keeps the
\* invariant: a position is only ever copied from one place where its whole
\* prefix was delivered to another, or moved past an event just delivered.
LEMMA PipelineStep ==
    ASSUME LeaseTypeOK, HaInv, NEW i \in Instances,
           \/ OnAcquire(i) \/ StopAcquisition(i) \/ OnLose(i)
           \/ Load(i) \/ Push(i) \/ CommitCheck(i) \/ CommitWrite(i) \/ CommitWriteFails(i)
           \/ OnPipelineDone(i) \/ PipelineStops(i) \/ HaCrash(i)
    PROVE  HaInv'
<1> USE DEF HaInv, HaTypeOK, NoLoss, ReadDelivered, CachedDelivered, NotLoaded
<1>1. CASE OnAcquire(i)
  BY <1>1 DEF OnAcquire
<1>2. CASE StopAcquisition(i)
  BY <1>2 DEF StopAcquisition
<1>3. CASE OnLose(i)
  BY <1>3 DEF OnLose
<1>4. CASE Load(i)
  <2>1. cache'[i] \in NotLoaded..MaxPos /\ cache'[i] \in 0..MaxPos
    BY <1>4 DEF Load
  <2>2. 1..cache'[i] \subseteq delivered
    BY <1>4 DEF Load
  <2> QED
    BY <1>4, <2>1, <2>2 DEF Load
<1>5. CASE Push(i)
  <2>1. cur[i] + 1 \in 1..MaxPos
    BY <1>5 DEF Push
  <2>2. ASSUME NEW k \in 1..(cur[i] + 1) PROVE k \in 1..cur[i] \/ k = cur[i] + 1
    BY <2>1
  <2>3. HaTypeOK'
    <3>1. cur' \in [Instances -> 0..MaxPos]
      <4>1. cur[i] + 1 \in 0..MaxPos
        BY <2>1
      <4> QED
        BY <1>5, <4>1 DEF Push
    <3>2. delivered' \subseteq 1..MaxPos
      BY <1>5, <2>1 DEF Push
    <3> QED
      BY <1>5, <3>1, <3>2 DEF Push
  <2>4. delivered \subseteq delivered' /\ cur[i] + 1 \in delivered'
    BY <1>5 DEF Push
  <2>5. ASSUME NEW j \in Instances PROVE 1..cur'[j] \subseteq delivered'
    <3>1. CASE j = i
      <4>1. cur'[i] = cur[i] + 1
        BY <1>5 DEF Push
      <4> QED
        BY <2>2, <2>4, <3>1, <4>1
    <3>2. CASE j # i
      <4>1. cur'[j] = cur[j]
        BY <1>5, <3>2 DEF Push
      <4> QED
        BY <2>4, <4>1
    <3> QED
      BY <3>1, <3>2
  <2>6. NoLoss' /\ CachedDelivered'
    BY <1>5, <2>4 DEF Push
  <2> QED
    BY <2>3, <2>5, <2>6
<1>6. CASE CommitCheck(i)
  BY <1>6 DEF CommitCheck
<1>7. CASE CommitWrite(i)
  <2>1. doc' \in [pos : 0..MaxPos, epoch : Nat] /\ doc'.pos = cur[i]
    BY <1>7 DEF CommitWrite, LeaseTypeOK
  <2> QED
    BY <1>7, <2>1 DEF CommitWrite
<1>8. CASE CommitWriteFails(i)
  <2>1. doc' \in [pos : 0..MaxPos, epoch : Nat] /\ doc'.pos \in {doc.pos, cur[i]}
    BY <1>8 DEF CommitWriteFails, LeaseTypeOK
  <2> QED
    BY <1>8, <2>1 DEF CommitWriteFails
<1>9. CASE OnPipelineDone(i)
  BY <1>9 DEF OnPipelineDone
<1>10. CASE PipelineStops(i)
  BY <1>10 DEF PipelineStops
<1>11. CASE HaCrash(i)
  BY <1>11 DEF HaCrash
<1> QED
  BY <1>1, <1>2, <1>3, <1>4, <1>5, <1>6, <1>7, <1>8, <1>9, <1>10, <1>11

\* Composed with the pipelines, the coordinators keep their types.
LEMMA LeaseTypeStep ==
    ASSUME LeaseTypeOK, [HaNext]_haVars
    PROVE  LeaseTypeOK'
<1>1. CASE UNCHANGED leaseVars
  BY <1>1 DEF leaseVars, coordVars, LeaseTypeOK
<1>2. ASSUME NEW i \in Instances,
             Coordinate(i) \/ OnAcquire(i) \/ OnLose(i) \/ HaCrash(i)
      PROVE  LeaseTypeOK'
  BY <1>2, AcquireType, HoldType, HostType
     DEF Coordinate, CoordStep, OnAcquire, OnLose, HaCrash
<1>3. ASSUME NEW i \in Instances, CommitWriteFails(i)
      PROVE  LeaseTypeOK'
  BY <1>3 DEF CommitWriteFails, IOError, coordVars, LeaseTypeOK
<1>4. ASSUME NEW i \in Instances, OnPipelineDone(i)
      PROVE  LeaseTypeOK'
  BY <1>4 DEF OnPipelineDone, LeaseTypeOK
<1>5. CASE Environment
  BY <1>5, HostType, WorldType DEF Environment, Clock
<1>6. ASSUME NEW i \in Instances,
             \/ StopAcquisition(i) \/ Load(i) \/ Push(i) \/ CommitCheck(i)
             \/ CommitWrite(i) \/ PipelineStops(i)
      PROVE  UNCHANGED leaseVars
  BY <1>6 DEF StopAcquisition, Load, Push, CommitCheck, CommitWrite, PipelineStops
<1>7. CASE UNCHANGED haVars
  BY <1>1, <1>7 DEF haVars
<1> QED
  BY <1>1, <1>2, <1>3, <1>4, <1>5, <1>6, <1>7 DEF HaNext, Step

\* The invariant, and with it NoLoss, holds in every state of the pair.
THEOREM HaInvariant == HaSpec => [](LeaseTypeOK /\ HaInv)
<1>1. HaInit => LeaseTypeOK /\ HaInv
  <2> SUFFICES ASSUME HaInit PROVE LeaseTypeOK /\ HaInv
    OBVIOUS
  <2>1. LeaseTypeOK
    BY InitType DEF HaInit
  <2>2. HaTypeOK
    <3>1. 0 \in 0..MaxPos /\ NotLoaded \in NotLoaded..MaxPos
      BY DEF NotLoaded
    <3> QED
      BY <3>1 DEF HaInit, HaTypeOK
  <2>3. 1..0 = {} /\ 1..NotLoaded = {}
    BY DEF NotLoaded
  <2>4. NoLoss /\ ReadDelivered /\ CachedDelivered
    BY <2>3 DEF HaInit, NoLoss, ReadDelivered, CachedDelivered
  <2> QED
    BY <2>1, <2>2, <2>4 DEF HaInv
<1>2. LeaseTypeOK /\ HaInv /\ [HaNext]_haVars => LeaseTypeOK' /\ HaInv'
  <2> SUFFICES ASSUME LeaseTypeOK, HaInv, [HaNext]_haVars PROVE HaInv'
    BY LeaseTypeStep
  <2>1. CASE Environment
    BY <2>1, IdleStep DEF Environment, Clock
  <2>2. CASE UNCHANGED haVars
    BY <2>2, IdleStep DEF haVars
  <2>3. ASSUME NEW i \in Instances, Coordinate(i)
        PROVE  HaInv'
    BY <2>3, IdleStep DEF Coordinate
  <2>4. ASSUME NEW i \in Instances, Step(i) \/ HaCrash(i)
        PROVE  HaInv'
    BY <2>3, <2>4, PipelineStep DEF Step
  <2> QED
    BY <2>1, <2>2, <2>4 DEF HaNext
<1> QED
  BY <1>1, <1>2, PTL DEF HaSpec

\* The fencing may fail to keep a stale leader out, but no event is lost for
\* it: the shared checkpoint never passes an event Loki has not accepted.
THEOREM TakeoverLosesNothing == HaSpec => []NoLoss
<1>1. HaInv => NoLoss
  BY DEF HaInv
<1> QED
  BY <1>1, HaInvariant, PTL

-----------------------------------------------------------------------------
(* HighAvailability: what a leader starts from.                              *)

\* Before an acquisition there is no pipeline and nothing is remembered, a pipeline
\* that is about to load its checkpoint finds nothing remembered, and a commit that
\* passed its fence is made by a leader.
FreshInv ==
    \A i \in Instances :
        /\ pc[i] \in {"down", "exited", "standby", "contest", "verify", "acquired"}
               => pipe[i] = "off" /\ cache[i] = NotLoaded
        /\ pipe[i] = "load" => cache[i] = NotLoaded
        /\ pipe[i] = "write" => leader[i]

\* What the coordinator of an instance does on its own, and what happens to it.
LEMMA CoordinatorFresh ==
    ASSUME LeaseTypeOK, HaTypeOK, FreshInv, NEW i \in Instances,
           Coordinate(i) \/ Signal(i) \/ Boot(i), UNCHANGED pipeVars
    PROVE  FreshInv'
<1>1. ASSUME NEW j \in Instances, j # i PROVE pc'[j] = pc[j] /\ leader'[j] = leader[j]
  BY <1>1 DEF Coordinate, CoordStep, AcquireRead, AcquireReadFails, ContestWrite,
              ContestWriteFails, VerifyRead, VerifyReadFails, HoldRead, HoldReadFails,
              HoldVerify, HoldVerifyFails, RenewWrite, RenewWriteFails, StopSeen, Signal,
              Boot, Surrender, Pause, LeaseTypeOK
<1>2. \/ pc[i] \in {"down", "exited", "standby", "contest", "verify", "acquired"}
      \/ pc'[i] \notin {"down", "exited", "standby", "contest", "verify", "acquired"}
  BY DEF Coordinate, CoordStep, AcquireRead, AcquireReadFails, ContestWrite,
         ContestWriteFails, VerifyRead, VerifyReadFails, HoldRead, HoldReadFails,
         HoldVerify, HoldVerifyFails, RenewWrite, RenewWriteFails, StopSeen, Signal,
         Boot, Surrender, Pause, Rested, LeaseTypeOK
<1>3. pipe[i] = "write" => leader'[i] = leader[i]
  BY DEF Coordinate, Signal, Boot
<1> QED
  BY <1>1, <1>2, <1>3 DEF FreshInv, pipeVars

\* Every other step of an instance.
LEMMA PipelineFresh ==
    ASSUME LeaseTypeOK, HaTypeOK, FreshInv, NEW i \in Instances,
           \/ OnAcquire(i) \/ StopAcquisition(i) \/ OnLose(i)
           \/ Load(i) \/ Push(i) \/ CommitCheck(i) \/ CommitWrite(i) \/ CommitWriteFails(i)
           \/ OnPipelineDone(i) \/ PipelineStops(i) \/ HaCrash(i)
    PROVE  FreshInv'
<1> USE DEF FreshInv, HaTypeOK, LeaseTypeOK
<1>1. CASE OnAcquire(i)
  BY <1>1 DEF OnAcquire, BeginHold, Pause
<1>2. CASE StopAcquisition(i)
  BY <1>2 DEF StopAcquisition, leaseVars, coordVars
<1>3. CASE OnLose(i)
  BY <1>3 DEF OnLose, BackToStandby
<1>4. CASE Load(i)
  BY <1>4 DEF Load, leaseVars, coordVars
<1>5. CASE Push(i)
  BY <1>5 DEF Push, leaseVars, coordVars
<1>6. CASE CommitCheck(i)
  BY <1>6 DEF CommitCheck, leaseVars, coordVars, Fenced
<1>7. CASE CommitWrite(i)
  BY <1>7 DEF CommitWrite, leaseVars, coordVars
<1>8. CASE CommitWriteFails(i)
  BY <1>8 DEF CommitWriteFails, coordVars
<1>9. CASE OnPipelineDone(i)
  BY <1>9 DEF OnPipelineDone
<1>10. CASE PipelineStops(i)
  BY <1>10 DEF PipelineStops, leaseVars, coordVars
<1>11. CASE HaCrash(i)
  BY <1>11 DEF HaCrash, Crash
<1> QED
  BY <1>1, <1>2, <1>3, <1>4, <1>5, <1>6, <1>7, <1>8, <1>9, <1>10, <1>11

\* Every step of the pair keeps what a leader starts from.
LEMMA FreshStep ==
    ASSUME LeaseTypeOK, HaTypeOK, FreshInv, [HaNext]_haVars
    PROVE  FreshInv'
<1>1. CASE UNCHANGED <<pc, leader, pipeVars>>
  BY <1>1 DEF FreshInv, pipeVars
<1>2. ASSUME NEW i \in Instances, Step(i) \/ HaCrash(i)
      PROVE  FreshInv'
  BY <1>2, CoordinatorFresh, PipelineFresh DEF Step, Coordinate
<1>3. CASE Environment
  BY <1>1, <1>3, CoordinatorFresh
     DEF Environment, Clock, Tick, LeaseLost, coordVars
<1> QED
  BY <1>1, <1>2, <1>3 DEF HaNext, haVars, leaseVars, coordVars

LEMMA FreshAlways == HaSpec => [](LeaseTypeOK /\ HaTypeOK /\ FreshInv)
<1>1. HaInit => FreshInv
  BY DEF HaInit, LeaseInit, FreshInv
<1>2. LeaseTypeOK /\ HaTypeOK /\ FreshInv /\ [HaNext]_haVars => FreshInv'
  BY FreshStep
<1>3. HaInv => HaTypeOK
  BY DEF HaInv
<1> QED
  BY <1>1, <1>2, <1>3, HaInvariant, PTL DEF HaSpec

\* However often instances lose and regain the lease, stall and crash, a pipeline
\* starts from the checkpoint that is on file at that moment.
THEOREM LeaderStartsFresh == HaSpec => StartsFresh
<1>1. LeaseTypeOK /\ HaTypeOK /\ FreshInv /\ [HaNext]_haVars
         => [\A i \in Instances : (pipe[i] = "load" /\ pipe'[i] = "run") => cur'[i] = doc.pos]_haVars
  <2> SUFFICES ASSUME HaTypeOK, FreshInv, HaNext,
                      NEW i \in Instances, pipe[i] = "load", pipe'[i] = "run"
               PROVE  cur'[i] = doc.pos
    OBVIOUS
  <2>1. Load(i)
    BY DEF HaNext, Environment, Clock, Step, Coordinate, OnAcquire, StopAcquisition, OnLose,
           Load, Push, CommitCheck, CommitWrite, CommitWriteFails, OnPipelineDone,
           PipelineStops, HaCrash, HaTypeOK, pipeVars
  <2> QED
    BY <2>1 DEF Load, FreshInv, HaTypeOK
<1> QED
  BY <1>1, FreshAlways, PTL DEF HaSpec, StartsFresh

-----------------------------------------------------------------------------
(* Prompt replicas: one leader, and a missed renewal does not unseat it.     *)

\* Instances that do not stall, a lease that nobody deletes, and a ttl that outlasts
\* the verification of a claim and every renewal that may be missed before the next
\* one.  FileLeaseConfig asks for 2 * Renew < TTL only, which leaves out the pause
\* between the claim and the first hold.
PromptReplicas ==
    /\ Prompt
    /\ "lease_lost" \notin LeaseFaults
    /\ Verify + (MaxIOErrors + 1) * Renew < TTL

LeadingAt == {"acquired", "hold", "holdverify", "renew"}

\* The time that the renewals still to be missed may cost.
Owed == (MaxIOErrors - ioErrors) * Renew
\* The time until a leader next gets to renew.
Due(i) == IF pc[i] = "acquired" THEN Renew
          ELSE IF pc[i] \in {"hold", "holdverify"} THEN timer[i] ELSE 0

ErrorsCounted == ioErrors <= MaxIOErrors
ClocksFresh   == \A i \in Instances : age[i] = 0
LeadsWhere    == \A i \in Instances : leader[i] <=> pc[i] \in LeadingAt
\* A leader's lease outlasts the renewals that may still be missed.
LeaseLasts    == \A i \in Instances : leader[i] => lease.holder = i /\ lease.left > Due(i) + Owed
\* So does the leader's own patience.
PatienceLasts == \A i \in Instances :
                     pc[i] \in {"hold", "holdverify", "renew"} => sinceOk[i] + Due(i) + Owed < TTL
\* A claim that waits for its verification was written when the wait began.
ClaimStands   == \A i \in Instances :
                     pc[i] = "verify" /\ lease.holder = i => lease.left >= TTL - Verify + timer[i]
\* Who is about to contest the lease contests no leader and no claim that could be
\* verified before it is overwritten.
ContestsNobody ==
    \A i, j \in Instances :
        pc[i] = "contest" => ~leader[j] /\ (pc[j] = "verify" /\ lease.holder = j => timer[j] > 0)

PromptLeaseInv ==
    /\ ErrorsCounted /\ ClocksFresh /\ LeadsWhere /\ LeaseLasts /\ PatienceLasts
    /\ ClaimStands /\ ContestsNobody

\* The coordinator of no instance but i is touched.
OnlyHere(i) ==
    \A j \in Instances \ {i} : /\ pc'[j] = pc[j] /\ timer'[j] = timer[j] /\ age'[j] = age[j]
                               /\ leader'[j] = leader[j] /\ sinceOk'[j] = sinceOk[j]

\* What is owed only shrinks, by one renewal with each error.
OwedShrinks == Owed' <= Owed /\ ErrorsCounted'

LEMMA OwedBound ==
    ASSUME LeaseTypeOK, ErrorsCounted, PromptReplicas
    PROVE  Owed \in Nat /\ Verify + Owed + Renew < TTL
<1>1. ioErrors \in Nat /\ MaxIOErrors - ioErrors \in Nat
  BY DEF LeaseTypeOK, ErrorsCounted
<1>2. (MaxIOErrors + 1) * Renew = (MaxIOErrors - ioErrors) * Renew + ioErrors * Renew + Renew
  BY <1>1
<1>3. ioErrors * Renew \in Nat /\ (MaxIOErrors - ioErrors) * Renew \in Nat
  BY <1>1
<1> QED
  BY <1>2, <1>3 DEF Owed, PromptReplicas

LEMMA OwedKept ==
    ASSUME LeaseTypeOK, ErrorsCounted, PromptReplicas, UNCHANGED ioErrors
    PROVE  OwedShrinks /\ Owed' = Owed
BY OwedBound DEF OwedShrinks, Owed, ErrorsCounted

LEMMA OwedDrops ==
    ASSUME LeaseTypeOK, ErrorsCounted, PromptReplicas, NEW kind, IOError(kind)
    PROVE  OwedShrinks /\ Owed' + Renew = Owed /\ Owed' \in Nat
<1>1. ioErrors \in Nat /\ ioErrors < MaxIOErrors /\ ioErrors' = ioErrors + 1
  BY DEF IOError, LeaseTypeOK
<1>2. (MaxIOErrors - ioErrors) * Renew = (MaxIOErrors - (ioErrors + 1)) * Renew + Renew
  BY <1>1
<1>3. MaxIOErrors - (ioErrors + 1) \in Nat
  BY <1>1
<1>4. (MaxIOErrors - (ioErrors + 1)) * Renew \in Nat
  BY <1>3
<1> QED
  BY <1>1, <1>2, <1>4 DEF OwedShrinks, Owed, ErrorsCounted

\* Where the others stand does not change, so neither does what is due.
LEMMA OthersDue ==
    ASSUME NEW i \in Instances, OnlyHere(i), NEW j \in Instances, j # i
    PROVE  Due(j)' = Due(j)
BY DEF OnlyHere, Due

\* An instance goes where it neither leads nor claims, and leaves the lease alone.
LEMMA RestStep ==
    ASSUME LeaseTypeOK, LeaseTypeOK', PromptReplicas, PromptLeaseInv,
           NEW i \in Instances, OnlyHere(i), OwedShrinks,
           pc'[i] \in {"standby", "losing", "exited", "down"},
           ~leader'[i], age'[i] = 0, lease' = lease
    PROVE  PromptLeaseInv'
<1>1. Owed \in Nat
  BY OwedBound DEF PromptLeaseInv
<1>2. ASSUME NEW j \in Instances, j # i PROVE Due(j)' = Due(j)
  BY <1>2, OthersDue
<1>3. ErrorsCounted' /\ ClocksFresh' /\ LeadsWhere'
  BY DEF PromptLeaseInv, OwedShrinks, ClocksFresh, LeadsWhere, OnlyHere, LeadingAt
<1>4. LeaseLasts'
  <2> SUFFICES ASSUME NEW j \in Instances, leader'[j]
               PROVE  lease'.holder = j /\ lease'.left > Due(j)' + Owed'
    BY DEF LeaseLasts
  <2>1. j # i /\ leader[j]
    BY DEF OnlyHere
  <2>2. Due(j) \in Nat /\ lease.left \in Nat /\ Owed' \in Int
    BY DEF Due, LeaseTypeOK, Owed
  <2> QED
    BY <1>1, <1>2, <2>1, <2>2 DEF PromptLeaseInv, LeaseLasts, OwedShrinks
<1>5. PatienceLasts'
  <2> SUFFICES ASSUME NEW j \in Instances, pc'[j] \in {"hold", "holdverify", "renew"}
               PROVE  sinceOk'[j] + Due(j)' + Owed' < TTL
    BY DEF PatienceLasts
  <2>1. j # i /\ pc[j] = pc'[j] /\ sinceOk'[j] = sinceOk[j]
    BY DEF OnlyHere
  <2>2. Due(j) \in Nat /\ sinceOk[j] \in Nat /\ Owed' \in Int
    BY DEF Due, LeaseTypeOK, Owed
  <2> QED
    BY <1>1, <1>2, <2>1, <2>2 DEF PromptLeaseInv, PatienceLasts, OwedShrinks
<1>6. ClaimStands' /\ ContestsNobody'
  BY DEF PromptLeaseInv, ClaimStands, ContestsNobody, OnlyHere
<1> QED
  BY <1>3, <1>4, <1>5, <1>6 DEF PromptLeaseInv

\* A leader goes on: the lease it holds lasts, as it is or because it wrote it.
LEMMA LeaderStep ==
    ASSUME LeaseTypeOK, LeaseTypeOK', PromptReplicas, PromptLeaseInv,
           NEW i \in Instances, OnlyHere(i), OwedShrinks,
           leader[i], leader'[i], pc'[i] \in {"hold", "holdverify", "renew"}, age'[i] = 0,
           lease' = lease \/ lease'.holder = i,
           lease'.left > Due(i)' + Owed', sinceOk'[i] + Due(i)' + Owed' < TTL
    PROVE  PromptLeaseInv'
<1>1. lease.holder = i /\ lease'.holder = i
  BY DEF PromptLeaseInv, LeaseLasts
<1>2. ASSUME NEW j \in Instances, leader[j] PROVE j = i
  BY <1>1, <1>2 DEF PromptLeaseInv, LeaseLasts
<1>3. ErrorsCounted' /\ ClocksFresh' /\ LeadsWhere'
  BY DEF PromptLeaseInv, OwedShrinks, ClocksFresh, LeadsWhere, OnlyHere, LeadingAt
<1>4. LeaseLasts' /\ PatienceLasts'
  <2>1. ASSUME NEW j \in Instances, leader'[j] PROVE j = i
    BY <1>2, <2>1 DEF OnlyHere
  <2>2. \A j \in Instances : pc'[j] \in {"hold", "holdverify", "renew"} => leader'[j]
    BY <1>3 DEF LeadsWhere, LeadingAt
  <2>3. LeaseLasts'
    BY <1>1, <2>1 DEF LeaseLasts
  <2>4. PatienceLasts'
    BY <2>1, <2>2 DEF PatienceLasts
  <2> QED
    BY <2>3, <2>4
<1>5. ClaimStands'
  <2>1. ASSUME NEW j \in Instances, pc'[j] = "verify" PROVE lease'.holder # j
    BY <1>1, <2>1
  <2> QED
    BY <2>1 DEF ClaimStands
<1>6. ContestsNobody'
  <2>1. \A j \in Instances : pc[j] # "contest" /\ pc'[j] # "contest"
    BY DEF PromptLeaseInv, ContestsNobody, OnlyHere
  <2> QED
    BY <2>1 DEF ContestsNobody
<1> QED
  BY <1>3, <1>4, <1>5, <1>6 DEF PromptLeaseInv

\* An instance that saw an expired lease writes its claim, or fails to.
LEMMA ClaimStep ==
    ASSUME LeaseTypeOK, LeaseTypeOK', PromptReplicas, PromptLeaseInv,
           NEW i \in Instances, OnlyHere(i), OwedShrinks,
           pc[i] = "contest", ~leader'[i], age'[i] = 0,
           lease' = lease \/ (lease'.holder = i /\ lease'.left = TTL),
           \/ pc'[i] = "standby"
           \/ pc'[i] = "verify" /\ timer'[i] = Verify /\ lease'.holder = i /\ lease'.left = TTL
    PROVE  PromptLeaseInv'
<1>1. \A j \in Instances : ~leader[j] /\ ~leader'[j]
  BY DEF PromptLeaseInv, ContestsNobody, OnlyHere
<1>2. ErrorsCounted' /\ ClocksFresh' /\ LeadsWhere'
  BY DEF PromptLeaseInv, OwedShrinks, ClocksFresh, LeadsWhere, OnlyHere, LeadingAt
<1>3. LeaseLasts' /\ PatienceLasts'
  BY <1>1, <1>2 DEF LeaseLasts, PatienceLasts, LeadsWhere, LeadingAt
<1>4. ClaimStands'
  BY DEF PromptLeaseInv, ClaimStands, OnlyHere
<1>5. ContestsNobody'
  BY <1>1 DEF PromptLeaseInv, ContestsNobody, OnlyHere
<1> QED
  BY <1>2, <1>3, <1>4, <1>5 DEF PromptLeaseInv

\* What a write leaves on file: its writer's claim for a whole ttl.
LEMMA PromptWrite ==
    ASSUME LeaseTypeOK, PromptLeaseInv, NEW i \in Instances, NEW e, WriteLease(i, e)
    PROVE  lease'.holder = i /\ lease'.left = TTL
BY DEF WriteLease, PromptLeaseInv, ClocksFresh

\* Every step of _acquire keeps the invariant.
LEMMA AcquirePrompt ==
    ASSUME LeaseTypeOK, LeaseTypeOK', PromptReplicas, PromptLeaseInv, NEW i \in Instances,
           \/ AcquireRead(i) \/ AcquireReadFails(i) \/ ContestWrite(i) \/ ContestWriteFails(i)
           \/ VerifyRead(i) \/ VerifyReadFails(i)
    PROVE  PromptLeaseInv'
<1>1. CASE AcquireRead(i)
  <2>1. OnlyHere(i) /\ OwedShrinks /\ Owed' = Owed
    BY <1>1, OwedKept DEF AcquireRead, Pause, OnlyHere, LeaseTypeOK, PromptLeaseInv
  <2>2. CASE Pause(i, "standby", Renew) /\ UNCHANGED <<seen, age>>
    BY <1>1, <2>1, <2>2, RestStep
       DEF AcquireRead, Rested, Pause, LeaseTypeOK, PromptLeaseInv, LeadsWhere, LeadingAt,
           ClocksFresh
  <2>3. CASE Contestable /\ pc' = [pc EXCEPT ![i] = "contest"] /\ age' = [age EXCEPT ![i] = 0]
    <3>1. /\ pc'[i] = "contest" /\ age'[i] = 0 /\ leader' = leader /\ timer' = timer
          /\ sinceOk' = sinceOk /\ lease' = lease /\ pc[i] = "standby"
      BY <1>1, <2>3 DEF AcquireRead, Rested, Pause, LeaseTypeOK
    <3>2. lease.left = 0
      BY <2>3 DEF Contestable, NoLease
    <3>3. ASSUME NEW j \in Instances PROVE ~leader[j]
      <4>1. Due(j) \in Nat /\ Owed \in Nat
        BY OwedBound DEF Due, LeaseTypeOK, PromptLeaseInv
      <4> QED
        BY <3>2, <4>1 DEF PromptLeaseInv, LeaseLasts
    <3>4. ASSUME NEW j \in Instances, pc[j] = "verify", lease.holder = j PROVE FALSE
      <4>1. timer[j] \in Nat /\ TTL - Verify > 0
        BY OwedBound DEF LeaseTypeOK, PromptLeaseInv
      <4> QED
        BY <3>2, <3>4, <4>1 DEF PromptLeaseInv, ClaimStands
    <3>5. ErrorsCounted' /\ ClocksFresh' /\ LeadsWhere'
      BY <2>1, <3>1 DEF PromptLeaseInv, OwedShrinks, ClocksFresh, LeadsWhere, OnlyHere, LeadingAt
    <3>6. LeaseLasts' /\ PatienceLasts'
      BY <3>1, <3>3, <3>5 DEF LeaseLasts, PatienceLasts, LeadsWhere, LeadingAt
    <3>7. ClaimStands' /\ ContestsNobody'
      BY <2>1, <3>1, <3>3, <3>4 DEF ClaimStands, ContestsNobody, OnlyHere
    <3> QED
      BY <3>5, <3>6, <3>7 DEF PromptLeaseInv
  <2> QED
    BY <1>1, <2>2, <2>3 DEF AcquireRead
<1>2. CASE AcquireReadFails(i) \/ VerifyReadFails(i)
  <2>1. OwedShrinks
    BY <1>2, OwedDrops DEF AcquireReadFails, VerifyReadFails, PromptLeaseInv
  <2> QED
    BY <1>2, <2>1, RestStep
       DEF AcquireReadFails, VerifyReadFails, Rested, Pause, LeaseTypeOK, PromptLeaseInv,
           LeadsWhere, LeadingAt, ClocksFresh, OnlyHere
<1>3. CASE ContestWrite(i)
  <2>1. lease'.holder = i /\ lease'.left = TTL
    BY <1>3, PromptWrite DEF ContestWrite
  <2>2. OwedShrinks /\ OnlyHere(i) /\ ~leader'[i]
    BY <1>3, OwedKept
       DEF ContestWrite, Pause, OnlyHere, LeaseTypeOK, PromptLeaseInv, LeadsWhere, LeadingAt
  <2> QED
    BY <1>3, <2>1, <2>2, ClaimStep DEF ContestWrite, Pause, LeaseTypeOK
<1>4. CASE ContestWriteFails(i)
  <2>1. lease' = lease \/ (lease'.holder = i /\ lease'.left = TTL)
    BY <1>4, PromptWrite DEF ContestWriteFails, WriteLeaseFails
  <2>2. OwedShrinks /\ OnlyHere(i) /\ ~leader'[i]
    BY <1>4, OwedDrops
       DEF ContestWriteFails, WriteLeaseFails, Pause, OnlyHere, LeaseTypeOK, PromptLeaseInv,
           LeadsWhere, LeadingAt
  <2> QED
    BY <1>4, <2>1, <2>2, ClaimStep DEF ContestWriteFails, Pause, LeaseTypeOK
<1>5. CASE VerifyRead(i)
  <2>1. OnlyHere(i) /\ OwedShrinks /\ Owed' = Owed
    BY <1>5, OwedKept DEF VerifyRead, Pause, OnlyHere, LeaseTypeOK, PromptLeaseInv
  <2>2. CASE Pause(i, "standby", Verify) /\ UNCHANGED <<epoch, leader>>
    BY <1>5, <2>1, <2>2, RestStep
       DEF VerifyRead, Rested, Pause, LeaseTypeOK, PromptLeaseInv, LeadsWhere, LeadingAt,
           ClocksFresh
  <2>3. CASE Won(i) /\ leader' = [leader EXCEPT ![i] = TRUE]
                    /\ pc' = [pc EXCEPT ![i] = "acquired"] /\ UNCHANGED timer
    <3>1. /\ pc'[i] = "acquired" /\ leader'[i] /\ pc[i] = "verify" /\ timer[i] = 0
          /\ lease.holder = i /\ lease' = lease /\ age' = age /\ sinceOk' = sinceOk
      BY <1>5, <2>3 DEF VerifyRead, Rested, Won, LeaseTypeOK
    <3>2. lease.left > Renew + Owed /\ Owed \in Nat /\ lease.left \in Nat
      BY <3>1, OwedBound DEF PromptLeaseInv, ClaimStands, LeaseTypeOK
    <3>3. \A j \in Instances : leader'[j] => j = i
      BY <2>1, <3>1 DEF PromptLeaseInv, LeaseLasts, OnlyHere
    <3>4. \A j \in Instances : pc[j] # "contest"
      BY <3>1 DEF PromptLeaseInv, ContestsNobody
    <3>5. ErrorsCounted' /\ ClocksFresh' /\ LeadsWhere'
      BY <2>1, <3>1 DEF PromptLeaseInv, OwedShrinks, ClocksFresh, LeadsWhere, OnlyHere, LeadingAt
    <3>6. Due(i)' = Renew
      BY <3>1 DEF Due
    <3>7. LeaseLasts'
      BY <2>1, <3>1, <3>2, <3>3, <3>6 DEF LeaseLasts
    <3>8. PatienceLasts'
      BY <3>1, <3>3, <3>5 DEF PatienceLasts, LeadsWhere, LeadingAt
    <3>9. ClaimStands' /\ ContestsNobody'
      BY <2>1, <3>1, <3>4 DEF ClaimStands, ContestsNobody, OnlyHere
    <3> QED
      BY <3>5, <3>7, <3>8, <3>9 DEF PromptLeaseInv
  <2> QED
    BY <1>5, <2>2, <2>3 DEF VerifyRead
<1> QED
  BY <1>1, <1>2, <1>3, <1>4, <1>5

\* No leader finds its lease gone or foreign, or its renewal overdue.
LEMMA LeaderSecure ==
    ASSUME LeaseTypeOK, PromptReplicas, PromptLeaseInv, NEW i \in Instances,
           pc[i] \in {"hold", "holdverify", "renew"}
    PROVE  leader[i] /\ lease # NoLease /\ ~Foreign(i) /\ ~RenewalOverdue(i)
<1>1. leader[i]
  BY DEF PromptLeaseInv, LeadsWhere, LeadingAt
<1>2. Due(i) \in Nat /\ Owed \in Nat /\ sinceOk[i] \in Nat
  BY OwedBound DEF Due, LeaseTypeOK, PromptLeaseInv
<1>3. lease.holder = i /\ lease.left > 0 /\ sinceOk[i] < TTL
  BY <1>1, <1>2 DEF PromptLeaseInv, LeaseLasts, PatienceLasts, LeaseTypeOK
<1> QED
  BY <1>1, <1>2, <1>3 DEF NoLease, Foreign, RenewalOverdue

\* Every step of _hold keeps the invariant.
LEMMA HoldPrompt ==
    ASSUME LeaseTypeOK, LeaseTypeOK', PromptReplicas, PromptLeaseInv, NEW i \in Instances,
           \/ BeginHold(i) \/ HoldRead(i) \/ HoldReadFails(i) \/ HoldVerify(i)
           \/ HoldVerifyFails(i) \/ RenewWrite(i) \/ RenewWriteFails(i)
    PROVE  PromptLeaseInv'
<1>1. Owed \in Nat /\ Verify + Owed + Renew < TTL
  BY OwedBound DEF PromptLeaseInv
<1>2. ErrorsCounted /\ age[i] = 0 /\ Due(i) \in Nat /\ lease.left \in Nat
  BY DEF PromptLeaseInv, ClocksFresh, Due, LeaseTypeOK
<1>3. leader[i]
  BY DEF BeginHold, HoldRead, HoldReadFails, HoldVerify, HoldVerifyFails, RenewWrite,
         RenewWriteFails, Rested, PromptLeaseInv, LeadsWhere, LeadingAt
<1>4. lease.holder = i /\ lease.left > Due(i) + Owed
  BY <1>3 DEF PromptLeaseInv, LeaseLasts
<1>5. pc[i] # "acquired" => sinceOk[i] + Due(i) + Owed < TTL
  BY <1>3 DEF PromptLeaseInv, PatienceLasts, LeadsWhere, LeadingAt
<1>6. CASE BeginHold(i)
  <2>1. /\ OnlyHere(i) /\ leader'[i] /\ pc[i] = "acquired" /\ pc'[i] = "hold" /\ timer'[i] = Renew
        /\ sinceOk'[i] = 0 /\ age' = age /\ lease' = lease /\ UNCHANGED ioErrors
    BY <1>3, <1>6 DEF BeginHold, Pause, OnlyHere, LeaseTypeOK
  <2>2. Due(i) = Renew /\ Due(i)' = Renew
    BY <2>1 DEF Due
  <2> QED
    BY <1>1, <1>2, <1>3, <1>4, <2>1, <2>2, OwedKept, LeaderStep
<1>7. CASE HoldRead(i)
  <2>1. pc[i] = "hold" /\ timer[i] = 0 /\ UNCHANGED <<lease, sinceOk, ioErrors>>
    BY <1>7 DEF HoldRead, Rested
  <2>2. lease # NoLease /\ ~Foreign(i)
    BY <2>1, LeaderSecure
  <2>3. pc' = [pc EXCEPT ![i] = "renew"] /\ UNCHANGED <<timer, leader>>
    BY <1>7, <2>2 DEF HoldRead
  <2>4. OnlyHere(i) /\ leader'[i] /\ pc'[i] = "renew" /\ age'[i] = 0
    BY <1>3, <1>7, <2>3 DEF HoldRead, OnlyHere, LeaseTypeOK
  <2>5. Due(i) = 0 /\ Due(i)' = 0
    BY <2>1, <2>4 DEF Due
  <2> QED
    BY <1>1, <1>2, <1>3, <1>4, <1>5, <2>1, <2>4, <2>5, OwedKept, LeaderStep
<1>8. CASE HoldReadFails(i)
  <2>1. /\ pc[i] = "hold" /\ timer[i] = 0 /\ UNCHANGED <<lease, sinceOk>>
        /\ OnlyHere(i) /\ leader'[i] /\ pc'[i] = "holdverify" /\ timer'[i] = Verify /\ age'[i] = 0
    BY <1>3, <1>8 DEF HoldReadFails, Rested, Pause, OnlyHere, LeaseTypeOK
  <2>2. OwedShrinks /\ Owed' + Renew = Owed /\ Owed' \in Nat
    BY <1>2, <1>8, OwedDrops DEF HoldReadFails
  <2>3. Due(i) = 0 /\ Due(i)' = Verify
    BY <2>1 DEF Due
  <2>4. sinceOk[i] \in Nat
    BY DEF LeaseTypeOK
  <2>5. lease'.left > Due(i)' + Owed' /\ sinceOk'[i] + Due(i)' + Owed' < TTL
    BY <1>2, <1>4, <1>5, <2>1, <2>2, <2>3, <2>4
  <2> QED
    BY <1>3, <2>1, <2>2, <2>5, LeaderStep
<1>9. CASE HoldVerify(i)
  <2>1. pc[i] = "holdverify" /\ timer[i] = 0 /\ UNCHANGED <<lease, sinceOk, ioErrors, timer>>
    BY <1>9 DEF HoldVerify, Rested
  <2>2. ~Foreign(i)
    BY <2>1, LeaderSecure
  <2>3. OnlyHere(i) /\ leader'[i] /\ pc'[i] = "renew" /\ age'[i] = 0
    BY <1>3, <1>9, <2>2 DEF HoldVerify, OnlyHere, LeaseTypeOK
  <2>4. Due(i) = 0 /\ Due(i)' = 0
    BY <2>1, <2>3 DEF Due
  <2> QED
    BY <1>1, <1>2, <1>3, <1>4, <1>5, <2>1, <2>3, <2>4, OwedKept, LeaderStep
<1>10. CASE HoldVerifyFails(i)
  <2>1. /\ pc[i] = "holdverify" /\ timer[i] = 0 /\ UNCHANGED <<lease, sinceOk>>
        /\ OnlyHere(i) /\ leader'[i] /\ pc'[i] = "renew" /\ age'[i] = 0
    BY <1>3, <1>10 DEF HoldVerifyFails, Rested, OnlyHere, LeaseTypeOK
  <2>2. OwedShrinks /\ Owed' + Renew = Owed /\ Owed' \in Nat
    BY <1>2, <1>10, OwedDrops DEF HoldVerifyFails
  <2>3. Due(i) = 0 /\ Due(i)' = 0
    BY <2>1 DEF Due
  <2>4. sinceOk[i] \in Nat
    BY DEF LeaseTypeOK
  <2>5. lease'.left > Due(i)' + Owed' /\ sinceOk'[i] + Due(i)' + Owed' < TTL
    BY <1>2, <1>4, <1>5, <2>1, <2>2, <2>3, <2>4
  <2> QED
    BY <1>3, <2>1, <2>2, <2>5, LeaderStep
<1>11. CASE RenewWrite(i)
  <2>1. lease'.holder = i /\ lease'.left = TTL
    BY <1>11, PromptWrite DEF RenewWrite
  <2>2. /\ OnlyHere(i) /\ leader'[i] /\ pc'[i] = "hold" /\ timer'[i] = Renew /\ sinceOk'[i] = 0
        /\ age'[i] = 0 /\ UNCHANGED ioErrors
    BY <1>2, <1>3, <1>11 DEF RenewWrite, Pause, OnlyHere, LeaseTypeOK
  <2>3. Due(i)' = Renew
    BY <2>2 DEF Due
  <2> QED
    BY <1>1, <1>2, <1>3, <2>1, <2>2, <2>3, OwedKept, LeaderStep
<1>12. CASE RenewWriteFails(i)
  <2>1. pc[i] = "renew" /\ Due(i) = 0
    BY <1>12 DEF RenewWriteFails, Due
  <2>2. ~RenewalOverdue(i)
    BY <2>1, LeaderSecure
  <2>3. lease' = lease \/ (lease'.holder = i /\ lease'.left = TTL)
    BY <1>12, PromptWrite DEF RenewWriteFails, WriteLeaseFails
  <2>4. OwedShrinks /\ Owed' + Renew = Owed /\ Owed' \in Nat
    BY <1>2, <1>12, OwedDrops DEF RenewWriteFails, WriteLeaseFails
  <2>5. sinceOk[i] \in 0..TTL /\ Capped(sinceOk[i] + age[i]) = sinceOk[i]
    BY <1>2 DEF Capped, LeaseTypeOK
  <2>6. /\ OnlyHere(i) /\ leader'[i] /\ pc'[i] = "hold" /\ timer'[i] = Renew /\ age'[i] = 0
        /\ sinceOk'[i] = sinceOk[i]
    BY <1>3, <1>12, <2>2, <2>5 DEF RenewWriteFails, Pause, OnlyHere, LeaseTypeOK
  <2>7. Due(i)' = Renew
    BY <2>6 DEF Due
  <2>8. lease'.left > Due(i)' + Owed' /\ sinceOk'[i] + Due(i)' + Owed' < TTL
    BY <1>1, <1>2, <1>4, <1>5, <2>1, <2>3, <2>4, <2>5, <2>6, <2>7
  <2> QED
    BY <1>3, <1>4, <2>3, <2>4, <2>6, <2>8, LeaderStep
<1> QED
  BY <1>6, <1>7, <1>8, <1>9, <1>10, <1>11, <1>12

\* Giving up, dying and starting again keep the invariant.
LEMMA LeavePrompt ==
    ASSUME LeaseTypeOK, LeaseTypeOK', PromptReplicas, PromptLeaseInv, NEW i \in Instances,
           BackToStandby(i) \/ StopSeen(i) \/ Crash(i) \/ Boot(i)
    PROVE  PromptLeaseInv'
<1>1. OnlyHere(i) /\ lease' = lease /\ age'[i] = 0
  BY DEF BackToStandby, StopSeen, Surrender, Crash, Boot, OnlyHere, LeaseTypeOK,
         PromptLeaseInv, ClocksFresh
<1>2. pc'[i] \in {"standby", "losing", "exited", "down"} /\ ~leader'[i]
  BY DEF BackToStandby, StopSeen, Surrender, Crash, Boot, LeaseTypeOK, PromptLeaseInv,
         LeadsWhere, LeadingAt
<1>3. OwedShrinks
  BY OwedKept DEF BackToStandby, StopSeen, Crash, Boot, PromptLeaseInv
<1> QED
  BY <1>1, <1>2, <1>3, RestStep

\* So does an error, or a stop, that does not touch the coordinators.
LEMMA ElsewherePrompt ==
    ASSUME LeaseTypeOK, PromptReplicas, PromptLeaseInv,
           UNCHANGED <<lease, pc, timer, age, leader, sinceOk>>,
           UNCHANGED ioErrors \/ \E kind \in LeaseFaultKinds : IOError(kind)
    PROVE  PromptLeaseInv'
<1>1. OwedShrinks /\ Owed \in Nat /\ Owed' \in Int
  BY OwedKept, OwedDrops, OwedBound DEF PromptLeaseInv
<1>2. \A i \in Instances : Due(i)' = Due(i) /\ Due(i) \in Nat /\ sinceOk[i] \in Nat
  BY DEF Due, LeaseTypeOK
<1>3. lease.left \in Nat
  BY DEF LeaseTypeOK
<1>4. ErrorsCounted' /\ LeaseLasts' /\ PatienceLasts'
  BY <1>1, <1>2, <1>3 DEF PromptLeaseInv, OwedShrinks, LeaseLasts, PatienceLasts
<1> QED
  BY <1>4 DEF PromptLeaseInv, ClocksFresh, LeadsWhere, ClaimStands, ContestsNobody

\* Time passes only while everybody rests, and runs down lease and pauses alike.
LEMMA TickPrompt ==
    ASSUME LeaseTypeOK, PromptReplicas, PromptLeaseInv, Tick
    PROVE  PromptLeaseInv'
<1>1. \A i \in Instances : Pausing(i)
  BY DEF Tick, PromptReplicas
<1>2. /\ \A i \in Instances : pc[i] \notin {"contest", "renew", "acquired"}
      /\ \A i \in Instances : pc[i] \in {"verify", "hold", "holdverify"} => timer[i] > 0
  BY <1>1 DEF Pausing
<1>3. /\ lease'.holder = lease.holder /\ lease'.left = Down(lease.left)
      /\ UNCHANGED <<pc, leader, ioErrors>>
      /\ \A i \in Instances : timer'[i] = Down(timer[i])
  BY DEF Tick, LeaseTypeOK
<1>4. Owed' = Owed /\ OwedShrinks /\ Owed \in Nat
  BY <1>3, OwedKept, OwedBound DEF PromptLeaseInv
<1>5. ErrorsCounted' /\ LeadsWhere'
  BY <1>3, <1>4 DEF OwedShrinks, PromptLeaseInv, LeadsWhere
<1>6. ClocksFresh'
  BY <1>2 DEF Tick, ClocksFresh
<1>7. \A i \in Instances : timer[i] \in Nat /\ sinceOk[i] \in 0..TTL
  BY DEF LeaseTypeOK
<1>8. lease.left \in Nat
  BY DEF LeaseTypeOK
<1>9. ASSUME NEW i \in Instances, pc[i] \in {"hold", "holdverify"}
      PROVE  Due(i) = timer[i] /\ Due(i)' = timer[i] - 1
  BY <1>2, <1>3, <1>7, <1>9 DEF Due, Down
<1>10. LeaseLasts'
  <2> SUFFICES ASSUME NEW i \in Instances, leader'[i]
               PROVE  lease'.holder = i /\ lease'.left > Due(i)' + Owed'
    BY DEF LeaseLasts
  <2>1. leader[i] /\ pc[i] \in {"hold", "holdverify"}
    BY <1>2, <1>3 DEF PromptLeaseInv, LeadsWhere, LeadingAt
  <2>2. lease.holder = i /\ lease.left > Due(i) + Owed
    BY <2>1 DEF PromptLeaseInv, LeaseLasts
  <2> QED
    BY <1>2, <1>3, <1>4, <1>7, <1>8, <1>9, <2>1, <2>2 DEF Down
<1>11. PatienceLasts'
  <2> SUFFICES ASSUME NEW i \in Instances, pc'[i] \in {"hold", "holdverify", "renew"}
               PROVE  sinceOk'[i] + Due(i)' + Owed' < TTL
    BY DEF PatienceLasts
  <2>1. pc[i] \in {"hold", "holdverify"}
    BY <1>2, <1>3
  <2>2. sinceOk[i] + Due(i) + Owed < TTL
    BY <2>1 DEF PromptLeaseInv, PatienceLasts
  <2>3. sinceOk'[i] = Capped(sinceOk[i] + 1)
    BY <2>1 DEF Tick
  <2> QED
    BY <1>2, <1>4, <1>7, <1>9, <2>1, <2>2, <2>3 DEF Capped
<1>12. ClaimStands'
  <2> SUFFICES ASSUME NEW i \in Instances, pc[i] = "verify", lease.holder = i
               PROVE  lease'.left >= TTL - Verify + timer'[i]
    BY <1>3 DEF ClaimStands
  <2>1. lease.left >= TTL - Verify + timer[i] /\ TTL - Verify > 0
    BY OwedBound DEF PromptLeaseInv, ClaimStands
  <2> QED
    BY <1>2, <1>3, <1>7, <1>8, <2>1 DEF Down
<1>13. ContestsNobody'
  BY <1>2, <1>3 DEF ContestsNobody
<1> QED
  BY <1>5, <1>6, <1>10, <1>11, <1>12, <1>13 DEF PromptLeaseInv

\* Every step of the pair keeps the invariant.
LEMMA PromptStep ==
    ASSUME LeaseTypeOK, LeaseTypeOK', PromptReplicas, PromptLeaseInv, [HaNext]_haVars
    PROVE  PromptLeaseInv'
<1>1. ASSUME UNCHANGED leaseVars PROVE PromptLeaseInv'
  BY <1>1, ElsewherePrompt DEF leaseVars, coordVars
<1>2. ASSUME NEW i \in Instances, CoordStep(i)
      PROVE  PromptLeaseInv'
  BY <1>2, AcquirePrompt, HoldPrompt, LeavePrompt DEF CoordStep
<1>3. ASSUME NEW i \in Instances, OnAcquire(i) \/ OnLose(i) \/ HaCrash(i)
      PROVE  PromptLeaseInv'
  BY <1>3, HoldPrompt, LeavePrompt DEF OnAcquire, OnLose, HaCrash
<1>4. ASSUME NEW i \in Instances, CommitWriteFails(i)
      PROVE  PromptLeaseInv'
  BY <1>4, ElsewherePrompt DEF CommitWriteFails, coordVars, LeaseFaultKinds
<1>5. ASSUME NEW i \in Instances, OnPipelineDone(i) \/ Signal(i)
      PROVE  PromptLeaseInv'
  BY <1>5, ElsewherePrompt DEF OnPipelineDone, Signal
<1>6. ASSUME NEW i \in Instances,
             \/ StopAcquisition(i) \/ Load(i) \/ Push(i) \/ CommitCheck(i)
             \/ CommitWrite(i) \/ PipelineStops(i)
      PROVE  PromptLeaseInv'
  BY <1>1, <1>6 DEF StopAcquisition, Load, Push, CommitCheck, CommitWrite, PipelineStops
<1>7. CASE Environment
  <2>1. ~LeaseLost
    BY DEF LeaseLost, PromptReplicas
  <2> QED
    BY <1>5, <1>7, <2>1, LeavePrompt, TickPrompt DEF Environment, Clock
<1> QED
  BY <1>1, <1>2, <1>3, <1>4, <1>5, <1>6, <1>7 DEF HaNext, Step, Coordinate, haVars

LEMMA PromptAlways == PromptReplicas => (HaSpec => [](LeaseTypeOK /\ PromptLeaseInv))
<1> SUFFICES ASSUME PromptReplicas
             PROVE  HaSpec => [](LeaseTypeOK /\ PromptLeaseInv)
  OBVIOUS
<1>1. HaInit => LeaseTypeOK /\ PromptLeaseInv
  <2> SUFFICES ASSUME HaInit PROVE LeaseTypeOK /\ PromptLeaseInv
    OBVIOUS
  <2>1. LeaseTypeOK
    BY InitType DEF HaInit
  <2> QED
    BY <2>1 DEF HaInit, LeaseInit, PromptLeaseInv, ErrorsCounted, ClocksFresh, LeadsWhere,
                LeadingAt, LeaseLasts, PatienceLasts, ClaimStands, ContestsNobody
<1>2. LeaseTypeOK /\ PromptLeaseInv /\ [HaNext]_haVars => LeaseTypeOK' /\ PromptLeaseInv'
  BY LeaseTypeStep, PromptStep
<1> QED
  BY <1>1, <1>2, PTL DEF HaSpec

\* While replicas are prompt and nobody deletes the lease, two never lead at the same
\* time: a standby supersedes only a lease that ran out, a leader's lease never does,
\* and the verification re-read settles the race between standbys.
THEOREM OneLeader == PromptReplicas => (HaSpec => []AtMostOneLeader)
<1> SUFFICES ASSUME PromptReplicas PROVE HaSpec => []AtMostOneLeader
  OBVIOUS
<1>1. PromptLeaseInv => AtMostOneLeader
  BY DEF PromptLeaseInv, LeaseLasts, AtMostOneLeader
<1> QED
  BY <1>1, PromptAlways, PTL

\* Nor does a leader ever step down for a missed renewal, however many of those that
\* the ttl makes allowance for fail: only a stop or a crash ends its leadership.
THEOREM MissesAreTolerated == PromptReplicas => (HaSpec => SingleMissKeepsLeader)
<1> SUFFICES ASSUME PromptReplicas PROVE HaSpec => SingleMissKeepsLeader
  OBVIOUS
<1>1. LeaseTypeOK /\ PromptLeaseInv /\ [HaNext]_haVars
         => [\A i \in Instances : (leader[i] /\ ~stopping[i] /\ crashes' = crashes)
                => leader'[i]]_leaseVars
  <2> SUFFICES ASSUME LeaseTypeOK, PromptLeaseInv, HaNext, leaseVars' # leaseVars,
                      NEW i \in Instances, leader[i], ~stopping[i], crashes' = crashes
               PROVE  leader'[i]
    BY DEF haVars
  <2>1. pc[i] \in LeadingAt
    BY DEF PromptLeaseInv, LeadsWhere
  <2>2. pc[i] \in {"hold", "holdverify", "renew"} =>
           lease # NoLease /\ ~Foreign(i) /\ ~RenewalOverdue(i)
    BY LeaderSecure
  <2>3. ASSUME NEW j \in Instances, CoordStep(j)
        PROVE  leader'[i]
    <3>1. CASE j = i
      <4>1. HoldRead(i) => leader' = leader
        BY <2>2 DEF HoldRead, Rested
      <4>2. HoldVerify(i) => leader' = leader
        BY <2>2 DEF HoldVerify, Rested
      <4>3. RenewWriteFails(i) => leader' = leader
        BY <2>2 DEF RenewWriteFails
      <4>4. ~StopSeen(i)
        BY DEF StopSeen
      <4>5. ~AcquireRead(i) /\ ~AcquireReadFails(i) /\ ~ContestWrite(i) /\ ~ContestWriteFails(i)
            /\ ~VerifyRead(i) /\ ~VerifyReadFails(i)
        BY <2>1 DEF AcquireRead, AcquireReadFails, ContestWrite, ContestWriteFails, VerifyRead,
                    VerifyReadFails, Rested, LeadingAt
      <4> QED
        BY <2>3, <3>1, <4>1, <4>2, <4>3, <4>4, <4>5
           DEF CoordStep, HoldReadFails, HoldVerifyFails, RenewWrite
    <3>2. CASE j # i
      BY <2>3, <3>2 DEF CoordStep, AcquireRead, AcquireReadFails, ContestWrite,
         ContestWriteFails, VerifyRead, VerifyReadFails, HoldRead, HoldReadFails, HoldVerify,
         HoldVerifyFails, RenewWrite, RenewWriteFails, StopSeen, Surrender, LeaseTypeOK
    <3> QED
      BY <3>1, <3>2
  <2>4. ASSUME NEW j \in Instances, Step(j), ~Coordinate(j)
        PROVE  leader' = leader
    BY <2>4 DEF Step, OnAcquire, BeginHold, OnLose, BackToStandby, StopAcquisition, Load, Push,
                CommitCheck, CommitWrite, CommitWriteFails, OnPipelineDone, PipelineStops,
                leaseVars, coordVars
  <2>5. ASSUME NEW j \in Instances, HaCrash(j) PROVE FALSE
    BY <2>5 DEF HaCrash, Crash, LeaseTypeOK
  <2>6. CASE Environment
    BY <2>6 DEF Environment, Clock, Signal, Boot, LeaseLost, coordVars, Tick
  <2> QED
    BY <2>3, <2>4, <2>5, <2>6 DEF HaNext, Coordinate
<1> QED
  BY <1>1, PromptAlways, PTL DEF HaSpec, SingleMissKeepsLeader

\* With one leader at a time the fence is never needed: nobody moves the shared
\* checkpoint while another instance leads with a newer epoch.
THEOREM NoStaleCommit == PromptReplicas => (HaSpec => StaleNeverCommits)
<1> SUFFICES ASSUME PromptReplicas PROVE HaSpec => StaleNeverCommits
  OBVIOUS
<1>1. LeaseTypeOK /\ PromptLeaseInv /\ FreshInv
         => [\A i, j \in Instances :
                (pipe[i] = "write" /\ pipe'[i] \in {"run", "failed"} /\ doc' # doc /\ leader[j])
                    => epoch[j] <= epoch[i]]_haVars
  BY DEF PromptLeaseInv, LeaseLasts, FreshInv, LeaseTypeOK
<1> QED
  BY <1>1, PromptAlways, FreshAlways, PTL DEF HaSpec, StaleNeverCommits

=============================================================================
