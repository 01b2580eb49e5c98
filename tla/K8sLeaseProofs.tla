--------------------------- MODULE K8sLeaseProofs ---------------------------
(* The Kubernetes Lease, for any number of replicas, any timing that the     *)
(* configuration accepts and any number of outages, crashes and edits.       *)
EXTENDS K8sLease, TLAPS

Standby == {"read", "create", "claim"}
Leading == {"acquired", "hold", "renew"}

KTypeOK ==
    /\ kEnv \in {"prompt", "edited", "stall"}
    /\ holder \in Replicas \cup {Absent, Unheld} /\ idle \in 0 .. Duration
    /\ kpc \in [Replicas -> Standby \cup Leading \cup {"lost", "ended", "down"}]
    /\ rest \in [Replicas -> 0 .. RenewEvery]
    /\ known \in [Replicas -> BOOLEAN] /\ watched \in [Replicas -> BOOLEAN]
    /\ stale \in [Replicas -> 0 .. Duration] /\ since \in [Replicas -> 0 .. Duration]
    /\ lag \in [Replicas -> 0 .. Duration]
    /\ leads \in [Replicas -> BOOLEAN] /\ stopped \in [Replicas -> BOOLEAN]

-----------------------------------------------------------------------------
(* What holds in every environment.                                          *)

\* Leadership is held from the write that wins it to the surrender.
LeadsWhere == \A r \in Replicas : leads[r] <=> kpc[r] \in Leading

\* Only the two polls pause, and only a standby's view of the version is its own.
PausesWhere == \A r \in Replicas : rest[r] > 0 => kpc[r] \in {"read", "hold"}
WatchesWhere == \A r \in Replicas : watched[r] => kpc[r] \in Standby \cup {"ended"}

\* A leader that knows the version is the holder; a deleted Lease is known to nobody.
KnownIsOwn ==
    /\ holder = Absent => \A r \in Replicas : ~known[r]
    /\ \A r \in Replicas : leads[r] /\ known[r] => holder = r

\* A version was observed only after it was written.
ObservedAfterWritten == \A r \in Replicas : watched[r] => stale[r] <= idle

\* What a claim rests on: the version it would replace was stale when read.
ClaimsStale(r) == watched[r] /\ (holder = Unheld \/ stale[r] >= LeaseSeconds)
ClaimsOnlyStale == \A r \in Replicas : kpc[r] = "claim" /\ known[r] => ClaimsStale(r)

K8sInv ==
    /\ KTypeOK /\ LeadsWhere /\ PausesWhere /\ WatchesWhere
    /\ KnownIsOwn /\ ObservedAfterWritten /\ ClaimsOnlyStale

USE K8sLeaseAssumption

LEMMA KInitInv == KInit => K8sInv
BY DEF KInit, K8sInv, KTypeOK, LeadsWhere, PausesWhere, WatchesWhere, KnownIsOwn, ObservedAfterWritten,
       ClaimsOnlyStale, Standby, Leading

LEMMA CapType == \A n \in Nat : Cap(n) \in 0 .. Duration /\ Cap(n) <= n
BY DEF Cap

LEMMA SecondsType == LeaseSeconds \in Int
<1>1. Duration \div Second \in Int
  OBVIOUS
<1> QED
  BY <1>1 DEF LeaseSeconds

\* A write takes the new version away from everybody but its writer.
LEMMA WrittenInv ==
    ASSUME KTypeOK, NEW w, NEW h \in Replicas \cup {Absent, Unheld}, Written(w, h)
    PROVE  /\ holder' = h /\ idle' = 0
           /\ known' \in [Replicas -> BOOLEAN] /\ watched' \in [Replicas -> BOOLEAN]
           /\ \A r \in Replicas : ~watched'[r] /\ (known'[r] <=> r = w)
BY DEF Written

LEMMA ReadInv ==
    ASSUME K8sInv, NEW r \in Replicas, KRead(r) \/ KReadFails(r)
    PROVE  K8sInv'
<1>1. CASE KReadFails(r)
  BY <1>1 DEF KReadFails, At, Goes, RequestFails, apiVars, K8sInv, KTypeOK, LeadsWhere, PausesWhere, WatchesWhere,
              KnownIsOwn, ObservedAfterWritten, ClaimsOnlyStale, ClaimsStale, Standby, Leading
<1>2. CASE KRead(r) /\ holder = Absent
  BY <1>2 DEF KRead, At, Goes, K8sInv, KTypeOK, LeadsWhere, PausesWhere, WatchesWhere,
              KnownIsOwn, ObservedAfterWritten, ClaimsOnlyStale, ClaimsStale, Standby, Leading
<1>3. CASE KRead(r) /\ holder # Absent
  <2>1. PICK o \in 0 .. Duration : o = Observe(r)
    BY DEF Observe, K8sInv, KTypeOK
  <2>2. o <= idle
    BY <2>1 DEF Observe, K8sInv, KTypeOK, ObservedAfterWritten
  <2>3. /\ kpc[r] = "read" /\ ~leads[r]
        /\ stale' = [stale EXCEPT ![r] = o]
        /\ watched' = [watched EXCEPT ![r] = TRUE]
        /\ known' = [known EXCEPT ![r] = TRUE]
        /\ \/ Goes(r, "claim", 0) /\ (holder = Unheld \/ o >= LeaseSeconds)
           \/ Goes(r, "read", RenewEvery)
        /\ UNCHANGED <<holder, idle, since, lag, leads>>
    BY <1>3, <2>1 DEF KRead, At, IsStale, K8sInv, LeadsWhere, Leading
  <2>4. KTypeOK'
    BY <2>3 DEF Goes, K8sInv, KTypeOK, Standby
  <2>5. LeadsWhere' /\ PausesWhere' /\ WatchesWhere'
    BY <2>3 DEF Goes, K8sInv, KTypeOK, LeadsWhere, PausesWhere, WatchesWhere, Standby, Leading
  <2>6. KnownIsOwn' /\ ObservedAfterWritten'
    BY <1>3, <2>2, <2>3 DEF Goes, K8sInv, KTypeOK, KnownIsOwn, ObservedAfterWritten
  <2>7. ClaimsOnlyStale'
    BY <2>3 DEF Goes, K8sInv, KTypeOK, ClaimsOnlyStale, ClaimsStale
  <2> QED
    BY <2>4, <2>5, <2>6, <2>7 DEF K8sInv
<1> QED
  BY <1>1, <1>2, <1>3 DEF KRead

\* Afterwards r leads iff b; nothing changes for the others.
LeadsIff(r, b) ==
    /\ leads' \in [Replicas -> BOOLEAN] /\ (leads'[r] <=> b)
    /\ \A s \in Replicas \ {r} : leads'[s] = leads[s]

\* r wrote: it goes to "where", with the new version or without.
LEMMA WroteInv ==
    ASSUME K8sInv, NEW r \in Replicas, Written(r, r) \/ Written(Absent, r),
           NEW where \in {"acquired", "hold", "read", "lost"}, NEW pause \in 0 .. RenewEvery,
           Goes(r, where, pause), pause > 0 => where \in {"hold", "read"}, LeadsIff(r, where \in Leading),
           UNCHANGED stale, since' \in [Replicas -> 0 .. Duration], lag' \in [Replicas -> 0 .. Duration]
    PROVE  K8sInv'
<1>1. /\ holder' = r /\ idle' = 0
      /\ known' \in [Replicas -> BOOLEAN] /\ watched' \in [Replicas -> BOOLEAN]
      /\ \A s \in Replicas : ~watched'[s] /\ (known'[s] => s = r)
  BY WrittenInv DEF K8sInv
<1>2. KTypeOK'
  <2>1. kpc' \in [Replicas -> Standby \cup Leading \cup {"lost", "ended", "down"}]
    BY DEF Goes, K8sInv, KTypeOK, Standby, Leading
  <2>2. rest' \in [Replicas -> 0 .. RenewEvery]
    BY DEF Goes, K8sInv, KTypeOK
  <2> QED
    BY <1>1, <2>1, <2>2 DEF Goes, LeadsIff, K8sInv, KTypeOK
<1>3. LeadsWhere' /\ PausesWhere' /\ WatchesWhere'
  BY <1>1 DEF Goes, LeadsIff, K8sInv, KTypeOK, LeadsWhere, PausesWhere, WatchesWhere
<1>4. KnownIsOwn' /\ ObservedAfterWritten'
  BY <1>1 DEF KnownIsOwn, ObservedAfterWritten, K8sInv, KTypeOK
<1>5. ClaimsOnlyStale'
  BY <1>1 DEF Goes, K8sInv, KTypeOK, ClaimsOnlyStale
<1> QED
  BY <1>2, <1>3, <1>4, <1>5 DEF K8sInv

\* The Lease is left alone: r goes to "where", from which it does not claim.
LEMMA MovedInv ==
    ASSUME K8sInv, NEW r \in Replicas,
           NEW where \in {"read", "create", "acquired", "hold", "renew", "lost", "ended", "down"},
           NEW pause \in 0 .. RenewEvery, Goes(r, where, pause), pause > 0 => where \in {"hold", "read"},
           LeadsIff(r, where \in Leading), where \in Leading => leads[r],
           where \in {"read", "create", "ended"} \/ ~watched[r],
           UNCHANGED apiVars, UNCHANGED stale, since' \in [Replicas -> 0 .. Duration], lag' \in [Replicas -> 0 .. Duration]
    PROVE  K8sInv'
<1>1. KTypeOK'
  <2>1. kpc' \in [Replicas -> Standby \cup Leading \cup {"lost", "ended", "down"}]
    BY DEF Goes, K8sInv, KTypeOK, Standby, Leading
  <2>2. rest' \in [Replicas -> 0 .. RenewEvery]
    BY DEF Goes, K8sInv, KTypeOK
  <2> QED
    BY <2>1, <2>2 DEF apiVars, Goes, LeadsIff, K8sInv, KTypeOK
<1>2. LeadsWhere' /\ PausesWhere' /\ WatchesWhere'
  BY DEF apiVars, Goes, LeadsIff, K8sInv, KTypeOK, LeadsWhere, PausesWhere, WatchesWhere, Standby
<1>3. KnownIsOwn' /\ ObservedAfterWritten'
  BY DEF apiVars, LeadsIff, KnownIsOwn, ObservedAfterWritten, K8sInv, KTypeOK
<1>4. ClaimsOnlyStale'
  BY DEF apiVars, Goes, K8sInv, KTypeOK, ClaimsOnlyStale, ClaimsStale
<1> QED
  BY <1>1, <1>2, <1>3, <1>4 DEF K8sInv

LEMMA ClaimInv ==
    ASSUME K8sInv, NEW r \in Replicas, KClaim(r) \/ KClaimFails(r)
    PROVE  K8sInv'
<1>1. /\ ~leads[r] /\ UNCHANGED <<stale, since, lag>>
      /\ RenewEvery \in 0 .. RenewEvery /\ 0 \in 0 .. RenewEvery /\ ~(0 > 0)
      /\ since' \in [Replicas -> 0 .. Duration] /\ lag' \in [Replicas -> 0 .. Duration]
  BY DEF KClaim, KClaimFails, At, K8sInv, LeadsWhere, Leading, KTypeOK
<1>2. UNCHANGED leads => LeadsIff(r, "read" \in Leading)
  BY <1>1 DEF LeadsIff, Leading, K8sInv, KTypeOK
<1>3. CASE Written(r, r) /\ Acquired(r)
  <2>1. Goes(r, "acquired", 0) /\ LeadsIff(r, "acquired" \in Leading)
    BY <1>3 DEF Acquired, LeadsIff, Leading, K8sInv, KTypeOK
  <2> QED
    BY <1>1, <1>3, <2>1, WroteInv
<1>4. CASE Written(Absent, r) /\ Goes(r, "read", RenewEvery) /\ UNCHANGED leads
  BY <1>1, <1>2, <1>4, WroteInv
<1>5. CASE UNCHANGED apiVars /\ Goes(r, "read", RenewEvery) /\ UNCHANGED leads
  <2>1. "read" \notin Leading
    BY DEF Leading
  <2> QED
    BY <1>1, <1>2, <1>5, <2>1, MovedInv
<1> QED
  BY <1>3, <1>4, <1>5 DEF KClaim, KClaimFails

\* What surrender does, and what going on as the leader does.
LEMMA LeaderGoes ==
    ASSUME K8sInv, NEW r \in Replicas
    PROVE  /\ Surrender(r) => Goes(r, "lost", 0) /\ LeadsIff(r, "lost" \in Leading)
           /\ "lost" \notin Leading /\ ~(0 > 0) /\ RenewEvery \in 0 .. RenewEvery /\ 0 \in 0 .. RenewEvery
           /\ leads[r] => /\ kpc[r] \in Leading /\ ~watched[r]
                          /\ UNCHANGED leads => /\ LeadsIff(r, "hold" \in Leading) /\ LeadsIff(r, "renew" \in Leading)
<1>1. leads \in [Replicas -> BOOLEAN] /\ (leads[r] => kpc[r] \in Leading)
  BY DEF K8sInv, KTypeOK, LeadsWhere
<1>2. "lost" \notin Leading /\ "hold" \in Leading /\ "renew" \in Leading
  BY DEF Leading
<1>3. leads[r] => ~watched[r]
  BY <1>1 DEF K8sInv, KTypeOK, WatchesWhere, Leading, Standby
<1>4. Surrender(r) => Goes(r, "lost", 0) /\ LeadsIff(r, "lost" \in Leading)
  BY <1>1, <1>2 DEF Surrender, LeadsIff
<1>5. leads[r] /\ UNCHANGED leads => LeadsIff(r, "hold" \in Leading) /\ LeadsIff(r, "renew" \in Leading)
  BY <1>1, <1>2 DEF LeadsIff
<1> QED
  BY <1>1, <1>2, <1>3, <1>4, <1>5

LEMMA RereadInv ==
    ASSUME K8sInv, NEW r \in Replicas, KReread(r)
    PROVE  K8sInv'
<1>1. kpc[r] = "hold" /\ leads[r] /\ ~watched[r] /\ 0 \in 0 .. Duration
  BY DEF KReread, At, K8sInv, LeadsWhere, WatchesWhere, Leading, Standby, KTypeOK
<1>2. since' \in [Replicas -> 0 .. Duration] /\ lag' \in [Replicas -> 0 .. Duration] /\ UNCHANGED stale
  BY <1>1 DEF KReread, K8sInv, KTypeOK
<1>3. CASE Surrender(r) /\ UNCHANGED known
  <2>1. UNCHANGED apiVars
    BY <1>3 DEF KReread, apiVars
  <2> QED
    BY <1>1, <1>2, <1>3, <2>1, LeaderGoes, MovedInv
<1>4. CASE ~Foreign(r) /\ Goes(r, "renew", 0) /\ known' = [known EXCEPT ![r] = @ \/ holder # Absent] /\ UNCHANGED leads
  <2>1. UNCHANGED <<holder, idle, watched>>
    BY DEF KReread
  <2>2. \A s \in Replicas : known'[s] => known[s] \/ (s = r /\ holder = r)
    BY <1>4 DEF Foreign, K8sInv, KTypeOK
  <2>3. KTypeOK'
    <3>1. known' \in [Replicas -> BOOLEAN]
      BY <1>4 DEF K8sInv, KTypeOK
    <3> QED
      BY <1>2, <1>4, <2>1, <3>1 DEF Goes, K8sInv, KTypeOK, Leading
  <2>4. LeadsWhere' /\ PausesWhere' /\ WatchesWhere'
    BY <1>1, <1>4, <2>1 DEF Goes, K8sInv, KTypeOK, LeadsWhere, PausesWhere, WatchesWhere, Leading
  <2>5. KnownIsOwn' /\ ObservedAfterWritten'
    BY <1>2, <1>4, <2>1, <2>2 DEF K8sInv, KTypeOK, KnownIsOwn, ObservedAfterWritten
  <2>6. ClaimsOnlyStale'
    BY <1>1, <1>2, <1>4, <2>1, <2>2 DEF Goes, K8sInv, KTypeOK, ClaimsOnlyStale, ClaimsStale
  <2> QED
    BY <2>3, <2>4, <2>5, <2>6 DEF K8sInv
<1> QED
  BY <1>3, <1>4 DEF KReread

LEMMA RenewInv ==
    ASSUME K8sInv, NEW r \in Replicas, KRenew(r) \/ KRenewFails(r)
    PROVE  K8sInv'
<1>1. /\ kpc[r] = "renew" /\ leads[r] /\ ~watched[r] /\ UNCHANGED stale
      /\ RenewEvery \in 0 .. RenewEvery /\ 0 \in 0 .. RenewEvery /\ 0 \in 0 .. Duration
  BY DEF KRenew, KRenewFails, At, K8sInv, LeadsWhere, WatchesWhere, Leading, Standby, KTypeOK
<1>2. since' \in [Replicas -> 0 .. Duration]
  <2>1. CASE KRenew(r)
    BY <2>1 DEF KRenew, K8sInv, KTypeOK
  <2>2. CASE KRenewFails(r)
    <3>1. Cap(since[r] + lag[r]) \in 0 .. Duration
      BY CapType DEF K8sInv, KTypeOK
    <3> QED
      BY <2>2, <3>1 DEF KRenewFails, K8sInv, KTypeOK
  <2> QED
    BY <2>1, <2>2
<1>3. lag' \in [Replicas -> 0 .. Duration]
  BY <1>1 DEF KRenew, KRenewFails, K8sInv, KTypeOK
<1>4. CASE UNCHANGED apiVars /\ Surrender(r)
  BY <1>1, <1>2, <1>3, <1>4, LeaderGoes, MovedInv
<1>5. CASE UNCHANGED apiVars /\ Goes(r, "hold", RenewEvery) /\ UNCHANGED leads
  BY <1>1, <1>2, <1>3, <1>5, LeaderGoes, MovedInv
<1>6. CASE (Written(r, r) \/ Written(Absent, r)) /\ Surrender(r)
  BY <1>1, <1>2, <1>3, <1>6, LeaderGoes, WroteInv
<1>7. CASE (Written(r, r) \/ Written(Absent, r)) /\ Goes(r, "hold", RenewEvery) /\ UNCHANGED leads
  BY <1>1, <1>2, <1>3, <1>7, LeaderGoes, WroteInv
<1> QED
  BY <1>4, <1>5, <1>6, <1>7 DEF KRenew, KRenewFails

LEMMA CoordinatorInv ==
    ASSUME K8sInv, NEW r \in Replicas, KHold(r) \/ KRereadFails(r) \/ KLost(r) \/ KStops(r)
    PROVE  K8sInv'
<1>1. /\ RenewEvery \in 0 .. RenewEvery /\ 0 \in 0 .. RenewEvery /\ 0 \in 0 .. Duration
      /\ UNCHANGED apiVars /\ UNCHANGED stale
  BY DEF KHold, KRereadFails, KLost, KStops
<1>2. since' \in [Replicas -> 0 .. Duration] /\ lag' \in [Replicas -> 0 .. Duration]
  BY <1>1 DEF KHold, KRereadFails, KLost, KStops, K8sInv, KTypeOK
<1>3. CASE KHold(r) \/ KRereadFails(r)
  <2>1. leads[r] /\ UNCHANGED leads
    BY <1>3 DEF KHold, KRereadFails, At, K8sInv, LeadsWhere, Leading
  <2>2. Goes(r, "hold", RenewEvery) \/ Goes(r, "renew", 0)
    BY <1>3 DEF KHold, KRereadFails
  <2> QED
    BY <1>1, <1>2, <2>1, <2>2, LeaderGoes, MovedInv
<1>4. CASE KLost(r) \/ (KStops(r) /\ kpc[r] = "read")
  <2>1. /\ Goes(r, "read", 0) \/ Goes(r, "ended", 0)
        /\ LeadsIff(r, "read" \in Leading) /\ LeadsIff(r, "ended" \in Leading)
        /\ "read" \notin Leading /\ "ended" \notin Leading
    BY <1>4 DEF KLost, KStops, At, LeadsIff, K8sInv, LeadsWhere, Leading, KTypeOK
  <2> QED
    BY <1>1, <1>2, <2>1, LeaderGoes, MovedInv
<1>5. CASE KStops(r) /\ kpc[r] = "hold"
  <2>1. Surrender(r) /\ leads[r]
    BY <1>5 DEF KStops, K8sInv, LeadsWhere, Leading
  <2> QED
    BY <1>1, <1>2, <2>1, LeaderGoes, MovedInv
<1> QED
  BY <1>3, <1>4, <1>5 DEF KStops

LEMMA CrashInv ==
    ASSUME K8sInv, NEW r \in Replicas, KCrash(r)
    PROVE  K8sInv'
BY DEF KCrash, Goes, K8sInv, KTypeOK, LeadsWhere, PausesWhere, WatchesWhere, KnownIsOwn, ObservedAfterWritten,
       ClaimsOnlyStale, ClaimsStale, Standby, Leading

LEMMA EnvironmentInv ==
    ASSUME K8sInv, NEW r \in Replicas, KSignal(r) \/ KCut(r) \/ KHeal(r) \/ KRestart(r)
    PROVE  K8sInv'
<1>1. UNCHANGED <<kEnv, apiVars, rest, stale, since, lag, leads>>
  BY DEF KSignal, KCut, KHeal, KRestart
<1>2. CASE UNCHANGED kpc
  <2>1. stopped' \in [Replicas -> BOOLEAN]
    BY DEF KSignal, KCut, KHeal, KRestart, K8sInv, KTypeOK
  <2> QED
    BY <1>1, <1>2, <2>1 DEF apiVars, K8sInv, KTypeOK, LeadsWhere, PausesWhere, WatchesWhere, KnownIsOwn,
                            ObservedAfterWritten, ClaimsOnlyStale, ClaimsStale
<1>3. CASE KRestart(r)
  <2>1. kpc[r] = "down" /\ kpc' = [kpc EXCEPT ![r] = "read"] /\ stopped' = [stopped EXCEPT ![r] = FALSE]
    BY <1>3 DEF KRestart
  <2> QED
    BY <1>1, <2>1 DEF apiVars, K8sInv, KTypeOK, LeadsWhere, PausesWhere, WatchesWhere, KnownIsOwn,
                      ObservedAfterWritten, ClaimsOnlyStale, ClaimsStale, Standby, Leading
<1> QED
  BY <1>2, <1>3 DEF KSignal, KCut, KHeal

LEMMA EditInv ==
    ASSUME K8sInv, KEdit
    PROVE  K8sInv'
<1>1. PICK h \in {Absent, Unheld} : Written(Absent, h)
  BY DEF KEdit
<1>2. /\ holder' = h /\ idle' = 0
      /\ known' \in [Replicas -> BOOLEAN] /\ watched' \in [Replicas -> BOOLEAN]
      /\ \A s \in Replicas : ~watched'[s] /\ ~known'[s]
  BY <1>1, WrittenInv DEF K8sInv
<1> QED
  BY <1>2 DEF KEdit, K8sInv, KTypeOK, LeadsWhere, PausesWhere, WatchesWhere, KnownIsOwn,
              ObservedAfterWritten, ClaimsOnlyStale

LEMMA TickInv ==
    ASSUME K8sInv, KTick
    PROVE  K8sInv'
<1>1. /\ rest' = [r \in Replicas |-> IF rest[r] > 0 THEN rest[r] - 1 ELSE 0]
      /\ idle' = Cap(idle + 1)
      /\ stale' = [r \in Replicas |-> IF watched[r] THEN Cap(stale[r] + 1) ELSE 0]
      /\ since' = [r \in Replicas |-> IF kpc[r] = "hold" THEN Cap(since[r] + 1) ELSE since[r]]
      /\ lag' = [r \in Replicas |-> IF kpc[r] = "renew" THEN Cap(lag[r] + 1) ELSE 0]
      /\ UNCHANGED <<kEnv, holder, known, watched, kpc, leads, stopped>>
  BY DEF KTick
<1>2. KTypeOK'
  <2>1. idle' \in 0 .. Duration /\ stale' \in [Replicas -> 0 .. Duration]
        /\ since' \in [Replicas -> 0 .. Duration] /\ lag' \in [Replicas -> 0 .. Duration]
    BY <1>1, CapType DEF K8sInv, KTypeOK
  <2>2. rest' \in [Replicas -> 0 .. RenewEvery]
    BY <1>1 DEF K8sInv, KTypeOK
  <2> QED
    BY <1>1, <2>1, <2>2 DEF K8sInv, KTypeOK
<1>3. LeadsWhere' /\ PausesWhere' /\ WatchesWhere' /\ KnownIsOwn'
  BY <1>1 DEF K8sInv, KTypeOK, LeadsWhere, PausesWhere, WatchesWhere, KnownIsOwn
<1>4. ASSUME NEW r \in Replicas, watched[r]
      PROVE  stale'[r] <= idle' /\ stale[r] <= stale'[r]
  <2>1. stale[r] \in 0 .. Duration /\ idle \in 0 .. Duration /\ stale[r] <= idle
    BY <1>4 DEF K8sInv, KTypeOK, ObservedAfterWritten
  <2> QED
    BY <1>1, <1>4, <2>1 DEF Cap
<1>5. ObservedAfterWritten'
  BY <1>1, <1>4 DEF ObservedAfterWritten
<1>6. ClaimsOnlyStale'
  <2> SUFFICES ASSUME NEW r \in Replicas, kpc[r] = "claim", known[r] PROVE ClaimsStale(r)'
    BY <1>1 DEF ClaimsOnlyStale
  <2>1. ClaimsStale(r) /\ stale[r] \in Int /\ stale'[r] \in Int
    BY <1>2 DEF K8sInv, KTypeOK, ClaimsOnlyStale
  <2> QED
    BY <1>1, <1>4, <2>1, SecondsType DEF ClaimsStale
<1> QED
  BY <1>2, <1>3, <1>5, <1>6 DEF K8sInv

\* Every step keeps the invariant.
LEMMA KNextInv == K8sInv /\ [KNext]_kVars => K8sInv'
<1> SUFFICES ASSUME K8sInv, [KNext]_kVars PROVE K8sInv'
  OBVIOUS
<1>1. CASE UNCHANGED kVars
  BY <1>1 DEF kVars, apiVars, K8sInv, KTypeOK, LeadsWhere, PausesWhere, WatchesWhere, KnownIsOwn,
              ObservedAfterWritten, ClaimsOnlyStale, ClaimsStale
<1>2. CASE \E r \in Replicas : KStep(r)
  BY <1>2, ReadInv, ClaimInv, RereadInv, RenewInv, CoordinatorInv DEF KStep
<1>3. CASE \E r \in Replicas : KFault(r) \/ KRestart(r) \/ KHeal(r)
  BY <1>3, CrashInv, EnvironmentInv DEF KFault
<1> QED
  BY <1>1, <1>2, <1>3, EditInv, TickInv DEF KNext

\* Whatever stalls, fails or is edited, a replica takes the Lease from another only
\* after a whole lease duration without a write.
THEOREM TakeoverAlwaysWaits == KSpec => TakeoverWaits
<1>1. K8sInv /\ [KNext]_kVars => ((holder \in Replicas /\ holder' \in Replicas \ {holder}) => idle >= LeaseSeconds)
  <2> SUFFICES ASSUME K8sInv, KNext, holder \in Replicas, holder' \in Replicas, holder' # holder
               PROVE  idle >= LeaseSeconds
    BY DEF kVars, apiVars
  <2>1. PICK r \in Replicas : KStep(r) \/ KFault(r) \/ KRestart(r) \/ KHeal(r)
    BY DEF KNext, KEdit, KTick, Written
  <2>2. holder # Absent /\ holder # Unheld
    OBVIOUS
  <2>3. /\ KClaim(r) \/ KClaimFails(r) \/ KRenew(r) \/ KRenewFails(r)
        /\ holder' = r
    BY <2>1 DEF KStep, KFault, KRead, KHold, KReread, KLost, KReadFails, KRereadFails, KStops, KSignal, KCrash, KCut,
                KRestart, KHeal, apiVars, KClaim, KClaimFails, KRenew, KRenewFails, Written
  <2>4. CASE KClaim(r) \/ KClaimFails(r)
    <3>1. Writable(r)
      BY <2>3, <2>4 DEF KClaim, KClaimFails, apiVars
    <3>2. kpc[r] = "claim" /\ known[r]
      BY <2>2, <3>1 DEF Writable, ClaimAccepted
    <3>3. stale[r] >= LeaseSeconds /\ stale[r] <= idle /\ stale[r] \in Int /\ idle \in Int
      BY <2>2, <3>2 DEF K8sInv, KTypeOK, ClaimsOnlyStale, ClaimsStale, ObservedAfterWritten
    <3> QED
      BY <3>3, SecondsType
  <2>5. CASE KRenew(r) \/ KRenewFails(r)
    <3>1. ClaimAccepted(r) /\ leads[r]
      BY <2>3, <2>5 DEF KRenew, KRenewFails, apiVars, At, K8sInv, LeadsWhere, Leading
    <3> QED
      BY <2>3, <3>1 DEF ClaimAccepted, K8sInv, KnownIsOwn
  <2> QED
    BY <2>3, <2>4, <2>5
<1> QED
  BY <1>1, KInitInv, KNextInv, PTL DEF KSpec, TakeoverWaits

-----------------------------------------------------------------------------
(* Prompt replicas: who may lead when.                                       *)

\* The Lease states its duration exactly.
WholeSeconds == LeaseSeconds = Duration

\* Both polls run at the renew interval: a replica wakes after a multiple of it, the
\* leader since its last renewal, the standby since it first saw a version, and does
\* not sleep on from a poll at which the duration was over.
Polls == {k * RenewEvery : k \in Nat}
LastPoll(x) == x \in Polls /\ x < Duration + RenewEvery

\* The age of something, capped at Duration, when the next poll is in t.
Paced(age, t) ==
    IF age < Duration THEN LastPoll(age + t) ELSE \E x \in Polls : LastPoll(x) /\ Duration + t <= x

Holds(r) == leads[r] /\ holder = r

TimesNothing == \A r \in Replicas : lag[r] = 0 /\ (leads[r] => holder \in Replicas)
LeaderPaced == \A r \in Replicas : Holds(r) /\ kpc[r] # "acquired" => Paced(since[r], rest[r])
StandbyPaced ==
    \A s \in Replicas : kpc[s] \in Standby /\ watched[s] /\ stale[s] < Duration => LastPoll(stale[s] + rest[s])

\* The leader has had no answer for as long as a standby has seen no renewal, and
\* when both have waited long enough it is the leader who wakes first.
WakesFirst(r, s) ==
    IF kpc[r] = "acquired" THEN stale[s] = 0
    ELSE stale[s] <= since[r] /\ (stale[s] = Duration => rest[r] <= rest[s])
LeaderWakesFirst == \A r, s \in Replicas : Holds(r) /\ kpc[s] \in Standby /\ watched[s] => WakesFirst(r, s)

\* A leader that was superseded is at the poll at which it gives up, or stopped.
GivingUp(r) == rest[r] = 0 /\ kpc[r] # "acquired" /\ since[r] = Duration
SupersededGivesUp == \A r \in Replicas : leads[r] /\ holder # r => stopped[r] \/ GivingUp(r)

PromptInv == TimesNothing /\ LeaderPaced /\ StandbyPaced /\ LeaderWakesFirst /\ SupersededGivesUp

\* The multiples of the renew interval.
LEMMA PollsSteps ==
    /\ Polls \subseteq Nat /\ 0 \in Polls
    /\ \A x \in Polls : x + RenewEvery \in Polls
    /\ \A x, y \in Polls : x < y => x + RenewEvery <= y
<1>1. \A k \in Nat : k * RenewEvery \in Nat
  OBVIOUS
<1>2. Polls \subseteq Nat
  BY <1>1 DEF Polls
<1>3. 0 \in Polls
  <2>1. 0 * RenewEvery = 0
    OBVIOUS
  <2> QED
    BY <2>1 DEF Polls
<1>4. ASSUME NEW x \in Polls
      PROVE  x + RenewEvery \in Polls
  <2>1. PICK k \in Nat : x = k * RenewEvery
    BY DEF Polls
  <2>2. (k + 1) * RenewEvery = x + RenewEvery /\ k + 1 \in Nat
    BY <2>1
  <2> QED
    BY <2>2 DEF Polls
<1>5. ASSUME NEW x \in Polls, NEW y \in Polls, x < y
      PROVE  x + RenewEvery <= y
  <2>1. PICK k \in Nat, l \in Nat : x = k * RenewEvery /\ y = l * RenewEvery
    BY DEF Polls
  <2>2. k < l
    <3>1. SUFFICES ASSUME l <= k PROVE FALSE
      OBVIOUS
    <3>2. PICK d \in Nat : k = l + d
      BY <3>1
    <3>3. k * RenewEvery = l * RenewEvery + d * RenewEvery /\ d * RenewEvery \in Nat /\ l * RenewEvery \in Nat
      BY <3>2
    <3> QED
      BY <1>5, <2>1, <3>3
  <2>3. PICK d \in Nat : l = k + 1 + d
    BY <2>2
  <2>4. l * RenewEvery = k * RenewEvery + RenewEvery + d * RenewEvery
        /\ d * RenewEvery \in Nat /\ k * RenewEvery \in Nat
    BY <2>3
  <2> QED
    BY <2>1, <2>4
<1> QED
  BY <1>2, <1>3, <1>4, <1>5

\* There is one last poll at or after the end of the duration.
LEMMA OneLastPoll ==
    ASSUME NEW x, NEW y, LastPoll(x), LastPoll(y), Duration <= x, Duration <= y
    PROVE  x = y
<1>1. x \in Nat /\ y \in Nat /\ (x < y => x + RenewEvery <= y) /\ (y < x => y + RenewEvery <= x)
  BY PollsSteps DEF LastPoll
<1> QED
  BY <1>1 DEF LastPoll

\* At a poll before the end of the duration, one more pause is kept.
LEMMA OneMorePause ==
    ASSUME NEW x \in 0 .. Duration, x < Duration, LastPoll(x)
    PROVE  LastPoll(x + RenewEvery)
BY PollsSteps DEF LastPoll

LEMMA FirstPause == LastPoll(RenewEvery) /\ LastPoll(0) /\ 0 < Duration
<1>1. 0 \in Polls /\ 0 + RenewEvery \in Polls
  BY PollsSteps
<1> QED
  BY <1>1 DEF LastPoll

\* A tick of a paced pause.
LEMMA PacedTick ==
    ASSUME NEW age \in 0 .. Duration, NEW t \in 1 .. RenewEvery, Paced(age, t)
    PROVE  Paced(Cap(age + 1), t - 1)
<1>1. CASE age + 1 < Duration
  <2>1. Cap(age + 1) = age + 1 /\ (age + 1) + (t - 1) = age + t
    BY <1>1 DEF Cap
  <2> QED
    BY <1>1, <2>1 DEF Paced
<1>2. CASE age + 1 = Duration
  <2>1. Cap(age + 1) = Duration /\ Duration + (t - 1) = age + t /\ LastPoll(age + t)
    BY <1>2 DEF Cap, Paced
  <2> QED
    BY <2>1 DEF Paced, LastPoll
<1>3. CASE age = Duration
  <2>1. Cap(age + 1) = Duration
    BY <1>3 DEF Cap
  <2>2. PICK x \in Polls : LastPoll(x) /\ Duration + t <= x
    BY <1>3 DEF Paced
  <2>3. Duration + (t - 1) <= x
    BY <2>2, PollsSteps
  <2> QED
    BY <2>1, <2>2, <2>3 DEF Paced
<1> QED
  BY <1>1, <1>2, <1>3

-----------------------------------------------------------------------------
(* Prompt replicas: every step keeps it.                                     *)

\* Nothing changes for the others.
OthersStay(q) ==
    /\ holder' = holder
    /\ \A r \in Replicas \ {q} : /\ kpc'[r] = kpc[r] /\ rest'[r] = rest[r] /\ leads'[r] = leads[r]
                                 /\ stale'[r] = stale[r] /\ since'[r] = since[r] /\ lag'[r] = lag[r]
                                 /\ stopped'[r] = stopped[r] /\ (watched'[r] => watched[r])

\* A poll of a standby: it sees a new version, or has waited on.
Polled(q) ==
    /\ rest'[q] \in {0, RenewEvery}
    /\ stale'[q] = 0 \/ (kpc[q] \in Standby /\ watched[q] /\ stale'[q] = stale[q] /\ rest[q] = 0)

\* A step of a replica that does not lead.
LEMMA StandbyStep ==
    ASSUME K8sInv, PromptInv, NEW q \in Replicas, OthersStay(q), ~leads[q], ~leads'[q], lag'[q] = 0,
           (kpc'[q] \in Standby /\ watched'[q]) => Polled(q)
    PROVE  PromptInv'
<1>1. \A r \in Replicas : leads'[r] => r # q /\ leads[r]
  BY DEF OthersStay
<1>2. TimesNothing'
  BY <1>1 DEF PromptInv, TimesNothing, OthersStay
<1>3. LeaderPaced'
  BY <1>1 DEF PromptInv, LeaderPaced, Holds, OthersStay, Paced
<1>4. SupersededGivesUp'
  BY <1>1 DEF PromptInv, SupersededGivesUp, GivingUp, OthersStay
<1>5. /\ stale[q] \in 0 .. Duration /\ rest[q] \in 0 .. RenewEvery
      /\ \A r \in Replicas : since[r] \in 0 .. Duration /\ rest[r] \in 0 .. RenewEvery
  BY DEF K8sInv, KTypeOK
<1>6. StandbyPaced'
  <2> SUFFICES ASSUME NEW s \in Replicas, kpc'[s] \in Standby, watched'[s], stale'[s] < Duration
               PROVE  LastPoll(stale'[s] + rest'[s])
    BY DEF StandbyPaced
  <2>1. CASE s # q
    BY <2>1 DEF PromptInv, StandbyPaced, OthersStay
  <2>2. CASE s = q /\ stale'[q] = 0
    <3>1. stale'[q] + rest'[q] \in {0, RenewEvery}
      BY <2>2 DEF Polled
    <3> QED
      BY <2>2, <3>1, FirstPause
  <2>3. CASE s = q /\ stale'[q] # 0
    <3>1. kpc[q] \in Standby /\ watched[q] /\ stale'[q] = stale[q] /\ rest[q] = 0 /\ rest'[q] \in {0, RenewEvery}
      BY <2>3 DEF Polled
    <3>2. LastPoll(stale[q] + 0) /\ stale[q] + 0 = stale[q]
      BY <1>5, <2>3, <3>1 DEF PromptInv, StandbyPaced
    <3>3. LastPoll(stale[q] + RenewEvery)
      BY <1>5, <2>3, <3>1, <3>2, OneMorePause
    <3> QED
      BY <2>3, <3>1, <3>2, <3>3
  <2> QED
    BY <2>1, <2>2, <2>3
<1>7. LeaderWakesFirst'
  <2> SUFFICES ASSUME NEW r \in Replicas, NEW s \in Replicas, Holds(r)', kpc'[s] \in Standby, watched'[s]
               PROVE  WakesFirst(r, s)'
    BY DEF LeaderWakesFirst
  <2>1. r # q /\ Holds(r) /\ kpc'[r] = kpc[r] /\ since'[r] = since[r] /\ rest'[r] = rest[r]
    BY <1>1 DEF Holds, OthersStay
  <2>2. CASE s # q
    BY <2>1, <2>2 DEF PromptInv, LeaderWakesFirst, WakesFirst, OthersStay
  <2>3. CASE s = q /\ stale'[q] = 0
    BY <1>5, <2>1, <2>3, FirstPause DEF WakesFirst
  <2>4. CASE s = q /\ stale'[q] # 0
    <3>1. kpc[q] \in Standby /\ watched[q] /\ stale'[q] = stale[q] /\ rest[q] = 0 /\ rest'[q] \in {0, RenewEvery}
      BY <2>4 DEF Polled
    <3>2. WakesFirst(r, q)
      BY <2>1, <3>1 DEF PromptInv, LeaderWakesFirst
    <3> QED
      BY <1>5, <2>1, <2>4, <3>1, <3>2 DEF WakesFirst
  <2> QED
    BY <2>2, <2>3, <2>4
<1> QED
  BY <1>2, <1>3, <1>4, <1>6, <1>7 DEF PromptInv

\* A replica that stops leading, or dies.
LEMMA GoneStep ==
    ASSUME K8sInv, PromptInv, NEW q \in Replicas, OthersStay(q), ~leads'[q], lag'[q] = 0, kpc'[q] \notin Standby
    PROVE  PromptInv'
<1>1. \A r \in Replicas : leads'[r] => r # q /\ leads[r]
  BY DEF OthersStay
<1>2. \A s \in Replicas : kpc'[s] \in Standby => s # q
  OBVIOUS
<1>3. TimesNothing' /\ StandbyPaced'
  BY <1>1, <1>2 DEF PromptInv, TimesNothing, StandbyPaced, OthersStay
<1>4. LeaderPaced' /\ SupersededGivesUp'
  BY <1>1 DEF PromptInv, LeaderPaced, Holds, SupersededGivesUp, GivingUp, OthersStay, Paced
<1>5. LeaderWakesFirst'
  BY <1>1, <1>2 DEF PromptInv, LeaderWakesFirst, WakesFirst, Holds, OthersStay
<1> QED
  BY <1>3, <1>4, <1>5 DEF PromptInv

\* The leader goes on: it re-reads, starts to hold, or pauses after a failed renewal.
LeaderPoll(q) ==
    \/ kpc[q] # "acquired" /\ since'[q] = since[q] /\ rest'[q] = rest[q]
    \/ kpc[q] = "acquired" /\ since'[q] = 0 /\ rest'[q] = RenewEvery
    \/ kpc[q] # "acquired" /\ since'[q] = since[q] /\ since[q] < Duration /\ rest[q] = 0 /\ rest'[q] = RenewEvery

LEMMA LeaderStep ==
    ASSUME K8sInv, PromptInv, NEW q \in Replicas, OthersStay(q), leads[q], leads'[q], lag'[q] = 0,
           kpc'[q] \in {"hold", "renew"}, LeaderPoll(q), stopped'[q] = stopped[q]
    PROVE  PromptInv'
<1>1. \A s \in Replicas : kpc'[s] \in Standby => s # q
  BY DEF Standby
<1>2. TimesNothing' /\ StandbyPaced'
  BY <1>1 DEF PromptInv, TimesNothing, StandbyPaced, OthersStay
<1>3. stale \in [Replicas -> 0 .. Duration] /\ since[q] \in 0 .. Duration /\ rest[q] \in 0 .. RenewEvery
  BY DEF K8sInv, KTypeOK
<1>4. ASSUME Holds(q), kpc[q] # "acquired"
      PROVE  Paced(since[q], rest[q])
  BY <1>4 DEF PromptInv, LeaderPaced
<1>5. LeaderPaced'
  <2> SUFFICES ASSUME NEW r \in Replicas, Holds(r)', kpc'[r] # "acquired"
               PROVE  Paced(since'[r], rest'[r])
    BY DEF LeaderPaced, Paced
  <2>1. CASE r # q
    BY <2>1 DEF PromptInv, LeaderPaced, Holds, OthersStay
  <2>2. CASE r = q /\ since'[q] = since[q] /\ rest'[q] = rest[q] /\ kpc[q] # "acquired"
    BY <1>4, <2>2 DEF Holds, OthersStay
  <2>3. CASE r = q /\ since'[q] = 0 /\ rest'[q] = RenewEvery
    <3>1. 0 + RenewEvery = RenewEvery
      OBVIOUS
    <3> QED
      BY <2>3, <3>1, FirstPause DEF Paced
  <2>4. CASE r = q /\ since'[q] = since[q] /\ since[q] < Duration /\ rest[q] = 0 /\ rest'[q] = RenewEvery
             /\ kpc[q] # "acquired"
    <3>1. Paced(since[q], 0)
      BY <1>4, <2>4 DEF Holds, OthersStay
    <3>2. LastPoll(since[q])
      <4>1. since[q] + 0 = since[q]
        BY <1>3
      <4> QED
        BY <2>4, <3>1, <4>1 DEF Paced
    <3>3. LastPoll(since[q] + RenewEvery)
      BY <1>3, <2>4, <3>2, OneMorePause
    <3> QED
      BY <2>4, <3>3 DEF Paced
  <2> QED
    BY <2>1, <2>2, <2>3, <2>4 DEF LeaderPoll
<1>6. LeaderWakesFirst'
  <2> SUFFICES ASSUME NEW r \in Replicas, NEW s \in Replicas, Holds(r)', kpc'[s] \in Standby, watched'[s]
               PROVE  WakesFirst(r, s)'
    BY DEF LeaderWakesFirst
  <2>1. s # q /\ kpc[s] \in Standby /\ watched[s] /\ stale'[s] = stale[s] /\ rest'[s] = rest[s] /\ Holds(r)
    BY <1>1 DEF OthersStay, Holds
  <2>2. WakesFirst(r, s)
    BY <2>1 DEF PromptInv, LeaderWakesFirst
  <2>3. CASE r # q
    BY <2>1, <2>2, <2>3 DEF WakesFirst, OthersStay
  <2>4. CASE r = q
    BY <1>3, <2>1, <2>2, <2>4, FirstPause DEF WakesFirst, LeaderPoll
  <2> QED
    BY <2>3, <2>4
<1>7. SupersededGivesUp'
  <2> SUFFICES ASSUME NEW r \in Replicas, leads'[r], holder' # r
               PROVE  stopped'[r] \/ GivingUp(r)'
    BY DEF SupersededGivesUp
  <2>1. leads[r] /\ holder # r
    BY DEF OthersStay
  <2>2. stopped[r] \/ GivingUp(r)
    BY <2>1 DEF PromptInv, SupersededGivesUp
  <2>3. CASE r # q
    BY <2>2, <2>3 DEF GivingUp, OthersStay
  <2>4. CASE r = q
    BY <1>3, <2>2, <2>4 DEF GivingUp, LeaderPoll
  <2> QED
    BY <2>3, <2>4
<1> QED
  BY <1>2, <1>5, <1>6, <1>7 DEF PromptInv

\* A write by q when no leader but q, or one that gives up, is left.
LEMMA WriteStep ==
    ASSUME K8sInv, PromptInv, NEW q \in Replicas, Written(q, q) \/ Written(Absent, q), lag'[q] = 0,
           \A r \in Replicas \ {q} : /\ kpc'[r] = kpc[r] /\ rest'[r] = rest[r] /\ leads'[r] = leads[r]
                                     /\ since'[r] = since[r] /\ lag'[r] = lag[r] /\ stopped'[r] = stopped[r]
                                     /\ leads[r] => stopped[r] \/ GivingUp(r),
           leads'[q] /\ kpc'[q] # "acquired" => Paced(since'[q], rest'[q])
    PROVE  PromptInv'
<1>1. holder' = q /\ \A s \in Replicas : ~watched'[s]
  BY WrittenInv DEF K8sInv
<1>2. TimesNothing'
  BY <1>1 DEF PromptInv, TimesNothing
<1>3. LeaderPaced'
  BY <1>1 DEF LeaderPaced, Holds, Paced
<1>4. StandbyPaced' /\ LeaderWakesFirst'
  BY <1>1 DEF StandbyPaced, LeaderWakesFirst
<1>5. SupersededGivesUp'
  BY <1>1 DEF SupersededGivesUp, GivingUp
<1> QED
  BY <1>2, <1>3, <1>4, <1>5 DEF PromptInv

\* The replica q goes somewhere and the Lease is left alone.
LEMMA GoesStays ==
    ASSUME K8sInv, NEW q \in Replicas, NEW where, NEW pause, Goes(q, where, pause), UNCHANGED holder,
           \A s \in Replicas \ {q} : /\ leads'[s] = leads[s] /\ stale'[s] = stale[s] /\ since'[s] = since[s]
                                     /\ lag'[s] = lag[s] /\ (watched'[s] => watched[s])
    PROVE  OthersStay(q) /\ kpc'[q] = where /\ rest'[q] = pause /\ stopped' = stopped
BY DEF Goes, OthersStay, K8sInv, KTypeOK

LEMMA ReadPrompt ==
    ASSUME K8sInv, PromptInv, NEW q \in Replicas, KRead(q) \/ KReadFails(q)
    PROVE  PromptInv'
<1>1. kpc[q] = "read" /\ rest[q] = 0 /\ kpc[q] \in Standby /\ ~leads[q] /\ UNCHANGED <<holder, leads, since, lag>>
  BY DEF KRead, KReadFails, At, apiVars, Standby, K8sInv, LeadsWhere, Leading
<1>2. ~leads'[q] /\ lag'[q] = 0
  BY <1>1 DEF PromptInv, TimesNothing
<1>3. CASE KReadFails(q) \/ (KRead(q) /\ holder = Absent)
  <2>1. Goes(q, "create", 0) /\ UNCHANGED <<watched, stale>>
    BY <1>3 DEF KRead, KReadFails, apiVars
  <2>2. OthersStay(q) /\ rest'[q] = 0
    BY <1>1, <2>1, GoesStays
  <2> QED
    BY <1>1, <1>2, <2>1, <2>2, StandbyStep DEF Polled
<1>4. CASE KRead(q) /\ holder # Absent
  <2>1. /\ stale' = [stale EXCEPT ![q] = Observe(q)] /\ watched' = [watched EXCEPT ![q] = TRUE]
        /\ Goes(q, "claim", 0) \/ Goes(q, "read", RenewEvery)
    BY <1>4 DEF KRead
  <2>2. /\ \A s \in Replicas \ {q} : stale'[s] = stale[s] /\ watched'[s] = watched[s]
        /\ stale'[q] = IF watched[q] THEN stale[q] ELSE 0
    BY <2>1 DEF Observe, K8sInv, KTypeOK
  <2>3. OthersStay(q) /\ rest'[q] \in {0, RenewEvery}
    BY <1>1, <2>1, <2>2, GoesStays
  <2> QED
    BY <1>1, <1>2, <2>2, <2>3, StandbyStep DEF Polled
<1> QED
  BY <1>3, <1>4 DEF KRead

\* A claim that is accepted replaces a Lease that nobody renews any more.
LEMMA ClaimPrompt ==
    ASSUME K8sInv, PromptInv, WholeSeconds, NEW q \in Replicas, KClaim(q) \/ KClaimFails(q)
    PROVE  PromptInv'
<1>1. kpc[q] \in {"create", "claim"} /\ kpc[q] \in Standby /\ rest[q] = 0 /\ ~leads[q] /\ UNCHANGED <<stale, since, lag>>
  BY DEF KClaim, KClaimFails, At, Standby, K8sInv, LeadsWhere, Leading
<1>2. lag'[q] = 0
  BY <1>1 DEF PromptInv, TimesNothing
<1>3. CASE UNCHANGED apiVars /\ Goes(q, "read", RenewEvery) /\ UNCHANGED leads
  <2>1. OthersStay(q) /\ rest'[q] = RenewEvery /\ watched' = watched
    BY <1>1, <1>3, GoesStays DEF apiVars
  <2> QED
    BY <1>1, <1>2, <1>3, <2>1, StandbyStep DEF Polled
<1>4. CASE Writable(q) /\ (Written(q, q) \/ Written(Absent, q))
           /\ (Acquired(q) \/ (Goes(q, "read", RenewEvery) /\ UNCHANGED leads))
  <2>1. ASSUME NEW r \in Replicas \ {q}, leads[r]
        PROVE  stopped[r] \/ GivingUp(r)
    <3>1. holder \in Replicas /\ holder # Absent /\ holder # Unheld
      BY <2>1 DEF PromptInv, TimesNothing
    <3>2. CASE holder # r
      BY <2>1, <3>2 DEF PromptInv, SupersededGivesUp
    <3>3. CASE holder = r
      <4>1. kpc[q] = "claim" /\ known[q]
        BY <1>4, <3>1 DEF Writable, ClaimAccepted
      <4>2. watched[q] /\ stale[q] >= Duration
        BY <3>1, <4>1 DEF K8sInv, ClaimsOnlyStale, ClaimsStale, WholeSeconds
      <4>3. WakesFirst(r, q)
        BY <1>1, <2>1, <3>3, <4>2 DEF PromptInv, LeaderWakesFirst, Holds
      <4>4. stale[q] \in 0 .. Duration /\ since[r] \in 0 .. Duration /\ rest[r] \in 0 .. RenewEvery
        BY DEF K8sInv, KTypeOK
      <4> QED
        BY <1>1, <4>2, <4>3, <4>4, FirstPause DEF WakesFirst, GivingUp
    <3> QED
      BY <3>2, <3>3
  <2>2. /\ \A r \in Replicas \ {q} : /\ kpc'[r] = kpc[r] /\ rest'[r] = rest[r] /\ leads'[r] = leads[r]
                                     /\ stopped'[r] = stopped[r]
        /\ leads'[q] => kpc'[q] = "acquired"
    BY <1>1, <1>4 DEF Acquired, Goes, K8sInv, KTypeOK
  <2> QED
    BY <1>1, <1>2, <1>4, <2>1, <2>2, WriteStep
<1> QED
  BY <1>3, <1>4 DEF KClaim, KClaimFails

\* Surrender, with nothing else but q's own clocks changed.
LEMMA SurrenderPrompt ==
    ASSUME K8sInv, PromptInv, NEW q \in Replicas, Surrender(q), UNCHANGED <<holder, watched, stale>>, lag'[q] = 0,
           \A s \in Replicas \ {q} : since'[s] = since[s] /\ lag'[s] = lag[s]
    PROVE  PromptInv'
<1>1. /\ Goes(q, "lost", 0) /\ ~leads'[q] /\ \A s \in Replicas \ {q} : leads'[s] = leads[s]
  BY DEF Surrender, K8sInv, KTypeOK
<1>2. OthersStay(q) /\ kpc'[q] \notin Standby
  BY <1>1, GoesStays DEF Standby
<1> QED
  BY <1>1, <1>2, GoneStep

LEMMA HoldPrompt ==
    ASSUME K8sInv, PromptInv, NEW q \in Replicas, KHold(q) \/ KReread(q) \/ KRereadFails(q)
    PROVE  PromptInv'
<1>1. /\ leads[q] /\ rest[q] = 0 /\ UNCHANGED <<holder, watched, stale>>
      /\ kpc[q] = IF KHold(q) THEN "acquired" ELSE "hold"
  BY DEF KHold, KReread, KRereadFails, At, apiVars, K8sInv, LeadsWhere, Leading
<1>2. lag'[q] = 0 /\ \A s \in Replicas \ {q} : since'[s] = since[s] /\ lag'[s] = lag[s]
  BY DEF KHold, KReread, KRereadFails, PromptInv, TimesNothing, K8sInv, KTypeOK
<1>3. CASE KHold(q)
  <2>1. OthersStay(q) /\ kpc'[q] = "hold" /\ rest'[q] = RenewEvery /\ stopped' = stopped /\ leads' = leads
    BY <1>1, <1>2, <1>3, GoesStays DEF KHold
  <2>2. since'[q] = 0
    BY <1>3 DEF KHold, K8sInv, KTypeOK
  <2> QED
    BY <1>1, <1>2, <1>3, <2>1, <2>2, LeaderStep DEF LeaderPoll
<1>4. CASE ~KHold(q) /\ Goes(q, "renew", 0) /\ UNCHANGED leads
  <2>1. OthersStay(q) /\ kpc'[q] = "renew" /\ rest'[q] = 0 /\ stopped' = stopped
    BY <1>1, <1>2, <1>4, GoesStays
  <2>2. since' = since
    BY <1>4 DEF KReread, KRereadFails
  <2> QED
    BY <1>1, <1>2, <1>4, <2>1, <2>2, LeaderStep DEF LeaderPoll
<1>5. CASE Surrender(q)
  BY <1>1, <1>2, <1>5, SurrenderPrompt
<1> QED
  BY <1>3, <1>4, <1>5 DEF KReread, KRereadFails

LEMMA RenewPrompt ==
    ASSUME K8sInv, PromptInv, NEW q \in Replicas, KRenew(q) \/ KRenewFails(q)
    PROVE  PromptInv'
<1>1. kpc[q] = "renew" /\ leads[q] /\ rest[q] = 0 /\ lag[q] = 0 /\ stale' = stale
  BY DEF KRenew, KRenewFails, At, K8sInv, LeadsWhere, Leading, PromptInv, TimesNothing
<1>2. lag'[q] = 0 /\ \A s \in Replicas \ {q} : since'[s] = since[s] /\ lag'[s] = lag[s]
  BY DEF KRenew, KRenewFails, K8sInv, KTypeOK
<1>3. since[q] \in 0 .. Duration /\ (KRenewFails(q) => since'[q] = since[q])
  <2>1. since[q] \in 0 .. Duration /\ since[q] + 0 = since[q]
    BY DEF K8sInv, KTypeOK
  <2>2. Cap(since[q] + lag[q]) = since[q]
    BY <1>1, <2>1 DEF Cap
  <2> QED
    BY <2>1, <2>2 DEF KRenewFails, K8sInv, KTypeOK
<1>4. CASE UNCHANGED apiVars /\ Surrender(q)
  BY <1>1, <1>2, <1>4, SurrenderPrompt DEF apiVars
<1>5. CASE KRenewFails(q) /\ UNCHANGED apiVars /\ ~GivesUp(q) /\ Goes(q, "hold", RenewEvery) /\ UNCHANGED leads
  <2>1. OthersStay(q) /\ kpc'[q] = "hold" /\ rest'[q] = RenewEvery /\ stopped' = stopped
    BY <1>1, <1>2, <1>5, GoesStays DEF apiVars
  <2>2. since[q] < Duration
    BY <1>3, <1>5 DEF GivesUp
  <2> QED
    BY <1>1, <1>2, <1>3, <1>5, <2>1, <2>2, LeaderStep DEF LeaderPoll
<1>6. CASE ClaimAccepted(q) /\ (Written(q, q) \/ Written(Absent, q))
           /\ (Surrender(q) \/ (Goes(q, "hold", RenewEvery) /\ UNCHANGED leads /\ (KRenew(q) \/ ~GivesUp(q))))
  <2>1. holder = q
    BY <1>1, <1>6 DEF ClaimAccepted, K8sInv, KnownIsOwn
  <2>2. \A r \in Replicas \ {q} : leads[r] => stopped[r] \/ GivingUp(r)
    BY <2>1 DEF PromptInv, SupersededGivesUp
  <2>3. \A r \in Replicas \ {q} : /\ kpc'[r] = kpc[r] /\ rest'[r] = rest[r] /\ leads'[r] = leads[r]
                                  /\ stopped'[r] = stopped[r]
    BY <1>6 DEF Surrender, Goes, K8sInv, KTypeOK
  <2>4. leads'[q] => Paced(since'[q], rest'[q])
    <3>1. CASE Surrender(q)
      BY <3>1 DEF Surrender, K8sInv, KTypeOK
    <3>2. CASE Goes(q, "hold", RenewEvery) /\ KRenew(q) /\ ~Surrender(q)
      <4>1. since'[q] = 0 /\ rest'[q] = RenewEvery /\ 0 + RenewEvery = RenewEvery
        BY <1>1, <3>2 DEF KRenew, Goes, K8sInv, KTypeOK
      <4> QED
        BY <4>1, FirstPause DEF Paced
    <3>3. CASE Goes(q, "hold", RenewEvery) /\ KRenewFails(q) /\ ~GivesUp(q)
      <4>1. Paced(since[q], rest[q]) /\ since[q] < Duration /\ rest'[q] = RenewEvery /\ since[q] + 0 = since[q]
        BY <1>1, <1>3, <2>1, <3>3 DEF PromptInv, LeaderPaced, Holds, GivesUp, Goes, K8sInv, KTypeOK
      <4>2. LastPoll(since[q] + RenewEvery)
        BY <1>1, <1>3, <4>1, OneMorePause DEF Paced
      <4> QED
        BY <1>3, <3>3, <4>1, <4>2 DEF Paced
    <3> QED
      BY <1>6, <3>1, <3>2, <3>3
  <2> QED
    BY <1>2, <1>6, <2>2, <2>3, <2>4, WriteStep
<1> QED
  BY <1>4, <1>5, <1>6 DEF KRenew, KRenewFails

LEMMA LeavePrompt ==
    ASSUME K8sInv, PromptInv, NEW q \in Replicas, KLost(q) \/ KStops(q)
    PROVE  PromptInv'
<1>1. UNCHANGED <<holder, watched, stale, since, lag>> /\ lag'[q] = 0
  BY DEF KLost, KStops, apiVars, PromptInv, TimesNothing
<1>2. CASE Surrender(q)
  BY <1>1, <1>2, SurrenderPrompt
<1>3. CASE ~leads[q] /\ UNCHANGED leads /\ Goes(q, "ended", 0)
  <2>1. OthersStay(q) /\ kpc'[q] \notin Standby
    BY <1>1, <1>3, GoesStays DEF Standby
  <2> QED
    BY <1>1, <1>3, <2>1, GoneStep
<1>4. CASE kpc[q] = "lost" /\ UNCHANGED leads /\ Goes(q, "read", 0)
  <2>1. ~leads[q] /\ ~watched[q]
    BY <1>4 DEF K8sInv, LeadsWhere, WatchesWhere, Leading, Standby
  <2>2. OthersStay(q)
    BY <1>1, <1>4, GoesStays
  <2> QED
    BY <1>1, <1>4, <2>1, <2>2, StandbyStep
<1>5. kpc[q] = "read" => ~leads[q]
  BY DEF K8sInv, LeadsWhere, Leading
<1> QED
  BY <1>2, <1>3, <1>4, <1>5 DEF KLost, KStops, At

LEMMA EnvironmentPrompt ==
    ASSUME K8sInv, PromptInv, NEW q \in Replicas, KCrash(q) \/ KRestart(q) \/ KSignal(q) \/ KCut(q) \/ KHeal(q)
    PROVE  PromptInv'
<1>1. CASE KCrash(q)
  <2>1. OthersStay(q) /\ ~leads'[q] /\ lag'[q] = 0 /\ kpc'[q] = "down"
    BY <1>1 DEF KCrash, Goes, OthersStay, K8sInv, KTypeOK
  <2> QED
    BY <2>1, GoneStep DEF Standby
<1>2. CASE KRestart(q)
  <2>1. ~leads[q] /\ ~watched[q]
    BY <1>2 DEF KRestart, K8sInv, LeadsWhere, WatchesWhere, Leading, Standby
  <2>2. OthersStay(q) /\ ~leads'[q] /\ lag'[q] = 0 /\ ~watched'[q]
    BY <1>2, <2>1 DEF KRestart, apiVars, OthersStay, K8sInv, KTypeOK, PromptInv, TimesNothing
  <2> QED
    BY <2>1, <2>2, StandbyStep
<1>3. CASE KSignal(q) \/ KCut(q) \/ KHeal(q)
  <2>1. /\ UNCHANGED <<holder, watched, kpc, rest, stale, since, lag, leads>>
        /\ \A r \in Replicas : stopped[r] => stopped'[r]
    BY <1>3 DEF KSignal, KCut, KHeal, apiVars, K8sInv, KTypeOK
  <2>2. TimesNothing' /\ StandbyPaced'
    BY <2>1 DEF PromptInv, TimesNothing, StandbyPaced
  <2>3. LeaderPaced' /\ SupersededGivesUp'
    BY <2>1 DEF PromptInv, LeaderPaced, Holds, Paced, SupersededGivesUp, GivingUp
  <2>4. LeaderWakesFirst'
    BY <2>1 DEF PromptInv, LeaderWakesFirst, Holds, WakesFirst
  <2> QED
    BY <2>2, <2>3, <2>4 DEF PromptInv
<1> QED
  BY <1>1, <1>2, <1>3

\* When time passes, every leader is the holder and pauses, and the standbys that
\* have just waited long enough do not wake before it.
LEMMA TickPrompt ==
    ASSUME K8sInv, PromptInv, kEnv = "prompt", KTick
    PROVE  PromptInv'
<1>1. /\ rest' = [r \in Replicas |-> IF rest[r] > 0 THEN rest[r] - 1 ELSE 0]
      /\ stale' = [r \in Replicas |-> IF watched[r] THEN Cap(stale[r] + 1) ELSE 0]
      /\ since' = [r \in Replicas |-> IF kpc[r] = "hold" THEN Cap(since[r] + 1) ELSE since[r]]
      /\ lag' = [r \in Replicas |-> IF kpc[r] = "renew" THEN Cap(lag[r] + 1) ELSE 0]
      /\ UNCHANGED <<holder, watched, kpc, leads, stopped>>
      /\ \A r \in Replicas : Waiting(r)
  BY DEF KTick
<1>2. /\ rest \in [Replicas -> 0 .. RenewEvery] /\ stale \in [Replicas -> 0 .. Duration]
      /\ since \in [Replicas -> 0 .. Duration]
  BY DEF K8sInv, KTypeOK
<1>3. ASSUME NEW r \in Replicas, leads[r]
      PROVE  kpc[r] = "hold" /\ rest[r] \in 1 .. RenewEvery /\ ~stopped[r] /\ Holds(r)
  <2>1. kpc[r] \in Leading
    BY <1>3 DEF K8sInv, LeadsWhere
  <2>2. rest[r] > 0 /\ ~stopped[r]
    BY <1>1, <2>1 DEF Waiting, Leading
  <2>3. kpc[r] = "hold"
    BY <2>1, <2>2 DEF Leading, K8sInv, PausesWhere
  <2>4. holder = r
    BY <1>3, <2>2 DEF PromptInv, SupersededGivesUp, GivingUp
  <2> QED
    BY <1>2, <1>3, <2>2, <2>3, <2>4 DEF Holds
<1>4. ASSUME NEW s \in Replicas, kpc[s] \in Standby
      PROVE  rest[s] \in 1 .. RenewEvery
  BY <1>1, <1>2, <1>4 DEF Waiting, Standby
<1>5. TimesNothing'
  <2>1. \A r \in Replicas : kpc[r] # "renew"
    BY <1>3 DEF K8sInv, LeadsWhere, Leading
  <2> QED
    BY <1>1, <2>1 DEF PromptInv, TimesNothing
<1>6. ASSUME NEW r \in Replicas, leads[r]
      PROVE  /\ Paced(since[r], rest[r]) /\ since'[r] = Cap(since[r] + 1) /\ rest'[r] = rest[r] - 1
             /\ Paced(since'[r], rest'[r])
  <2>1. kpc[r] = "hold" /\ rest[r] \in 1 .. RenewEvery /\ Holds(r)
    BY <1>3, <1>6
  <2>2. Paced(since[r], rest[r])
    BY <2>1 DEF PromptInv, LeaderPaced
  <2>3. since'[r] = Cap(since[r] + 1) /\ rest'[r] = rest[r] - 1
    BY <1>1, <2>1
  <2> QED
    BY <1>2, <2>1, <2>2, <2>3, PacedTick
<1>7. LeaderPaced'
  BY <1>1, <1>6 DEF LeaderPaced, Holds, Paced
<1>8. ASSUME NEW s \in Replicas, kpc[s] \in Standby, watched[s]
      PROVE  /\ stale'[s] = Cap(stale[s] + 1) /\ rest'[s] = rest[s] - 1
             /\ stale[s] < Duration => LastPoll(stale[s] + rest[s])
  BY <1>1, <1>4, <1>8 DEF PromptInv, StandbyPaced
<1>9. StandbyPaced'
  <2> SUFFICES ASSUME NEW s \in Replicas, kpc[s] \in Standby, watched[s], stale'[s] < Duration
               PROVE  LastPoll(stale'[s] + rest'[s])
    BY <1>1 DEF StandbyPaced
  <2>1. stale[s] \in 0 .. Duration /\ rest[s] \in 1 .. RenewEvery
    BY <1>2, <1>4
  <2>2. stale[s] < Duration /\ stale'[s] + rest'[s] = stale[s] + rest[s]
    BY <1>8, <2>1 DEF Cap
  <2> QED
    BY <1>8, <2>2
<1>10. LeaderWakesFirst'
  <2> SUFFICES ASSUME NEW r \in Replicas, NEW s \in Replicas, Holds(r), kpc[s] \in Standby, watched[s]
               PROVE  stale'[s] <= since'[r] /\ (stale'[s] = Duration => rest'[r] <= rest'[s])
    BY <1>1, <1>3 DEF LeaderWakesFirst, WakesFirst, Holds
  <2>1. leads[r] /\ kpc[r] = "hold"
    BY <1>3 DEF Holds
  <2>2. stale[s] <= since[r] /\ (stale[s] = Duration => rest[r] <= rest[s])
    BY <2>1 DEF PromptInv, LeaderWakesFirst, WakesFirst
  <2>3. /\ stale[s] \in 0 .. Duration /\ rest[s] \in 1 .. RenewEvery
        /\ since[r] \in 0 .. Duration /\ rest[r] \in 1 .. RenewEvery
    BY <1>2, <1>3, <1>4, <2>1
  <2>4. stale'[s] <= since'[r]
    BY <1>6, <1>8, <2>1, <2>2, <2>3 DEF Cap
  <2>5. CASE stale[s] = Duration
    BY <1>6, <1>8, <2>1, <2>2, <2>3, <2>4, <2>5
  <2>6. CASE stale[s] < Duration /\ stale'[s] = Duration
    <3>1. stale[s] + 1 = Duration
      BY <1>8, <2>3, <2>6 DEF Cap
    <3>2. PICK y \in Nat : y = Duration + rest'[s] /\ LastPoll(y) /\ Duration <= y
      <4>1. stale[s] + rest[s] = Duration + rest'[s] /\ rest'[s] \in Nat
        BY <1>8, <2>3, <3>1
      <4> QED
        BY <1>8, <2>6, <4>1
    <3>3. since'[r] = Duration
      BY <1>6, <2>1, <2>2, <2>3, <3>1 DEF Cap
    <3>4. rest'[r] \in Nat
      BY <1>6, <2>1, <2>3
    <3>5. PICK x \in Polls : LastPoll(x) /\ Duration + rest'[r] <= x
      BY <1>6, <2>1, <3>3 DEF Paced
    <3>6. x \in Nat /\ Duration <= x
      BY <3>4, <3>5, PollsSteps
    <3>7. x = y
      BY <3>2, <3>5, <3>6, OneLastPoll
    <3> QED
      BY <1>8, <2>3, <2>4, <3>2, <3>4, <3>5, <3>7
  <2>7. CASE stale[s] < Duration /\ stale'[s] # Duration
    BY <2>4, <2>7
  <2> QED
    BY <2>3, <2>4, <2>5, <2>6, <2>7
<1>11. SupersededGivesUp'
  BY <1>1, <1>3 DEF SupersededGivesUp, Holds
<1> QED
  BY <1>5, <1>7, <1>9, <1>10, <1>11 DEF PromptInv

\* While replicas are prompt, nobody edits the Lease and it states its duration
\* exactly, two replicas lead only at the instant the older one wakes to find out.
THEOREM PromptLeaderAlone == WholeSeconds => (KSpec => []SoleLeader)
<1> SUFFICES ASSUME WholeSeconds PROVE KSpec => []SoleLeader
  OBVIOUS
<1> DEFINE Inv == K8sInv /\ (kEnv = "prompt" => PromptInv)
<1>1. KInit => Inv
  BY KInitInv DEF KInit, PromptInv, TimesNothing, LeaderPaced, Holds, StandbyPaced, LeaderWakesFirst, SupersededGivesUp
<1>2. Inv /\ [KNext]_kVars => Inv'
  <2> SUFFICES ASSUME K8sInv, [KNext]_kVars, kEnv' = "prompt", kEnv = "prompt" => PromptInv
               PROVE  PromptInv'
    BY KNextInv
  <2>1. kEnv = "prompt"
    BY DEF KNext, KStep, KFault, KRead, KClaim, Acquired, KHold, KReread, KRenew, KLost, KReadFails, KClaimFails,
           KRereadFails, KRenewFails, KStops, Surrender, Goes, KSignal, KCrash, KCut, KRestart, KHeal, KEdit, KTick,
           kVars
  <2>2. PromptInv
    BY <2>1
  <2>3. CASE UNCHANGED kVars
    BY <2>2, <2>3 DEF kVars, apiVars, PromptInv, TimesNothing, LeaderPaced, Holds, Paced, StandbyPaced,
                      LeaderWakesFirst, WakesFirst, SupersededGivesUp, GivingUp
  <2>4. CASE \E r \in Replicas : KStep(r)
    BY <2>2, <2>4, ReadPrompt, ClaimPrompt, HoldPrompt, RenewPrompt, LeavePrompt DEF KStep
  <2>5. CASE \E r \in Replicas : KFault(r) \/ KRestart(r) \/ KHeal(r)
    BY <2>2, <2>5, EnvironmentPrompt DEF KFault
  <2>6. CASE KTick
    BY <2>1, <2>2, <2>6, TickPrompt
  <2>7. ~KEdit
    BY <2>1 DEF KEdit
  <2> QED
    BY <2>3, <2>4, <2>5, <2>6, <2>7 DEF KNext
<1>3. Inv => SoleLeader
  <2> SUFFICES ASSUME K8sInv, PromptInv, NEW r \in Replicas, NEW s \in Replicas, leads[r], leads[s], holder # r,
                      Waiting(r)
               PROVE  FALSE
    BY DEF SoleLeader
  <2>1. kpc[r] \in Leading
    BY DEF K8sInv, LeadsWhere
  <2>2. stopped[r] \/ rest[r] = 0
    BY DEF PromptInv, SupersededGivesUp, GivingUp
  <2> QED
    BY <2>1, <2>2 DEF Waiting, Leading, K8sInv, KTypeOK
<1> QED
  BY <1>1, <1>2, <1>3, PTL DEF KSpec

=============================================================================
