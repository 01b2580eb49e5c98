------------------------------- MODULE OrgAuth -------------------------------
(***************************************************************************)
(* Salesforce sessions and the orgs that share a process: the token cache  *)
(* (auth/jwt_auth.py, TokenProvider), the requests of its callers and      *)
(* their one retry on a 401 (salesforce/soql_client.py, limits_client.py), *)
(* the startup probe (app.py, App.run and _probe_orgs), the supervisor of  *)
(* an org's source (sources/org_adapter.py, OrgSource) and the org's view  *)
(* of the checkpoints (state/org_view.py).                                 *)
(*                                                                         *)
(* What matters of a token is whether Salesforce still honours it.  An org *)
(* is up when its token endpoint mints and its API answers.  A source's    *)
(* poll is one request; a poller is the limits poller                      *)
(* (obs/limits_poller.py).                                                 *)
(***************************************************************************)
EXTENDS Integers, Sequences, FiniteSets

CONSTANTS
    Orgs,         \* the configured orgs
    FirstOrg,     \* the first of them, the org of a single-org configuration
    Sources,      \* one source per org and category
    Pollers,      \* one limits poller per org
    OrgOf,        \* [Sources \cup Pollers -> Orgs]
    MaxRevokes,   \* bound on sessions Salesforce ends
    MaxRestarts   \* bound on restarts nobody's failure caused

Tasks == Sources \cup Pollers

ASSUME OrgAuthAssumption ==
    /\ FirstOrg \in Orgs
    /\ OrgOf \in [Tasks -> Orgs]
    /\ MaxRevokes \in Nat /\ MaxRestarts \in Nat

VARIABLES
    multi,     \* orgs: is configured
    up,        \* the orgs that are up
    phase,     \* "probe" or "run"
    probed,    \* the orgs whose startup probe is over
    failed,    \* the orgs it failed for: _degraded_orgs
    cached,    \* [Orgs -> _cached: "none", "live", "ended" or "old" (near expiry)]
    lock,      \* [Orgs -> the holder of _lock and those that wait for it, in order]
    doing,     \* [Tasks -> where it is]
    token,     \* [Tasks -> the token of its request: "none", "live" or "ended"]
    retried,   \* [Tasks -> the request is the retry after a 401]
    unlucky,   \* [Tasks -> Salesforce ended the session again since that 401]
    fed,       \* [Tasks -> its last request succeeded]
    revokes, restarts

sessionVars == <<cached, lock, doing, token, retried, unlucky, fed>>
boundVars == <<revokes, restarts>>
oaVars == <<multi, up, phase, probed, failed, sessionVars, boundVars>>

Active == IF multi THEN Orgs ELSE {FirstOrg}

OaInit ==
    /\ multi \in BOOLEAN /\ up = Orgs
    /\ phase = "probe" /\ probed = {} /\ failed = {}
    /\ cached = [o \in Orgs |-> "none"] /\ lock = [o \in Orgs |-> <<>>]
    /\ doing = [t \in Tasks |-> "start"]
    /\ token = [t \in Tasks |-> "none"] /\ retried = [t \in Tasks |-> FALSE]
    /\ unlucky = [t \in Tasks |-> FALSE] /\ fed = [t \in Tasks |-> FALSE]
    /\ revokes = 0 /\ restarts = 0

(* App.run: startup *)

\* token() of the probes, which run at the same time.
OaProbe(o) ==
    /\ phase = "probe" /\ o \in Active \ probed
    /\ probed' = probed \cup {o}
    /\ \/ o \in up /\ cached' = [cached EXCEPT ![o] = "live"] /\ UNCHANGED failed
       \/ o \notin up /\ failed' = failed \cup {o} /\ UNCHANGED cached
    /\ UNCHANGED <<multi, up, phase, lock, doing, token, retried, unlucky, fed, boundVars>>

\* The process ends, and is started again with nothing in memory.
Restarted ==
    /\ phase' = "probe" /\ probed' = {} /\ failed' = {}
    /\ cached' = [o \in Orgs |-> "none"] /\ lock' = [o \in Orgs |-> <<>>]
    /\ doing' = [t \in Tasks |-> "start"]
    /\ token' = [t \in Tasks |-> "none"] /\ retried' = [t \in Tasks |-> FALSE]
    /\ unlucky' = [t \in Tasks |-> FALSE] /\ fed' = [t \in Tasks |-> FALSE]

\* The probe raises when every org failed; otherwise the pipeline starts.
OaProbed ==
    /\ phase = "probe" /\ probed = Active
    /\ \/ failed = Active /\ Restarted
       \/ /\ failed # Active /\ phase' = "run"
          /\ UNCHANGED <<probed, failed, sessionVars>>
    /\ UNCHANGED <<multi, up, boundVars>>

\* A crash, a deployment, or a change between the two configurations.
OaRestart ==
    /\ restarts < MaxRestarts /\ restarts' = restarts + 1
    /\ Restarted
    /\ multi' \in BOOLEAN
    /\ UNCHANGED <<up, revokes>>

(* A request: token(), the request, the retry *)

Runs(t) == phase = "run" /\ OrgOf[t] \in Active

Does(t, what) == doing' = [doing EXCEPT ![t] = what]

\* events() of the inner source begins, or begins again; a poller begins.
OaStart(t) ==
    /\ Runs(t) /\ doing[t] = "start"
    /\ Does(t, "idle")
    /\ UNCHANGED <<multi, up, phase, probed, failed, cached, lock, token, retried, unlucky, fed,
                   boundVars>>

\* _is_valid
Valid(c) == c \in {"live", "ended"}
HasToken(o) == Valid(cached[o])

\* token(), up to where it awaits: the fast path, the free lock, or the queue for it.
CallsToken(t) ==
    LET o == OrgOf[t] IN
    IF Valid(cached'[o])
      THEN /\ Does(t, "sent")
           /\ token' = [token EXCEPT ![t] = cached'[o]]
           /\ UNCHANGED lock
      ELSE /\ Does(t, IF lock[o] = <<>> THEN "mint" ELSE "lock")
           /\ token' = [token EXCEPT ![t] = "none"]
           /\ lock' = [lock EXCEPT ![o] = Append(@, t)]

\* The next poll.
OaRequest(t) ==
    /\ Runs(t) /\ doing[t] = "idle"
    /\ UNCHANGED cached
    /\ CallsToken(t)
    /\ fed' = [fed EXCEPT ![t] = FALSE]
    /\ UNCHANGED <<multi, up, phase, probed, failed, retried, unlucky, boundVars>>

Release(o) == lock' = [lock EXCEPT ![o] = Tail(@)]

\* Mutant: the cache is not looked at again under the lock.
CheckedOnce(o) == FALSE
\* The check inside the lock.
CheckedTwice(o) == HasToken(o)

\* The lock is ours: another caller may have minted while we waited.
OaLocked(t) ==
    LET o == OrgOf[t] IN
    /\ Runs(t) /\ doing[t] = "lock" /\ Head(lock[o]) = t
    /\ \/ /\ CheckedTwice(o) /\ Does(t, "sent") /\ Release(o)
          /\ token' = [token EXCEPT ![t] = cached[o]]
       \/ ~CheckedTwice(o) /\ Does(t, "mint") /\ UNCHANGED <<token, lock>>
    /\ UNCHANGED <<multi, up, phase, probed, failed, cached, retried, unlucky, fed, boundVars>>

\* One of the attempts of _mint_token succeeds.
OaMint(t) ==
    LET o == OrgOf[t] IN
    /\ Runs(t) /\ doing[t] = "mint" /\ o \in up
    /\ cached' = [cached EXCEPT ![o] = "live"]
    /\ token' = [token EXCEPT ![t] = "live"]
    /\ Does(t, "sent") /\ Release(o)
    /\ UNCHANGED <<multi, up, phase, probed, failed, retried, unlucky, fed, boundVars>>

\* The request is over: its token and the state of its retry are forgotten.
Over(t, next) ==
    /\ Does(t, next)
    /\ token' = [token EXCEPT ![t] = "none"]
    /\ retried' = [retried EXCEPT ![t] = FALSE] /\ unlucky' = [unlucky EXCEPT ![t] = FALSE]

\* Mutant: the error reaches the pipeline, and the process, of several orgs too.
SupervisedNever(t) == t \in Pollers
\* Who survives an AuthError: the limits poller, and a source inside an OrgSource.
Supervised(t) == t \in Pollers \/ multi

\* The poller waits for its next poll; the inner source backs off and begins again.
AfterAuthError(t) == IF t \in Pollers THEN "idle" ELSE "start"

\* 4xx, or all attempts failed: AuthError, which ends the process of a single org.
OaMintFails(t) ==
    LET o == OrgOf[t] IN
    /\ Runs(t) /\ doing[t] = "mint" /\ o \notin up
    /\ \/ /\ Supervised(t) /\ Release(o)
          /\ Over(t, AfterAuthError(t))
          /\ UNCHANGED <<phase, probed, failed, cached, fed>>
       \/ ~Supervised(t) /\ Restarted
    /\ UNCHANGED <<multi, up, boundVars>>

\* Salesforce accepts the token.
OaAnswer(t) ==
    /\ Runs(t) /\ doing[t] = "sent" /\ token[t] = "live"
    /\ Over(t, "idle") /\ fed' = [fed EXCEPT ![t] = TRUE]
    /\ UNCHANGED <<multi, up, phase, probed, failed, cached, lock, boundVars>>

\* invalidate: whatever token is cached by now.
Invalidate(o) == cached' = [cached EXCEPT ![o] = "none"]

\* 401: once more with another token; a second 401 fails the poll.
OaUnauthorized(t) ==
    /\ Runs(t) /\ doing[t] = "sent" /\ token[t] = "ended"
    /\ \/ /\ ~retried[t] /\ Invalidate(OrgOf[t]) /\ CallsToken(t)
          /\ retried' = [retried EXCEPT ![t] = TRUE]
          /\ UNCHANGED unlucky
       \/ retried[t] /\ Over(t, "idle") /\ UNCHANGED <<cached, lock>>
    /\ UNCHANGED <<multi, up, phase, probed, failed, fed, boundVars>>

\* Any other failure of the request: SoqlError, which the source's poll survives.
OaFails(t) ==
    /\ Runs(t) /\ doing[t] = "sent" /\ OrgOf[t] \notin up
    /\ Over(t, "idle")
    /\ UNCHANGED <<multi, up, phase, probed, failed, cached, lock, fed, boundVars>>

(* Salesforce *)

OaUpOrDown(o) ==
    /\ up' = IF o \in up THEN up \ {o} ELSE up \cup {o}
    /\ UNCHANGED <<multi, phase, probed, failed, sessionVars, boundVars>>

\* The org's sessions end: every token minted so far is refused from now on.
OaRevoke(o) ==
    /\ revokes < MaxRevokes /\ revokes' = revokes + 1
    /\ cached' = [cached EXCEPT ![o] = IF @ = "live" THEN "ended" ELSE @]
    /\ token' = [t \in Tasks |-> IF OrgOf[t] = o /\ token[t] = "live" THEN "ended" ELSE token[t]]
    /\ unlucky' = [t \in Tasks |-> (OrgOf[t] = o /\ retried[t]) \/ unlucky[t]]
    /\ UNCHANGED <<multi, up, phase, probed, failed, lock, doing, retried, fed, restarts>>

\* The cached token comes within the refresh skew of its assumed expiry.
OaExpire(o) ==
    /\ HasToken(o) /\ cached' = [cached EXCEPT ![o] = "old"]
    /\ UNCHANGED <<multi, up, phase, probed, failed, lock, doing, token, retried, unlucky, fed, boundVars>>

\* The degraded-org check, and what /readyz makes of it.
Degraded == \E o \in failed : ~HasToken(o)
Ready == phase = "run" /\ ~Degraded

OaTask(t) ==
    \/ OaStart(t) \/ OaRequest(t) \/ OaLocked(t) \/ OaMint(t) \/ OaMintFails(t)
    \/ OaAnswer(t) \/ OaUnauthorized(t) \/ OaFails(t)

OaNext ==
    \/ \E o \in Orgs : OaProbe(o) \/ OaUpOrDown(o) \/ OaRevoke(o) \/ OaExpire(o)
    \/ OaProbed \/ OaRestart
    \/ \E t \in Tasks : OaTask(t)

\* The tasks of the event loop go on; what Salesforce does is up to Salesforce.
OaFairness ==
    /\ WF_oaVars(OaProbed)
    /\ \A o \in Orgs : WF_oaVars(OaProbe(o))
    /\ \A t \in Tasks : WF_oaVars(OaTask(t))

OaSpec == OaInit /\ [][OaNext]_oaVars /\ OaFairness

-----------------------------------------------------------------------------

\* No double mint: at most one caller of an org mints, and never while a valid token
\* is cached, however many found it expired, or invalidated it, at the same time.
MintsWhenNeeded ==
    \A t \in Tasks : doing[t] = "mint" =>
        /\ ~HasToken(OrgOf[t])
        /\ \A u \in Tasks \ {t} : OrgOf[u] = OrgOf[t] => doing[u] # "mint"

\* An ended session costs no poll: the retry after a 401 is refused only when
\* Salesforce ended the sessions once more in between, whoever else was refused,
\* invalidated the cache or minted meanwhile.
RetrySucceeds ==
    \A t \in Tasks : (doing[t] = "sent" /\ retried[t] /\ token[t] = "ended") => unlucky[t]

\* Tasks that share a session mint once and lose no poll to an ended one.
SessionsShared == MintsWhenNeeded /\ RetrySucceeds

\* Isolation: an org that is up from some time on is polled with success again and
\* again, however its siblings' authentication fails.
OrgsIsolated ==
    \A t \in Sources : (<>[](multi /\ OrgOf[t] \in up)) => []<>fed[t]

\* Readiness (_org_auth_degraded_check): /readyz reports an org the probe failed for
\* only until its sources authenticate.
ReadinessRecovers ==
    ((<>(phase = "run")) /\ <>[](up = Orgs)) => []<>Ready
\* An org that is up is served, and reported so, whatever befalls its siblings.
OrgsServed == OrgsIsolated /\ ReadinessRecovers
=============================================================================
