----------------------------- MODULE MCServices ------------------------------
(***************************************************************************)
(* The services around the pipeline share no state: subject, chosen once,  *)
(* says which of them runs.                                                *)
(***************************************************************************)
EXTENDS TokenBucket, LokiSink, OrgAuth, Overlap, TLC

VARIABLE subject

vars == <<subject, bucketVars, skVars, oaVars, ovlVars>>

\* A service that is not the subject stays in one of its initial states.
Init ==
    /\ subject \in {"bucket", "sink", "auth", "overlap"}
    /\ BucketInit
    /\ SkInit /\ (subject # "sink" => entries = 1 /\ poison = {} /\ limit = 0 /\ line = <<>>)
    /\ OaInit /\ (subject # "auth" => ~multi)
    /\ OvlInit /\ (subject # "overlap" => cfg = CHOOSE c \in OvlConfigs : TRUE)

Subject(s) == subject = s /\ UNCHANGED subject
Next ==
    \/ Subject("bucket") /\ BucketNext /\ UNCHANGED <<skVars, oaVars, ovlVars>>
    \/ Subject("sink") /\ SkNext /\ UNCHANGED <<bucketVars, oaVars, ovlVars>>
    \/ Subject("auth") /\ OaNext /\ UNCHANGED <<bucketVars, skVars, ovlVars>>
    \/ Subject("overlap") /\ OvlNext /\ UNCHANGED <<bucketVars, skVars, oaVars>>

\* The fairness of each service, for the one that runs.
Fairness ==
    /\ WF_bucketVars(subject = "bucket" /\ Tick)
    /\ \A l \in Lanes : WF_bucketVars(subject = "bucket" /\ LaneStep(l))
    /\ WF_skVars(subject = "sink" /\ SkNext)
    /\ WF_oaVars(subject = "auth" /\ OaProbed)
    /\ \A o \in Orgs : WF_oaVars(subject = "auth" /\ OaProbe(o))
    /\ \A t \in Tasks : WF_oaVars(subject = "auth" /\ OaTask(t))
Spec == Init /\ [][Next]_vars /\ Fairness

\* Any two sizes, one of them larger than the capacity.
AnyBatch == [Buckets -> {1, MaxAmount}]

\* Two sources of two orgs, and a limits poller of the first.
MCOrgOf == [t \in Tasks |-> IF t = "sb" THEN "b" ELSE "a"]

\* The login category has a stream, an object and files, the api category no object.
MCCategoryOf ==
    ("/event/LoginEventStream" :> "login") @@ ("/event/ApiEventStream" :> "api")
    @@ ("LoginHistory" :> "login") @@ ("Login" :> "login") @@ ("API" :> "api")
MCOvlConfigs ==
    [topics : {{}, {"/event/LoginEventStream"}}, objects : {{}, {"LoginHistory"}},
     types : {{}, {"Login"}, {"API"}}, exclude : {{}, {"API"}},
     anyTopic : BOOLEAN, anyType : BOOLEAN, allow : BOOLEAN, rediscovers : BOOLEAN]
=============================================================================
