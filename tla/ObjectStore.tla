----------------------------- MODULE ObjectStore -----------------------------
(***************************************************************************)
(* The checkpoint stores on object storage                                 *)
(* (src/sf2loki/state/s3_store.py and gcs_store.py): the whole checkpoint  *)
(* document is one object, cached in memory, and every commit replaces it  *)
(* on the condition that it is still the version the cache was read from.  *)
(*                                                                         *)
(* Several processes may share the object: the replicas of an active-      *)
(* passive set and the state repair command.  Inside a process an asyncio  *)
(* lock admits one operation at a time, but reset() does not take it.      *)
(* Requests fail in transit, before or after the store carried them out,   *)
(* and are retried a bounded number of times.                              *)
(***************************************************************************)
EXTENDS Integers, Sequences, FiniteSets

CONSTANTS
    Writers,      \* the processes that share the object
    Keys,         \* the keys of the document
    Values,       \* the tokens that are committed
    NoValue,      \* a key that is not in the document
    Backends,     \* the kinds of store to consider: "s3", "gcs"
    MaxAttempts,  \* _MAX_ATTEMPTS
    FaultChoices, \* the sets of faults to consider
    MaxVersion    \* bound on the number of writes of the object

StoreFaultKinds == {"transient", "lost_answer", "reset_in_flight"}

ASSUME ObjectStoreAssumption ==
    /\ NoValue \notin Values
    /\ Backends \subseteq {"s3", "gcs"}
    /\ MaxAttempts \in Nat \ {0} /\ MaxVersion \in Nat
    /\ FaultChoices \subseteq SUBSET StoreFaultKinds

Documents == [Keys -> Values \cup {NoValue}]
Empty == [k \in Keys |-> NoValue]

VARIABLES
    backend,  \* the kind of store; it never changes
    faults,   \* the faults that may happen; they never change
    object,   \* the object: its document, version (0: absent) and last writer
    leads,    \* [Writers -> the fence lets it commit]
    pc,       \* [Writers -> where the operation that holds the lock is]
    op,       \* [Writers -> that operation]
    cached,   \* [Writers -> _cache is not None]
    cache,    \* [Writers -> _cache]
    token,    \* [Writers -> _etag or _generation]
    put,      \* [Writers -> the request being sent: document and condition]
    tries,    \* [Writers -> failed attempts of the current request]
    lost      \* [Writers -> its last operation raised StateStoreConflictError]

storeVars == <<backend, faults, object, leads, pc, op, cached, cache, token, put, tries, lost>>

\* A load, a commit_many of keys with a token, or a delete of one key.
Load == [kind |-> "load", keys |-> {}, value |-> NoValue]
Commits == [kind : {"commit"}, keys : SUBSET Keys \ {{}}, value : Values]
Deletes == [kind : {"delete"}, keys : {{k} : k \in Keys}, value : {NoValue}]
Operations == {Load} \cup Commits \cup Deletes

\* What identifies a version of the object: an ETag is a digest of the content,
\* a generation is a number.  NoTag is None: an object that does not exist.
Tags == [gen : Nat, etag : Documents]
NoTag == [gen |-> 0, etag |-> Empty]
Tag(o) == IF o.version = 0 THEN NoTag
          ELSE IF backend = "s3" THEN [gen |-> 1, etag |-> o.doc]
          ELSE [gen |-> o.version, etag |-> Empty]

NoRequest == [doc |-> Empty, cond |-> NoTag]

StoreInit ==
    /\ backend \in Backends /\ faults \in FaultChoices
    /\ object = [doc |-> Empty, version |-> 0, by |-> "nobody"]
    /\ leads = [w \in Writers |-> FALSE]
    /\ pc = [w \in Writers |-> "idle"]
    /\ op = [w \in Writers |-> Load]
    /\ cached = [w \in Writers |-> FALSE]
    /\ cache = [w \in Writers |-> Empty]
    /\ token = [w \in Writers |-> NoTag]
    /\ put = [w \in Writers |-> NoRequest]
    /\ tries = [w \in Writers |-> 0]
    /\ lost = [w \in Writers |-> FALSE]

-----------------------------------------------------------------------------

\* The operation ends, releases the lock, and its locals are gone.
End(w, how) ==
    /\ pc' = [pc EXCEPT ![w] = "idle"]
    /\ op' = [op EXCEPT ![w] = Load]
    /\ put' = [put EXCEPT ![w] = NoRequest]
    /\ tries' = [tries EXCEPT ![w] = 0]
    /\ lost' = [lost EXCEPT ![w] = (how = "conflict")]

\* The document d with the operation's keys set, or removed.
Merged(o, d) == [k \in Keys |-> IF k \in o.keys THEN o.value ELSE d[k]]

\* A delete of a key that the document d does not have is a no-op.
NothingToDo(o, d) ==
    \/ o.kind = "load"
    \/ o.kind = "delete" /\ \A k \in o.keys : d[k] = NoValue

\* After _ensure_loaded, with the cache d and the tag t: return, or send the
\* merged document on the condition that the object still has this tag.
Loaded(w, o, d, t) ==
    \/ /\ NothingToDo(o, d)
       /\ End(w, "ok")
    \/ /\ ~NothingToDo(o, d)
       /\ op' = [op EXCEPT ![w] = o]
       /\ tries' = [tries EXCEPT ![w] = 0]
       /\ put' = [put EXCEPT ![w] = [doc |-> Merged(o, d), cond |-> t]]
       /\ pc' = [pc EXCEPT ![w] = "put"]
       /\ UNCHANGED lost

\* load, commit_many and delete take the lock.  The fence is asked first.
Begin(w, o) ==
    /\ pc[w] = "idle"
    /\ \/ /\ o.kind # "load" /\ ~leads[w]
          /\ End(w, "fenced")
       \/ /\ o.kind = "load" \/ leads[w]
          /\ cached[w]
          /\ Loaded(w, o, cache[w], token[w])
       \/ /\ o.kind = "load" \/ leads[w]
          /\ ~cached[w]
          /\ pc' = [pc EXCEPT ![w] = "get"]
          /\ op' = [op EXCEPT ![w] = o]
          /\ UNCHANGED <<put, tries, lost>>
    /\ UNCHANGED <<object, leads, cached, cache, token>>

\* _ensure_loaded: an absent object is an empty document; S3 answers with the
\* content and its ETag at once.
Get(w) ==
    /\ pc[w] = "get"
    /\ object.version = 0 \/ backend = "s3"
    /\ cached' = [cached EXCEPT ![w] = TRUE]
    /\ cache' = [cache EXCEPT ![w] = object.doc]
    /\ token' = [token EXCEPT ![w] = Tag(object)]
    /\ Loaded(w, op[w], object.doc, Tag(object))
    /\ UNCHANGED <<object, leads>>

\* GCS: the generation is read from the metadata ...
GetMetadata(w) ==
    /\ pc[w] = "get"
    /\ object.version # 0 /\ backend = "gcs"
    /\ token' = [token EXCEPT ![w] = Tag(object)]
    /\ pc' = [pc EXCEPT ![w] = "body"]
    /\ tries' = [tries EXCEPT ![w] = 0]
    /\ UNCHANGED <<object, leads, op, cached, cache, put, lost>>

\* ... and then the content, which may be that of a later version.
GetBody(w) ==
    /\ pc[w] = "body"
    /\ cached' = [cached EXCEPT ![w] = TRUE]
    /\ cache' = [cache EXCEPT ![w] = object.doc]
    /\ Loaded(w, op[w], object.doc, token[w])
    /\ UNCHANGED <<object, leads, token>>

\* _retry_transient: the attempt failed; try again, or give up and raise.
Retry(w) ==
    \/ /\ tries[w] + 1 < MaxAttempts
       /\ tries' = [tries EXCEPT ![w] = @ + 1]
       /\ UNCHANGED <<pc, op, put, lost>>
    \/ /\ tries[w] + 1 >= MaxAttempts
       /\ End(w, "failed")

GetFails(w) ==
    /\ "transient" \in faults
    /\ pc[w] \in {"get", "body"}
    /\ Retry(w)
    /\ UNCHANGED <<object, leads, cached, cache, token>>

\* Mutant: the condition is left out of the request.
HoldsAlways(w) == TRUE
\* The store's check of If-Match, If-None-Match or ifGenerationMatch.
Holds(w) == put[w].cond = Tag(object)

\* The store carries out the request.
Replace(w) ==
    /\ object.version < MaxVersion
    /\ object' = [doc |-> put[w].doc, version |-> object.version + 1, by |-> w]

\* The request succeeds: the cache and the tag become the new version's.
Put(w) ==
    /\ pc[w] = "put"
    /\ Holds(w) /\ Replace(w)
    /\ cached' = [cached EXCEPT ![w] = TRUE]
    /\ cache' = [cache EXCEPT ![w] = put[w].doc]
    /\ token' = [token EXCEPT ![w] = Tag(object')]
    /\ End(w, "ok")
    /\ UNCHANGED leads

\* 412: StateStoreConflictError, not retried.
PutConflict(w) ==
    /\ pc[w] = "put"
    /\ ~Holds(w)
    /\ End(w, "conflict")
    /\ UNCHANGED <<object, leads, cached, cache, token>>

\* A transient error; the store may have carried out the request.
PutFails(w) ==
    /\ pc[w] = "put"
    /\ \/ "transient" \in faults /\ UNCHANGED object
       \/ "lost_answer" \in faults /\ Holds(w) /\ Replace(w)
    /\ Retry(w)
    /\ UNCHANGED <<leads, cached, cache, token>>

\* Mutant: the cache survives, only the tag is forgotten.
ForgetTagOnly(w) ==
    /\ token' = [token EXCEPT ![w] = NoTag]
    /\ UNCHANGED <<cached, cache>>
\* reset(): forget the cache and the tag.
Forget(w) ==
    /\ cached' = [cached EXCEPT ![w] = FALSE]
    /\ cache' = [cache EXCEPT ![w] = Empty]
    /\ token' = [token EXCEPT ![w] = NoTag]

\* Leadership is lost, and on_lose resets the store.  A consumer that outlived
\* its run() may still be in an operation.
LoseAndReset(w) ==
    /\ leads[w]
    /\ pc[w] = "idle" \/ "reset_in_flight" \in faults
    /\ leads' = [leads EXCEPT ![w] = FALSE]
    /\ Forget(w)
    /\ UNCHANGED <<object, pc, op, put, tries, lost>>

\* Leadership is won; the coordinator does not exclude that another replica
\* still believes that it leads.
Lead(w) ==
    /\ ~leads[w]
    /\ leads' = [leads EXCEPT ![w] = TRUE]
    /\ UNCHANGED <<object, pc, op, cached, cache, token, put, tries, lost>>

\* The process dies at any point, and starts again.
Restart(w) ==
    /\ End(w, "killed")
    /\ leads' = [leads EXCEPT ![w] = FALSE]
    /\ Forget(w)
    /\ UNCHANGED object

-----------------------------------------------------------------------------

StoreStep(w) ==
    \/ \E o \in Operations : Begin(w, o)
    \/ Get(w) \/ GetMetadata(w) \/ GetBody(w) \/ GetFails(w)
    \/ Put(w) \/ PutConflict(w) \/ PutFails(w)
    \/ LoseAndReset(w) \/ Lead(w) \/ Restart(w)

StoreNext ==
    /\ \E w \in Writers : StoreStep(w)
    /\ UNCHANGED <<backend, faults>>

StoreSpec == StoreInit /\ [][StoreNext]_storeVars

-----------------------------------------------------------------------------
(***************************************************************************)
(* Properties.                                                             *)
(***************************************************************************)

\* The types of the variables.
StoreTypeOK ==
    /\ backend \in Backends /\ faults \in FaultChoices
    /\ object \in [doc : Documents, version : 0 .. MaxVersion,
                   by : Writers \cup {"nobody"}]
    /\ leads \in [Writers -> BOOLEAN]
    /\ pc \in [Writers -> {"idle", "get", "body", "put"}]
    /\ op \in [Writers -> Operations]
    /\ cached \in [Writers -> BOOLEAN]
    /\ cache \in [Writers -> Documents]
    /\ token \in [Writers -> Tags]
    /\ put \in [Writers -> [doc : Documents, cond : Tags]]
    /\ tries \in [Writers -> 0 .. MaxAttempts]
    /\ lost \in [Writers -> BOOLEAN]

\* An object that was never written is empty.
AbsentIsEmpty == object.version = 0 => object.doc = Empty

\* No tag is from the future: a generation that is known was given out.
NoFutureTag(w) ==
    backend = "gcs" => /\ token[w].gen <= object.version
                       /\ put[w].cond.gen <= object.version

\* What an S3 tag says of the document it goes with, whatever was written since.
Denotes(t, d) == (t = NoTag /\ d = Empty) \/ (t.gen = 1 /\ d = t.etag)

\* A cache whose tag is still the object's is the object's document; that is
\* what makes it safe to write the merged cache back.  With ETags it holds of
\* every tag, since a tag is a digest of its document.
CacheCoherent(w) == cached[w] =>
    /\ token[w] = Tag(object) => cache[w] = object.doc
    /\ backend = "s3" => Denotes(token[w], cache[w])

\* A request whose condition still holds differs from the object in the keys of
\* its operation only.
PutCoherent(w) == pc[w] = "put" =>
    /\ put[w].cond = Tag(object) =>
          \A k \in Keys \ op[w].keys : put[w].doc[k] = object.doc[k]
    /\ backend = "s3" => \E d \in Documents :
          /\ Denotes(put[w].cond, d)
          /\ \A k \in Keys \ op[w].keys : put[w].doc[k] = d[k]

\* Only an operation without a cache reads the object, and only GCS in two steps.
LoadsUncached(w) ==
    /\ pc[w] \in {"get", "body"} => ~cached[w]
    /\ pc[w] = "body" => backend = "gcs"

\* The inductive invariant of the conditional writes: a tag that still matches
\* vouches for the cache and for the request that was made from it.
StoreInv ==
    /\ StoreTypeOK /\ AbsentIsEmpty
    /\ \A w \in Writers : /\ NoFutureTag(w) /\ LoadsUncached(w)
                           /\ CacheCoherent(w) /\ PutCoherent(w)

\* No lost update: whatever races, is retried, reset or restarted, a write of
\* the whole document changes the keys of one process's current commit_many or
\* delete and keeps every other key as the previous write left it.
NoLostUpdate == [][\E w \in Writers :
    \A k \in Keys \ op[w].keys : object'.doc[k] = object.doc[k]]_object

\* StateStoreConflictError says that another instance is writing the object.  It
\* does: unless an answer was lost or reset() fell into a running operation, a
\* process that meets a conflict is not the one that wrote the object last.
ConflictMeansOther == \A w \in Writers :
    lost[w] /\ faults \subseteq {"transient"} => object.by # w

=============================================================================
