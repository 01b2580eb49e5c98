----------------------------- MODULE StoreProofs -----------------------------
(***************************************************************************)
(* Proofs about what is kept in the checkpoint store and how, for any      *)
(* number of processes, keys, values, orgs and lanes: conditional writes   *)
(* of the whole document lose no update, a checkpoint in the shared file   *)
(* is undone by nobody's cached document, no checkpoint makes an org skip  *)
(* events, and the egress counter survives restarts and overshoots the     *)
(* budget by less than a batch per lane.                                   *)
(***************************************************************************)
EXTENDS ObjectStore, StateFile, OrgView, EgressGovernor, FiniteSetTheorems, TLAPS

-----------------------------------------------------------------------------
(***************************************************************************)
(* Documents and tags.                                                     *)
(***************************************************************************)

\* The empty document is a document, and no tag and no request are of type.
LEMMA EmptyTypes ==
    /\ Empty \in Documents
    /\ NoTag \in Tags
    /\ NoRequest \in [doc : Documents, cond : Tags]
    /\ Load \in Operations
  BY DEF Empty, Documents, NoTag, Tags, NoRequest, Operations

\* The tag of an object is a tag.
LEMMA TagType ==
    ASSUME StoreTypeOK PROVE Tag(object) \in Tags
  <1>1. object.doc \in Documents /\ object.version \in Nat
    BY DEF StoreTypeOK
  <1> QED BY <1>1, EmptyTypes DEF Tag, Tags

\* An operation merged into a document gives a document that differs from it in
\* the keys of the operation only.
LEMMA MergedType ==
    ASSUME NEW o \in Operations, NEW d \in Documents
    PROVE  /\ Merged(o, d) \in Documents
           /\ \A k \in Keys \ o.keys : Merged(o, d)[k] = d[k]
  <1>1. o.value \in Values \cup {NoValue}
    BY DEF Operations, Load, Commits, Deletes
  <1> QED BY <1>1 DEF Merged, Documents

\* With ETags, the tag of the object denotes its document.
LEMMA TagDenotes ==
    ASSUME StoreTypeOK, AbsentIsEmpty, backend = "s3"
    PROVE  Denotes(Tag(object), object.doc)
  BY DEF Tag, Denotes, AbsentIsEmpty, NoTag

\* An ETag denotes one document.
LEMMA DenotesUnique ==
    ASSUME NEW t, NEW d, NEW e, Denotes(t, d), Denotes(t, e) PROVE d = e
  BY DEF Denotes, NoTag

-----------------------------------------------------------------------------
(***************************************************************************)
(* The effect of the operators shared by the actions on one process.       *)
(***************************************************************************)

\* The end of an operation keeps the types, and there is no request in flight.
LEMMA EndSafe ==
    ASSUME StoreTypeOK, NEW w \in Writers, NEW how, End(w, how)
    PROVE  /\ pc' = [pc EXCEPT ![w] = "idle"]
           /\ pc' \in [Writers -> {"idle", "get", "body", "put"}]
           /\ op' \in [Writers -> Operations]
           /\ put' \in [Writers -> [doc : Documents, cond : Tags]]
           /\ tries' \in [Writers -> 0 .. MaxAttempts]
           /\ lost' \in [Writers -> BOOLEAN]
           /\ put'[w].cond = NoTag
           /\ pc'[w] = "idle"
           /\ \A v \in Writers \ {w} : pc'[v] = pc[v] /\ op'[v] = op[v] /\ put'[v] = put[v]
  BY EmptyTypes, ObjectStoreAssumption DEF End, StoreTypeOK, NoRequest

\* The request that follows a load carries the tag it was given, and the document
\* merged into the one it was given.
LEMMA LoadedSafe ==
    ASSUME StoreTypeOK, NEW w \in Writers, NEW o \in Operations,
           NEW d \in Documents, NEW t \in Tags, Loaded(w, o, d, t)
    PROVE  /\ pc' \in [Writers -> {"idle", "get", "body", "put"}]
           /\ op' \in [Writers -> Operations]
           /\ put' \in [Writers -> [doc : Documents, cond : Tags]]
           /\ tries' \in [Writers -> 0 .. MaxAttempts]
           /\ lost' \in [Writers -> BOOLEAN]
           /\ \A v \in Writers \ {w} : pc'[v] = pc[v] /\ op'[v] = op[v] /\ put'[v] = put[v]
           /\ put'[w].cond \in {NoTag, t}
           /\ pc'[w] \in {"idle", "put"}
           /\ pc'[w] = "put" =>
                 /\ put'[w].cond = t
                 /\ \A k \in Keys \ op'[w].keys : put'[w].doc[k] = d[k]
  <1>1. CASE NothingToDo(o, d) /\ End(w, "ok")
    BY <1>1, EndSafe
  <1>2. CASE ~NothingToDo(o, d) /\ ~(NothingToDo(o, d) /\ End(w, "ok"))
    <2>1. /\ op' = [op EXCEPT ![w] = o]
          /\ tries' = [tries EXCEPT ![w] = 0]
          /\ put' = [put EXCEPT ![w] = [doc |-> Merged(o, d), cond |-> t]]
          /\ pc' = [pc EXCEPT ![w] = "put"]
          /\ lost' = lost
      BY <1>2 DEF Loaded
    <2>2. Merged(o, d) \in Documents /\ \A k \in Keys \ o.keys : Merged(o, d)[k] = d[k]
      BY MergedType
    <2> QED BY <2>1, <2>2, ObjectStoreAssumption DEF StoreTypeOK
  <1> QED BY <1>1, <1>2 DEF Loaded

\* A failed attempt leaves the request as it is, or ends the operation.
LEMMA RetrySafe ==
    ASSUME StoreTypeOK, NEW w \in Writers, Retry(w)
    PROVE  /\ pc' \in [Writers -> {"idle", "get", "body", "put"}]
           /\ op' \in [Writers -> Operations]
           /\ put' \in [Writers -> [doc : Documents, cond : Tags]]
           /\ tries' \in [Writers -> 0 .. MaxAttempts]
           /\ lost' \in [Writers -> BOOLEAN]
           /\ \A v \in Writers \ {w} : pc'[v] = pc[v] /\ op'[v] = op[v] /\ put'[v] = put[v]
           /\ put'[w].cond \in {NoTag, put[w].cond}
           /\ pc'[w] \in {"idle", pc[w]}
           /\ pc'[w] = "put" => pc[w] = "put" /\ op'[w] = op[w] /\ put'[w] = put[w]
  <1>1. CASE End(w, "failed")
    BY <1>1, EndSafe
  <1>2. CASE ~End(w, "failed")
    <2>1. /\ tries[w] + 1 < MaxAttempts
          /\ tries' = [tries EXCEPT ![w] = tries[w] + 1]
          /\ UNCHANGED <<pc, op, put, lost>>
      BY <1>2 DEF Retry
    <2> QED BY <2>1, ObjectStoreAssumption DEF StoreTypeOK
  <1> QED BY <1>1, <1>2

-----------------------------------------------------------------------------
(***************************************************************************)
(* The invariant.                                                          *)
(***************************************************************************)

\* What the invariant says of one process.
Safe(w) == NoFutureTag(w) /\ LoadsUncached(w) /\ CacheCoherent(w) /\ PutCoherent(w)

\* A process that a step does not concern stays safe when the object stays.
LEMMA UntouchedSafe ==
    ASSUME NEW v \in Writers, Safe(v), UNCHANGED <<backend, object>>,
           cached'[v] = cached[v], cache'[v] = cache[v], token'[v] = token[v],
           pc'[v] = pc[v], op'[v] = op[v], put'[v] = put[v]
    PROVE  Safe(v)'
  BY DEF Safe, NoFutureTag, LoadsUncached, CacheCoherent, PutCoherent, Denotes, Tag

\* The write of a request whose condition holds: the document changes in the keys
\* of the operation only, and no tag in any process vouches wrongly for the new
\* version: its generation is new, and its ETag denotes it.
LEMMA ReplaceSafe ==
    ASSUME StoreInv, NEW w \in Writers, pc[w] = "put", Holds(w), Replace(w),
           UNCHANGED backend
    PROVE  /\ object' \in [doc : Documents, version : 0 .. MaxVersion,
                            by : Writers \cup {"nobody"}]
           /\ object'.doc = put[w].doc
           /\ object'.version = object.version + 1
           /\ AbsentIsEmpty'
           /\ \A k \in Keys \ op[w].keys : object'.doc[k] = object.doc[k]
           /\ \A v \in Writers :
                 /\ cached[v] /\ token[v] = Tag(object)' => cache[v] = object'.doc
                 /\ pc[v] = "put" /\ put[v].cond = Tag(object)' =>
                       \A k \in Keys \ op[v].keys : put[v].doc[k] = object'.doc[k]
  <1>1. /\ object' = [doc |-> put[w].doc, version |-> object.version + 1, by |-> w]
        /\ object.version < MaxVersion
    BY DEF Replace
  <1>2. /\ put[w].doc \in Documents /\ object.version \in Nat /\ MaxVersion \in Nat
        /\ object.version + 1 # 0
    BY ObjectStoreAssumption DEF StoreInv, StoreTypeOK
  <1>3. /\ object' \in [doc : Documents, version : 0 .. MaxVersion,
                         by : Writers \cup {"nobody"}]
        /\ object'.doc = put[w].doc
        /\ object'.version = object.version + 1
        /\ AbsentIsEmpty'
    BY <1>1, <1>2 DEF AbsentIsEmpty
  <1>4. \A k \in Keys \ op[w].keys : object'.doc[k] = object.doc[k]
    BY <1>3 DEF StoreInv, PutCoherent, Holds
  <1>5. ASSUME NEW v \in Writers
        PROVE  /\ cached[v] /\ token[v] = Tag(object)' => cache[v] = object'.doc
               /\ pc[v] = "put" /\ put[v].cond = Tag(object)' =>
                     \A k \in Keys \ op[v].keys : put[v].doc[k] = object'.doc[k]
    <2>0. /\ token[v] \in Tags /\ put[v].cond \in Tags
          /\ NoFutureTag(v) /\ CacheCoherent(v) /\ PutCoherent(v)
      BY DEF StoreInv, StoreTypeOK
    <2>1. CASE backend = "s3"
      <3>1. Tag(object)' = [gen |-> 1, etag |-> object'.doc]
        BY <1>2, <1>3, <2>1 DEF Tag
      <3>2. ASSUME NEW d, Denotes(Tag(object)', d) PROVE d = object'.doc
        BY <3>1, <3>2 DEF Denotes, NoTag
      <3>3. cached[v] /\ token[v] = Tag(object)' => cache[v] = object'.doc
        BY <2>0, <2>1, <3>2 DEF CacheCoherent
      <3>4. ASSUME pc[v] = "put", put[v].cond = Tag(object)'
            PROVE  \A k \in Keys \ op[v].keys : put[v].doc[k] = object'.doc[k]
        <4>1. PICK d \in Documents :
                 /\ Denotes(put[v].cond, d)
                 /\ \A k \in Keys \ op[v].keys : put[v].doc[k] = d[k]
          BY <2>0, <2>1, <3>4 DEF PutCoherent
        <4>2. d = object'.doc
          BY <3>2, <3>4, <4>1
        <4> QED BY <4>1, <4>2
      <3> QED BY <3>3, <3>4
    <2>2. CASE backend # "s3"
      <3>1. backend = "gcs"
        BY <2>2, ObjectStoreAssumption DEF StoreInv, StoreTypeOK
      <3>2. Tag(object)' = [gen |-> object.version + 1, etag |-> Empty]
        BY <1>2, <1>3, <2>2 DEF Tag
      <3>3. token[v].gen <= object.version /\ put[v].cond.gen <= object.version
        BY <2>0, <3>1 DEF NoFutureTag
      <3>4. token[v] # Tag(object)' /\ put[v].cond # Tag(object)'
        <4>1. Tag(object)'.gen = object.version + 1
          BY <3>2
        <4>2. token[v].gen \in Nat /\ put[v].cond.gen \in Nat
          BY <2>0 DEF Tags
        <4> QED BY <1>2, <3>3, <4>1, <4>2
      <3> QED BY <3>4
    <2> QED BY <2>1, <2>2
  <1> QED BY <1>3, <1>4, <1>5

\* The first states satisfy the invariant.
LEMMA StoreInitInv == StoreInit => StoreInv
  <1> SUFFICES ASSUME StoreInit PROVE StoreInv
    OBVIOUS
  <1>1. StoreTypeOK
    BY EmptyTypes, ObjectStoreAssumption DEF StoreInit, StoreTypeOK
  <1>2. AbsentIsEmpty
    BY DEF StoreInit, AbsentIsEmpty
  <1>3. ASSUME NEW w \in Writers
        PROVE  Safe(w)
    BY DEF StoreInit, Safe, NoFutureTag, LoadsUncached, CacheCoherent, PutCoherent, NoRequest, NoTag
  <1> QED BY <1>1, <1>2, <1>3 DEF StoreInv, Safe

\* A step of one process that only reads the object.  It is enough that the
\* process itself is safe afterwards.
LEMMA ReadStep ==
    ASSUME StoreInv, NEW w \in Writers, UNCHANGED <<backend, object>>,
           StoreTypeOK', Safe(w)',
           \A v \in Writers \ {w} :
              /\ cached'[v] = cached[v] /\ cache'[v] = cache[v] /\ token'[v] = token[v]
              /\ pc'[v] = pc[v] /\ op'[v] = op[v] /\ put'[v] = put[v]
    PROVE  StoreInv'
  <1>1. ASSUME NEW v \in Writers PROVE Safe(v)'
    <2>1. CASE v = w
      BY <2>1
    <2>2. CASE v # w
      <3>1. Safe(v)
        BY DEF StoreInv, Safe
      <3> QED BY <2>2, <3>1, UntouchedSafe
    <2> QED BY <2>1, <2>2
  <1>2. AbsentIsEmpty'
    BY DEF StoreInv, AbsentIsEmpty
  <1> QED BY <1>1, <1>2 DEF StoreInv, Safe

\* The request that follows a load is safe when the tag vouches for the document.
LEMMA LoadedThenSafe ==
    ASSUME StoreInv, NEW w \in Writers, NEW o \in Operations,
           NEW d \in Documents, NEW t \in Tags, Loaded(w, o, d, t),
           UNCHANGED <<backend, object>>,
           t = Tag(object) => d = object.doc,
           backend = "s3" => Denotes(t, d),
           backend = "gcs" => t.gen <= object.version,
           cached'[w] = TRUE, cache'[w] = d, token'[w] = t
    PROVE  Safe(w)'
  <1>1. /\ put'[w].cond \in {NoTag, t}
        /\ pc'[w] \in {"idle", "put"}
        /\ pc'[w] = "put" =>
              /\ put'[w].cond = t
              /\ \A k \in Keys \ op'[w].keys : put'[w].doc[k] = d[k]
    BY LoadedSafe DEF StoreInv
  <1>2. object.version \in Nat
    BY DEF StoreInv, StoreTypeOK
  <1>3. NoFutureTag(w)'
    BY <1>1, <1>2 DEF NoFutureTag, NoTag
  <1>4. Tag(object)' = Tag(object)
    BY DEF Tag
  <1>5. CacheCoherent(w)'
    BY <1>4 DEF CacheCoherent, Denotes
  <1>6. PutCoherent(w)'
    BY <1>1, <1>4 DEF PutCoherent, Denotes
  <1>7. LoadsUncached(w)'
    BY <1>1 DEF LoadsUncached
  <1> QED BY <1>3, <1>5, <1>6, <1>7 DEF Safe

\* The end of an operation is safe when the cache and the tag stay.
LEMMA EndThenSafe ==
    ASSUME StoreInv, NEW w \in Writers, NEW how, End(w, how),
           UNCHANGED <<backend, object, cached, cache, token>>
    PROVE  Safe(w)'
  <1>1. put'[w].cond = NoTag /\ pc'[w] = "idle"
    BY EndSafe DEF StoreInv
  <1>2. NoFutureTag(w) /\ CacheCoherent(w) /\ object.version \in Nat
    BY DEF StoreInv, StoreTypeOK
  <1> QED BY <1>1, <1>2 DEF Safe, NoFutureTag, LoadsUncached, CacheCoherent, PutCoherent,
                              Denotes, Tag, NoTag

-----------------------------------------------------------------------------
(***************************************************************************)
(* One lemma per action.                                                   *)
(***************************************************************************)

\* The start of an operation: fenced, from the cache, or to be loaded.
LEMMA BeginInv ==
    ASSUME StoreInv, NEW w \in Writers, NEW o \in Operations, Begin(w, o),
           UNCHANGED <<backend, faults>>
    PROVE  StoreInv'
  <1>0. StoreTypeOK /\ NoFutureTag(w) /\ CacheCoherent(w)
    BY DEF StoreInv
  <1>1. UNCHANGED <<object, leads, cached, cache, token>>
    BY DEF Begin
  <1>2. CASE End(w, "fenced")
    <2>1. Safe(w)'
      BY <1>1, <1>2, EndThenSafe
    <2>2. StoreTypeOK'
      BY <1>0, <1>1, <1>2, EndSafe DEF StoreTypeOK
    <2> QED BY <1>0, <1>1, <1>2, <2>1, <2>2, EndSafe, ReadStep
  <1>3. CASE cached[w] /\ Loaded(w, o, cache[w], token[w])
    <2>0. cache[w] \in Documents /\ token[w] \in Tags
      BY <1>0 DEF StoreTypeOK
    <2>1. Safe(w)'
      <3>1. /\ token[w] = Tag(object) => cache[w] = object.doc
            /\ backend = "s3" => Denotes(token[w], cache[w])
        BY <1>0, <1>3 DEF CacheCoherent
      <3>2. backend = "gcs" => token[w].gen <= object.version
        BY <1>0 DEF NoFutureTag
      <3>3. cached'[w] = TRUE /\ cache'[w] = cache[w] /\ token'[w] = token[w]
        BY <1>1, <1>3
      <3> QED BY <1>1, <1>3, <2>0, <3>1, <3>2, <3>3, LoadedThenSafe
    <2>2. StoreTypeOK'
      BY <1>0, <1>1, <1>3, <2>0, LoadedSafe DEF StoreTypeOK
    <2> QED BY <1>0, <1>1, <1>3, <2>0, <2>1, <2>2, LoadedSafe, ReadStep
  <1>4. CASE /\ ~cached[w]
             /\ pc' = [pc EXCEPT ![w] = "get"]
             /\ op' = [op EXCEPT ![w] = o]
             /\ UNCHANGED <<put, tries, lost>>
    <2>1. Safe(w)'
      BY <1>0, <1>1, <1>4 DEF Safe, NoFutureTag, LoadsUncached, CacheCoherent, PutCoherent,
                              StoreTypeOK
    <2>2. StoreTypeOK'
      BY <1>0, <1>1, <1>4 DEF StoreTypeOK
    <2>3. \A v \in Writers \ {w} : pc'[v] = pc[v] /\ op'[v] = op[v] /\ put'[v] = put[v]
      BY <1>0, <1>4 DEF StoreTypeOK
    <2> QED BY <1>1, <2>1, <2>2, <2>3, ReadStep
  <1> QED BY <1>2, <1>3, <1>4 DEF Begin

\* The object is read with its tag at once.
LEMMA GetInv ==
    ASSUME StoreInv, NEW w \in Writers, Get(w), UNCHANGED <<backend, faults>>
    PROVE  StoreInv'
  <1>0. StoreTypeOK /\ AbsentIsEmpty
    BY DEF StoreInv
  <1>1. /\ UNCHANGED <<object, leads>>
        /\ cached' = [cached EXCEPT ![w] = TRUE]
        /\ cache' = [cache EXCEPT ![w] = object.doc]
        /\ token' = [token EXCEPT ![w] = Tag(object)]
        /\ Loaded(w, op[w], object.doc, Tag(object))
    BY DEF Get
  <1>2. object.doc \in Documents /\ Tag(object) \in Tags /\ op[w] \in Operations
    BY <1>0, TagType DEF StoreTypeOK
  <1>3. backend = "gcs" => Tag(object).gen <= object.version
    BY <1>0 DEF Tag, NoTag, StoreTypeOK
  <1>4. cached'[w] = TRUE /\ cache'[w] = object.doc /\ token'[w] = Tag(object)
    BY <1>0, <1>1 DEF StoreTypeOK
  <1>5. Safe(w)'
    BY <1>0, <1>1, <1>2, <1>3, <1>4, TagDenotes, LoadedThenSafe
  <1>6. StoreTypeOK'
    BY <1>0, <1>1, <1>2, LoadedSafe DEF StoreTypeOK
  <1>7. \A v \in Writers \ {w} :
           cached'[v] = cached[v] /\ cache'[v] = cache[v] /\ token'[v] = token[v]
    BY <1>0, <1>1 DEF StoreTypeOK
  <1>8. \A v \in Writers \ {w} : pc'[v] = pc[v] /\ op'[v] = op[v] /\ put'[v] = put[v]
    BY <1>0, <1>1, <1>2, LoadedSafe
  <1> QED BY <1>1, <1>5, <1>6, <1>7, <1>8, ReadStep

\* GCS: the generation is read first ...
LEMMA GetMetadataInv ==
    ASSUME StoreInv, NEW w \in Writers, GetMetadata(w), UNCHANGED <<backend, faults>>
    PROVE  StoreInv'
  <1>0. StoreTypeOK /\ NoFutureTag(w) /\ LoadsUncached(w) /\ Tag(object) \in Tags
    BY TagType DEF StoreInv
  <1>1. /\ pc[w] = "get" /\ backend = "gcs" /\ object.version # 0
        /\ token' = [token EXCEPT ![w] = Tag(object)]
        /\ pc' = [pc EXCEPT ![w] = "body"]
        /\ tries' = [tries EXCEPT ![w] = 0]
        /\ UNCHANGED <<object, leads, op, cached, cache, put, lost>>
    BY DEF GetMetadata
  <1>2. /\ pc'[w] = "body" /\ ~cached'[w] /\ token'[w] = Tag(object)
        /\ put'[w] = put[w] /\ object' = object
    BY <1>0, <1>1 DEF StoreTypeOK, LoadsUncached
  <1>3. Tag(object).gen <= object.version
    BY <1>0, <1>1 DEF Tag, StoreTypeOK
  <1>4. Safe(w)'
    BY <1>0, <1>1, <1>2, <1>3
       DEF Safe, NoFutureTag, LoadsUncached, CacheCoherent, PutCoherent
  <1>5. StoreTypeOK'
    BY <1>0, <1>1, ObjectStoreAssumption DEF StoreTypeOK
  <1>6. \A v \in Writers \ {w} :
           /\ cached'[v] = cached[v] /\ cache'[v] = cache[v] /\ token'[v] = token[v]
           /\ pc'[v] = pc[v] /\ op'[v] = op[v] /\ put'[v] = put[v]
    BY <1>0, <1>1 DEF StoreTypeOK
  <1> QED BY <1>1, <1>4, <1>5, <1>6, ReadStep

\* ... and the content after it, which is at least as new.
LEMMA GetBodyInv ==
    ASSUME StoreInv, NEW w \in Writers, GetBody(w), UNCHANGED <<backend, faults>>
    PROVE  StoreInv'
  <1>0. StoreTypeOK /\ NoFutureTag(w) /\ LoadsUncached(w)
    BY DEF StoreInv
  <1>1. /\ UNCHANGED <<object, leads, token>> /\ pc[w] = "body"
        /\ cached' = [cached EXCEPT ![w] = TRUE]
        /\ cache' = [cache EXCEPT ![w] = object.doc]
        /\ Loaded(w, op[w], object.doc, token[w])
    BY DEF GetBody
  <1>2. object.doc \in Documents /\ token[w] \in Tags /\ op[w] \in Operations
    BY <1>0 DEF StoreTypeOK
  <1>3. backend = "gcs" /\ token[w].gen <= object.version
    BY <1>0, <1>1 DEF NoFutureTag, LoadsUncached
  <1>4. cached'[w] = TRUE /\ cache'[w] = object.doc /\ token'[w] = token[w]
    BY <1>0, <1>1 DEF StoreTypeOK
  <1>5. Safe(w)'
    BY <1>1, <1>2, <1>3, <1>4, LoadedThenSafe
  <1>6. StoreTypeOK'
    BY <1>0, <1>1, <1>2, LoadedSafe DEF StoreTypeOK
  <1>7. \A v \in Writers \ {w} :
           cached'[v] = cached[v] /\ cache'[v] = cache[v] /\ token'[v] = token[v]
    BY <1>0, <1>1 DEF StoreTypeOK
  <1>8. \A v \in Writers \ {w} : pc'[v] = pc[v] /\ op'[v] = op[v] /\ put'[v] = put[v]
    BY <1>0, <1>1, <1>2, LoadedSafe
  <1> QED BY <1>1, <1>5, <1>6, <1>7, <1>8, ReadStep

\* A failed attempt that left the object alone.
LEMMA RetryInv ==
    ASSUME StoreInv, NEW w \in Writers, Retry(w),
           UNCHANGED <<backend, faults, object, leads, cached, cache, token>>
    PROVE  StoreInv'
  <1>0. /\ StoreTypeOK /\ NoFutureTag(w) /\ LoadsUncached(w)
        /\ CacheCoherent(w) /\ PutCoherent(w) /\ object.version \in Nat
    BY DEF StoreInv, StoreTypeOK
  <1>1. /\ put'[w].cond \in {NoTag, put[w].cond}
        /\ pc'[w] \in {"idle", pc[w]}
        /\ pc'[w] = "put" => pc[w] = "put" /\ op'[w] = op[w] /\ put'[w] = put[w]
        /\ \A v \in Writers \ {w} : pc'[v] = pc[v] /\ op'[v] = op[v] /\ put'[v] = put[v]
    BY <1>0, RetrySafe
  <1>2. Tag(object)' = Tag(object)
    BY DEF Tag
  <1>3. NoFutureTag(w)' /\ LoadsUncached(w)'
    BY <1>0, <1>1 DEF NoFutureTag, LoadsUncached, NoTag
  <1>4. CacheCoherent(w)' /\ PutCoherent(w)'
    BY <1>0, <1>1, <1>2 DEF CacheCoherent, PutCoherent, Denotes
  <1>5. StoreTypeOK'
    BY <1>0, RetrySafe DEF StoreTypeOK
  <1> QED BY <1>1, <1>3, <1>4, <1>5, ReadStep DEF Safe

\* A write of the object, by a process that then knows the new version, or by one
\* that lost the answer and still holds the old tag.
LEMMA WriteStep ==
    ASSUME StoreInv, NEW w \in Writers, pc[w] = "put", Holds(w), Replace(w),
           UNCHANGED backend, StoreTypeOK',
           \A v \in Writers \ {w} :
              /\ cached'[v] = cached[v] /\ cache'[v] = cache[v] /\ token'[v] = token[v]
              /\ pc'[v] = pc[v] /\ op'[v] = op[v] /\ put'[v] = put[v],
           Safe(w)'
    PROVE  StoreInv'
  <1>1. /\ object'.version = object.version + 1 /\ AbsentIsEmpty'
        /\ \A v \in Writers :
              /\ cached[v] /\ token[v] = Tag(object)' => cache[v] = object'.doc
              /\ pc[v] = "put" /\ put[v].cond = Tag(object)' =>
                    \A k \in Keys \ op[v].keys : put[v].doc[k] = object'.doc[k]
    BY ReplaceSafe
  <1>2. ASSUME NEW v \in Writers PROVE Safe(v)'
    <2>1. CASE v = w
      BY <2>1
    <2>2. CASE v # w
      <3>0. /\ NoFutureTag(v) /\ LoadsUncached(v) /\ CacheCoherent(v) /\ PutCoherent(v)
            /\ object.version \in Nat /\ token[v].gen \in Nat /\ put[v].cond.gen \in Nat
        BY DEF StoreInv, StoreTypeOK, Tags
      <3>1. NoFutureTag(v)' /\ LoadsUncached(v)'
        BY <1>1, <2>2, <3>0 DEF NoFutureTag, LoadsUncached
      <3>2. CacheCoherent(v)'
        BY <1>1, <2>2, <3>0 DEF CacheCoherent, Denotes
      <3>3. PutCoherent(v)'
        BY <1>1, <2>2, <3>0 DEF PutCoherent, Denotes
      <3> QED BY <3>1, <3>2, <3>3 DEF Safe
    <2> QED BY <2>1, <2>2
  <1> QED BY <1>1, <1>2 DEF StoreInv, Safe

\* A request that succeeds: the cache and the tag are the new version's.
LEMMA PutInv ==
    ASSUME StoreInv, NEW w \in Writers, Put(w), UNCHANGED <<backend, faults>>
    PROVE  StoreInv'
  <1>0. StoreTypeOK
    BY DEF StoreInv
  <1>1. /\ pc[w] = "put" /\ Holds(w) /\ Replace(w) /\ End(w, "ok")
        /\ cached' = [cached EXCEPT ![w] = TRUE]
        /\ cache' = [cache EXCEPT ![w] = put[w].doc]
        /\ token' = [token EXCEPT ![w] = Tag(object)']
        /\ UNCHANGED leads
    BY DEF Put, Tag
  <1>2. /\ object' \in [doc : Documents, version : 0 .. MaxVersion,
                         by : Writers \cup {"nobody"}]
        /\ object'.doc = put[w].doc /\ object'.version = object.version + 1
        /\ AbsentIsEmpty' /\ put[w].doc \in Documents /\ object.version \in Nat
    BY <1>0, <1>1, ReplaceSafe DEF StoreTypeOK
  <1>3. Tag(object)' \in Tags
    BY <1>2, EmptyTypes DEF Tag, Tags
  <1>4. StoreTypeOK'
    BY <1>0, <1>1, <1>2, <1>3, EndSafe DEF StoreTypeOK
  <1>5. /\ cache'[w] = object'.doc /\ token'[w] = Tag(object)'
        /\ put'[w].cond = NoTag /\ pc'[w] = "idle"
    BY <1>0, <1>1, <1>2, EndSafe DEF StoreTypeOK
  <1>6. Safe(w)'
    <2>1. backend' = "s3" => Denotes(Tag(object)', object'.doc)
      BY <1>2 DEF Tag, Denotes, NoTag
    <2>2. backend' = "gcs" => Tag(object)'.gen <= object'.version
      BY <1>2 DEF Tag, NoTag
    <2> QED BY <1>2, <1>5, <2>1, <2>2
            DEF Safe, NoFutureTag, LoadsUncached, CacheCoherent, PutCoherent, NoTag, Denotes
  <1>7. \A v \in Writers \ {w} :
           cached'[v] = cached[v] /\ cache'[v] = cache[v] /\ token'[v] = token[v]
    BY <1>0, <1>1 DEF StoreTypeOK
  <1>8. \A v \in Writers \ {w} : pc'[v] = pc[v] /\ op'[v] = op[v] /\ put'[v] = put[v]
    BY <1>0, <1>1, EndSafe
  <1> QED BY <1>1, <1>4, <1>6, <1>7, <1>8, WriteStep

\* A conflict leaves the object, the cache and the tag alone.
LEMMA PutConflictInv ==
    ASSUME StoreInv, NEW w \in Writers, PutConflict(w), UNCHANGED <<backend, faults>>
    PROVE  StoreInv'
  <1>0. StoreTypeOK
    BY DEF StoreInv
  <1>1. End(w, "conflict") /\ UNCHANGED <<object, leads, cached, cache, token>>
    BY DEF PutConflict
  <1>2. Safe(w)'
    BY <1>1, EndThenSafe
  <1>3. StoreTypeOK'
    BY <1>0, <1>1, EndSafe DEF StoreTypeOK
  <1> QED BY <1>0, <1>1, <1>2, <1>3, EndSafe, ReadStep

\* A request whose answer was lost: retried with the old tag, or given up.
LEMMA LostAnswerInv ==
    ASSUME StoreInv, NEW w \in Writers, pc[w] = "put", Holds(w), Replace(w), Retry(w),
           UNCHANGED <<backend, faults, leads, cached, cache, token>>
    PROVE  StoreInv'
  <1>0. /\ StoreTypeOK /\ NoFutureTag(w) /\ LoadsUncached(w)
        /\ CacheCoherent(w) /\ PutCoherent(w)
        /\ object.version \in Nat /\ token[w].gen \in Nat /\ put[w].cond.gen \in Nat
    BY DEF StoreInv, StoreTypeOK, Tags
  <1>1. /\ put'[w].cond \in {NoTag, put[w].cond}
        /\ pc'[w] \in {"idle", pc[w]}
        /\ pc'[w] = "put" => pc[w] = "put" /\ op'[w] = op[w] /\ put'[w] = put[w]
        /\ \A v \in Writers \ {w} : pc'[v] = pc[v] /\ op'[v] = op[v] /\ put'[v] = put[v]
    BY <1>0, RetrySafe
  <1>2. /\ object' \in [doc : Documents, version : 0 .. MaxVersion,
                         by : Writers \cup {"nobody"}]
        /\ object'.version = object.version + 1
        /\ cached[w] /\ token[w] = Tag(object)' => cache[w] = object'.doc
        /\ pc[w] = "put" /\ put[w].cond = Tag(object)' =>
              \A k \in Keys \ op[w].keys : put[w].doc[k] = object'.doc[k]
    BY ReplaceSafe
  <1>3. NoFutureTag(w)' /\ LoadsUncached(w)'
    BY <1>0, <1>1, <1>2 DEF NoFutureTag, LoadsUncached, NoTag
  <1>4. CacheCoherent(w)'
    BY <1>0, <1>2 DEF CacheCoherent, Denotes
  <1>5. PutCoherent(w)'
    BY <1>0, <1>1, <1>2 DEF PutCoherent, Denotes
  <1>6. StoreTypeOK'
    BY <1>0, <1>2, RetrySafe DEF StoreTypeOK
  <1> QED BY <1>1, <1>3, <1>4, <1>5, <1>6, WriteStep DEF Safe

\* reset() and a restart forget the cache and the tag together.
LEMMA ForgetInv ==
    ASSUME StoreInv, NEW w \in Writers, Forget(w), UNCHANGED <<backend, object>>,
           StoreTypeOK',
           \/ UNCHANGED <<pc, op, put>>
           \/ End(w, "killed")
    PROVE  StoreInv'
  <1>0. /\ StoreTypeOK /\ NoFutureTag(w) /\ LoadsUncached(w) /\ PutCoherent(w)
        /\ object.version \in Nat
    BY DEF StoreInv, StoreTypeOK
  <1>1. /\ pc'[w] = "idle" \/ UNCHANGED <<pc, op, put>>
        /\ put'[w].cond = NoTag \/ UNCHANGED put
        /\ \A v \in Writers \ {w} : pc'[v] = pc[v] /\ op'[v] = op[v] /\ put'[v] = put[v]
    BY <1>0, EndSafe
  <1>2. /\ ~cached'[w] /\ token'[w] = NoTag
        /\ \A v \in Writers \ {w} :
              cached'[v] = cached[v] /\ cache'[v] = cache[v] /\ token'[v] = token[v]
    BY <1>0 DEF Forget, StoreTypeOK
  <1>3. Tag(object)' = Tag(object)
    BY DEF Tag
  <1>4. NoFutureTag(w)' /\ LoadsUncached(w)' /\ CacheCoherent(w)'
    BY <1>0, <1>1, <1>2 DEF NoFutureTag, LoadsUncached, CacheCoherent, NoTag
  <1>5. PutCoherent(w)'
    BY <1>0, <1>1, <1>3 DEF PutCoherent, Denotes
  <1> QED BY <1>1, <1>2, <1>4, <1>5, ReadStep DEF Safe

\* Every step of every process keeps the invariant.
LEMMA StoreNextInv == StoreInv /\ [StoreNext]_storeVars => StoreInv'
  <1> SUFFICES ASSUME StoreInv, [StoreNext]_storeVars PROVE StoreInv'
    OBVIOUS
  <1>0. StoreTypeOK
    BY DEF StoreInv
  <1>1. ASSUME NEW w \in Writers, StoreStep(w), UNCHANGED <<backend, faults>>
        PROVE  StoreInv'
    <2>1. ASSUME NEW o \in Operations, Begin(w, o) PROVE StoreInv'
      BY <1>1, <2>1, BeginInv
    <2>2. CASE Get(w)
      BY <1>1, <2>2, GetInv
    <2>3. CASE GetMetadata(w)
      BY <1>1, <2>3, GetMetadataInv
    <2>4. CASE GetBody(w)
      BY <1>1, <2>4, GetBodyInv
    <2>5. CASE GetFails(w)
      BY <1>1, <2>5, RetryInv DEF GetFails
    <2>6. CASE Put(w)
      BY <1>1, <2>6, PutInv
    <2>7. CASE PutConflict(w)
      BY <1>1, <2>7, PutConflictInv
    <2>8. CASE PutFails(w)
      BY <1>1, <2>8, RetryInv, LostAnswerInv DEF PutFails
    <2>9. CASE LoseAndReset(w)
      <3>1. StoreTypeOK'
        BY <1>0, <1>1, <2>9, EmptyTypes DEF LoseAndReset, Forget, StoreTypeOK
      <3> QED BY <1>1, <2>9, <3>1, ForgetInv DEF LoseAndReset
    <2>10. CASE Lead(w)
      <3>1. StoreTypeOK' /\ UNCHANGED <<object, pc, op, cached, cache, token, put, tries, lost>>
        BY <1>0, <1>1, <2>10 DEF Lead, StoreTypeOK
      <3>2. Safe(w)
        BY DEF StoreInv, Safe
      <3> QED BY <1>1, <3>1, <3>2, UntouchedSafe, ReadStep
    <2>11. CASE Restart(w)
      <3>1. StoreTypeOK'
        BY <1>0, <1>1, <2>11, EmptyTypes, EndSafe DEF Restart, Forget, StoreTypeOK
      <3> QED BY <1>1, <2>11, <3>1, ForgetInv DEF Restart
    <2> QED BY <1>1, <2>1, <2>2, <2>3, <2>4, <2>5, <2>6, <2>7, <2>8, <2>9, <2>10, <2>11
            DEF StoreStep
  <1>2. CASE UNCHANGED storeVars
    <2>1. StoreTypeOK' /\ AbsentIsEmpty'
      BY <1>0, <1>2 DEF StoreInv, StoreTypeOK, AbsentIsEmpty, storeVars
    <2>2. ASSUME NEW v \in Writers PROVE Safe(v)'
      BY <1>2, UntouchedSafe DEF StoreInv, Safe, storeVars
    <2> QED BY <2>1, <2>2 DEF StoreInv, Safe
  <1> QED BY <1>1, <1>2 DEF StoreNext

-----------------------------------------------------------------------------

\* The invariant of the conditional writes holds for any processes, keys, values,
\* faults and either kind of store.
THEOREM StoreInvariant == StoreSpec => []StoreInv
  BY StoreInitInv, StoreNextInv, PTL DEF StoreSpec

\* A step that changes the object changes the keys of one operation in progress.
LEMMA StepLosesNothing ==
    StoreInv /\ [StoreNext]_storeVars =>
    [\E w \in Writers : \A k \in Keys \ op[w].keys : object'.doc[k] = object.doc[k]]_object
  <1> SUFFICES ASSUME StoreInv, StoreNext, object' # object
               PROVE  \E w \in Writers :
                         \A k \in Keys \ op[w].keys : object'.doc[k] = object.doc[k]
    BY DEF storeVars
  <1>1. PICK w \in Writers : StoreStep(w) /\ UNCHANGED backend
    BY DEF StoreNext
  <1>2. pc[w] = "put" /\ Holds(w) /\ Replace(w)
    BY <1>1 DEF StoreStep, Begin, Get, GetMetadata, GetBody, GetFails, Put, PutConflict,
                PutFails, LoseAndReset, Lead, Restart
  <1> QED BY <1>1, <1>2, ReplaceSafe

\* No update is lost: for any number of processes that race, retry, reset and
\* restart, every write of the document keeps the keys that are not its own.
THEOREM ConditionalWritesLoseNothing == StoreSpec => NoLostUpdate
  BY StoreInvariant, StepLosesNothing, PTL DEF StoreSpec, NoLostUpdate

\* As long as no answer is lost and reset() keeps out of running operations, the
\* process that wrote the object last knows the version it wrote, in its cache and
\* in a request that it is sending, and has met no conflict since.
WriterKnows(w) ==
    object.by = w =>
        /\ ~lost[w]
        /\ cached[w] \/ pc[w] = "body" => token[w] = Tag(object)
        /\ pc[w] = "put" => put[w].cond = Tag(object)
WritersKnow == faults \subseteq {"transient"} => \A w \in Writers : WriterKnows(w)

\* What _ensure_loaded goes on with carries the tag that was read.
LEMMA LoadedKnows ==
    ASSUME StoreTypeOK, NEW w \in Writers, NEW o, NEW d, NEW t, Loaded(w, o, d, t)
    PROVE  /\ pc'[w] \in {"idle", "put"} /\ (pc'[w] = "put" => put'[w].cond = t)
           /\ lost[w] = FALSE => lost'[w] = FALSE
           /\ \A v \in Writers \ {w} : pc'[v] = pc[v] /\ put'[v] = put[v] /\ lost'[v] = lost[v]
  <1>1. CASE End(w, "ok")
    BY <1>1 DEF End, StoreTypeOK
  <1>2. CASE ~NothingToDo(o, d)
    BY <1>2 DEF Loaded, StoreTypeOK
  <1> QED BY <1>1, <1>2 DEF Loaded

LEMMA WriterKnowsStep ==
    ASSUME StoreTypeOK, WritersKnow, NEW w \in Writers, StoreStep(w), UNCHANGED <<backend, faults>>
    PROVE  WritersKnow'
  <1> SUFFICES ASSUME faults \subseteq {"transient"}, NEW v \in Writers
               PROVE  WriterKnows(v)'
    BY DEF WritersKnow
  <1>0. WriterKnows(v) /\ WriterKnows(w)
    BY DEF WritersKnow
  <1> USE DEF StoreTypeOK
  \* A step keeps the object, or writes it for the process that takes the step.
  <1>1. /\ UNCHANGED object \/ (object'.by = w /\ Put(w))
        /\ UNCHANGED object => Tag(object)' = Tag(object)
    BY DEF StoreStep, Begin, Get, GetMetadata, GetBody, GetFails, Put, PutConflict, PutFails,
           LoseAndReset, Lead, Restart, Replace, Tag
  <1>2. CASE v # w
    <2>1. /\ lost'[v] = lost[v] /\ cached'[v] = cached[v] /\ pc'[v] = pc[v]
          /\ token'[v] = token[v] /\ put'[v] = put[v]
      BY <1>2 DEF StoreStep, Begin, Get, GetMetadata, GetBody, GetFails, Put, PutConflict, PutFails,
                  LoseAndReset, Lead, Restart, Forget, Loaded, Retry, End
    <2> QED BY <1>0, <1>1, <1>2, <2>1 DEF WriterKnows
  <1>3. CASE v = w
    <2>1. CASE Put(w)
      BY <1>3, <2>1 DEF Put, End, Tag, WriterKnows
    <2>2. CASE UNCHANGED object
      <3> SUFFICES ASSUME object.by = w PROVE WriterKnows(w)'
        BY <1>3, <2>2 DEF WriterKnows
      <3>0. /\ ~lost[w] /\ (cached[w] \/ pc[w] = "body" => token[w] = Tag(object))
            /\ pc[w] = "put" => put[w].cond = Tag(object)
        BY <1>0 DEF WriterKnows
      <3>1. ASSUME NEW o \in Operations, Begin(w, o) PROVE WriterKnows(w)'
        <4>1. CASE End(w, "fenced")
          BY <1>1, <2>2, <3>0, <3>1, <4>1 DEF Begin, End, WriterKnows
        <4>2. CASE cached[w] /\ Loaded(w, o, cache[w], token[w])
          <5>1. UNCHANGED <<token, cached>>
            BY <3>1 DEF Begin
          <5>2. /\ pc'[w] \in {"idle", "put"} /\ (pc'[w] = "put" => put'[w].cond = token[w])
                /\ lost[w] = FALSE => lost'[w] = FALSE
            <6>1. Loaded(w, o, cache[w], token[w])
              BY <4>2
            <6> QED BY <6>1, LoadedKnows
          <5>3. lost[w] = FALSE
            BY <3>0
          <5> QED BY <1>1, <2>2, <3>0, <4>2, <5>1, <5>2, <5>3 DEF WriterKnows
        <4>3. CASE ~cached[w] /\ pc' = [pc EXCEPT ![w] = "get"] /\ UNCHANGED <<put, tries, lost>>
          BY <1>1, <2>2, <3>0, <3>1, <4>3 DEF Begin, WriterKnows
        <4> QED BY <3>1, <4>1, <4>2, <4>3 DEF Begin
      <3>2. CASE Get(w)
        <4>1. token'[w] = Tag(object) /\ Loaded(w, op[w], object.doc, Tag(object))
          BY <3>2 DEF Get
        <4>2. /\ pc'[w] \in {"idle", "put"} /\ (pc'[w] = "put" => put'[w].cond = Tag(object))
              /\ lost[w] = FALSE => lost'[w] = FALSE
          BY <4>1, LoadedKnows
        <4>3. lost[w] = FALSE
          BY <3>0
        <4> QED BY <1>1, <2>2, <4>1, <4>2, <4>3 DEF WriterKnows
      <3>3. CASE GetMetadata(w)
        BY <1>1, <2>2, <3>0, <3>3 DEF GetMetadata, WriterKnows
      <3>4. CASE GetBody(w)
        <4>1. token' = token /\ Loaded(w, op[w], object.doc, token[w]) /\ token[w] = Tag(object)
          BY <3>0, <3>4 DEF GetBody
        <4>2. /\ pc'[w] \in {"idle", "put"} /\ (pc'[w] = "put" => put'[w].cond = token[w])
              /\ lost[w] = FALSE => lost'[w] = FALSE
          BY <4>1, LoadedKnows
        <4>3. lost[w] = FALSE
          BY <3>0
        <4> QED BY <1>1, <2>2, <4>1, <4>2, <4>3 DEF WriterKnows
      <3>5. CASE GetFails(w) \/ PutFails(w)
        <4>1. Retry(w) /\ UNCHANGED <<cached, token>>
          BY <3>5 DEF GetFails, PutFails
        <4>2. CASE UNCHANGED <<pc, op, put, lost>>
          BY <1>1, <2>2, <3>0, <4>1, <4>2 DEF WriterKnows
        <4>3. CASE End(w, "failed")
          BY <1>1, <2>2, <3>0, <4>1, <4>3 DEF End, WriterKnows
        <4> QED BY <4>1, <4>2, <4>3 DEF Retry
      <3>6. ~PutConflict(w)
        BY <3>0 DEF PutConflict, Holds
      <3>7. CASE LoseAndReset(w)
        BY <1>1, <2>2, <3>0, <3>7 DEF LoseAndReset, Forget, WriterKnows
      <3>8. CASE Lead(w)
        BY <1>1, <2>2, <3>0, <3>8 DEF Lead, WriterKnows
      <3>9. CASE Restart(w)
        BY <1>1, <2>2, <3>0, <3>9 DEF Restart, Forget, End, WriterKnows
      <3> QED BY <2>2, <2>1, <3>1, <3>2, <3>3, <3>4, <3>5, <3>6, <3>7, <3>8, <3>9, <1>3 DEF StoreStep
    <2> QED BY <1>1, <2>1, <2>2
  <1> QED BY <1>2, <1>3

\* StateStoreConflictError names the cause (commit_many of s3_store.py and
\* gcs_store.py): for any processes, keys and backend, whoever meets one is not the
\* last writer, unless an answer was lost or reset() fell into an operation.
THEOREM ConflictNamesAnother == StoreSpec => []ConflictMeansOther
  <1>1. StoreInit => WritersKnow
    BY DEF StoreInit, WritersKnow, WriterKnows
  <1>2. StoreInv /\ WritersKnow /\ [StoreNext]_storeVars => WritersKnow'
    <2>1. ASSUME StoreInv, WritersKnow, UNCHANGED storeVars PROVE WritersKnow'
      BY <2>1 DEF storeVars, WritersKnow, WriterKnows, Tag
    <2> QED BY <2>1, WriterKnowsStep DEF StoreInv, StoreNext
  <1>3. WritersKnow => ConflictMeansOther
    BY DEF WritersKnow, WriterKnows, ConflictMeansOther
  <1> QED BY <1>1, <1>2, <1>3, StoreInvariant, PTL DEF StoreSpec

-----------------------------------------------------------------------------
(***************************************************************************)
(* StateFile: the inductive invariant.                                     *)
(***************************************************************************)

\* The variables of the state file have their types.
SfTypeOK ==
    /\ file \in [SfKeys -> Nat]
    /\ flock \in Procs \cup {None}
    /\ proc \in [Procs -> {"new", "loaded", "flushing", "ended"}]
    /\ force \in [Procs -> BOOLEAN]
    /\ sfCache \in [Procs -> [SfKeys -> Nat]]
    /\ touched \in [Procs -> SfKeys \cup {None}]
    /\ writes \in Nat
    /\ may \in [SfKeys -> SUBSET Nat]
    /\ raced \in BOOLEAN

\* A process that uses the file without --force holds the flock, and only such
\* a process holds it.
LockHeld ==
    \A p \in Procs : (Busy(p) /\ ~force[p]) <=> flock = p

\* Two processes use the file at a time only when a command was forced to.
OneAtATime ==
    ~raced => \A p, q \in Procs : Busy(p) /\ Busy(q) => p = q

\* A process that flushes has changed a key of its document.
TouchesAKey ==
    \A p \in Procs : proc[p] = "flushing" => touched[p] \in SfKeys

\* The document of a process at work is as good as the file, the key it is about
\* to write excepted: nobody has written behind its back.
CacheFresh ==
    ~raced => \A p \in Procs : \A k \in SfKeys :
        \/ ~Busy(p)
        \/ proc[p] = "flushing" /\ k = touched[p]
        \/ sfCache[p][k] \in may[k]

SfInv ==
    SfTypeOK /\ LockHeld /\ OneAtATime /\ TouchesAKey /\ CacheFresh /\ CheckpointsKept

-----------------------------------------------------------------------------

\* The invariant holds before any process has started.
LEMMA SfInitInv == SfInit => SfInv
  <1> SUFFICES ASSUME SfInit PROVE SfInv
    OBVIOUS
  <1>1. SfTypeOK
    <2>1. force \in [Procs -> BOOLEAN] /\ raced \in BOOLEAN
      BY DEF SfInit
    <2>2. may \in [SfKeys -> SUBSET Nat]
      BY DEF SfInit
    <2>3. /\ file \in [SfKeys -> Nat]
          /\ sfCache \in [Procs -> [SfKeys -> Nat]]
          /\ touched \in [Procs -> SfKeys \cup {None}]
          /\ writes \in Nat
      BY DEF SfInit, NoCheckpoints
    <2>4. /\ flock \in Procs \cup {None}
          /\ proc \in [Procs -> {"new", "loaded", "flushing", "ended"}]
      BY DEF SfInit
    <2> QED BY <2>1, <2>2, <2>3, <2>4 DEF SfTypeOK
  <1>2. \A p \in Procs : ~Busy(p) /\ proc[p] # "flushing" /\ flock # p
    BY StateFileAssumption DEF SfInit, Busy
  <1>3. CheckpointsKept
    BY DEF SfInit, CheckpointsKept, NoCheckpoints
  <1> QED BY <1>1, <1>2, <1>3 DEF SfInv, LockHeld, OneAtATime, TouchesAKey, CacheFresh

\* What Moves does to the processes and the flock: one that goes on keeps the
\* lock it holds, one that ends releases it, and the others keep theirs.
LEMMA MovesSafe ==
    ASSUME SfTypeOK, LockHeld, UNCHANGED force,
           NEW p \in Procs, NEW st \in {"loaded", "flushing", "ended"},
           Busy(p) \/ (st = "ended" /\ flock # p), Moves(p, st)
    PROVE  /\ proc' = [proc EXCEPT ![p] = st]
           /\ proc' \in [Procs -> {"new", "loaded", "flushing", "ended"}]
           /\ flock' \in Procs \cup {None}
           /\ LockHeld'
           /\ \A q \in Procs : Busy(q)' => Busy(q) \/ q = p
           /\ Busy(p)' <=> st # "ended"
  <1>1. /\ proc' = [proc EXCEPT ![p] = st]
        /\ proc' \in [Procs -> {"new", "loaded", "flushing", "ended"}]
        /\ flock' \in Procs \cup {None}
    BY DEF Moves, SfTypeOK
  <1>2. /\ \A q \in Procs \ {p} : Busy(q)' <=> Busy(q)
        /\ Busy(p)' <=> st # "ended"
    BY <1>1 DEF Busy, SfTypeOK
  <1>3. ASSUME NEW q \in Procs PROVE (Busy(q)' /\ ~force[q]') <=> flock' = q
    <2>1. None \notin Procs
      BY StateFileAssumption
    <2>2. CASE st = "ended" /\ flock = p
      <3>1. flock' = None
        BY <2>2 DEF Moves
      <3>2. ~(Busy(q)' /\ ~force[q]')
        BY <1>2, <2>2 DEF LockHeld
      <3> QED BY <2>1, <3>1, <3>2
    <2>3. CASE ~(st = "ended" /\ flock = p)
      <3>1. flock' = flock
        BY <2>3 DEF Moves
      <3>2. CASE q # p
        BY <1>2, <3>1, <3>2 DEF LockHeld
      <3>3. CASE q = p
        BY <1>2, <2>3, <3>1, <3>3 DEF LockHeld
      <3> QED BY <3>2, <3>3
    <2> QED BY <2>2, <2>3
  <1> QED BY <1>1, <1>2, <1>3 DEF LockHeld

-----------------------------------------------------------------------------

\* A step of one process that goes to st, in the words of the invariant: what is
\* left to show of it is that its document and the file stay as good as each other.
LEMMA StepSafe ==
    ASSUME SfInv, UNCHANGED <<force, raced>>,
           NEW p \in Procs, NEW st \in {"loaded", "flushing", "ended"},
           Busy(p), Moves(p, st), SfTypeOK',
           st = "flushing" => touched'[p] \in SfKeys,
           \A q \in Procs \ {p} : touched'[q] = touched[q],
           ~raced => \A k \in SfKeys :
                /\ file'[k] \in may'[k]
                /\ \/ st = "ended"
                   \/ st = "flushing" /\ k = touched'[p]
                   \/ sfCache'[p][k] \in may'[k]
    PROVE  SfInv'
  <1>1. /\ proc' = [proc EXCEPT ![p] = st]
        /\ LockHeld'
        /\ \A q \in Procs : Busy(q)' => Busy(q) \/ q = p
        /\ Busy(p)' <=> st # "ended"
    BY MovesSafe DEF SfInv
  <1>2. OneAtATime'
    BY <1>1 DEF SfInv, OneAtATime
  <1>3. TouchesAKey'
    BY <1>1 DEF SfInv, TouchesAKey, SfTypeOK
  <1>4. CacheFresh'
    <2> SUFFICES ASSUME ~raced, NEW q \in Procs, NEW k \in SfKeys, Busy(q)'
                 PROVE  \/ proc'[q] = "flushing" /\ k = touched'[q]
                        \/ sfCache'[q][k] \in may'[k]
      BY DEF CacheFresh
    <2>1. q = p
      BY <1>1 DEF SfInv, OneAtATime
    <2>2. proc'[p] = st
      BY <1>1 DEF SfInv, SfTypeOK
    <2> QED BY <1>1, <2>1, <2>2
  <1>5. CheckpointsKept'
    BY DEF CheckpointsKept
  <1> QED BY <1>1, <1>2, <1>3, <1>4, <1>5 DEF SfInv

\* A process loads the file: another one is at work only beside a forced one.
LEMMA SfLoadSafe ==
    ASSUME SfInv, NEW p \in Procs, SfLoad(p) PROVE SfInv'
  <1>1. /\ proc[p] = "new" /\ ~Busy(p) /\ flock # p
        /\ proc' = [proc EXCEPT ![p] = "loaded"]
        /\ sfCache' = [sfCache EXCEPT ![p] = file]
        /\ flock' = IF force[p] THEN flock ELSE p
        /\ UNCHANGED <<file, force, touched, writes, may>>
    BY DEF SfLoad, Busy, SfInv, LockHeld
  <1>2. ~force[p] => flock = None
    BY <1>1 DEF SfLoad, LockRefused
  <1>3. raced' \in BOOLEAN /\ (~raced' => ~raced /\ \A q \in Procs \ {p} :
            Busy(q) => ~force[p] /\ ~force[q])
    BY DEF SfLoad, SfInv, SfTypeOK
  <1>4. SfTypeOK'
    <2>1. proc' \in [Procs -> {"new", "loaded", "flushing", "ended"}]
      BY <1>1 DEF SfInv, SfTypeOK
    <2>2. sfCache' \in [Procs -> [SfKeys -> Nat]]
      BY <1>1 DEF SfInv, SfTypeOK
    <2>3. flock' \in Procs \cup {None}
      BY <1>1 DEF SfInv, SfTypeOK
    <2> QED BY <1>1, <1>3, <2>1, <2>2, <2>3 DEF SfInv, SfTypeOK
  <1>5. /\ Busy(p)' /\ proc'[p] = "loaded"
        /\ \A q \in Procs \ {p} : proc'[q] = proc[q] /\ (Busy(q)' <=> Busy(q))
    BY <1>1 DEF Busy, SfInv, SfTypeOK
  <1>6. None \notin Procs
    BY StateFileAssumption
  <1>7. LockHeld'
    <2> SUFFICES ASSUME NEW q \in Procs
                 PROVE  (Busy(q)' /\ ~force[q]) <=> flock' = q
      BY <1>1 DEF LockHeld
    <2>1. CASE q = p
      BY <1>1, <1>5, <2>1
    <2>2. CASE q # p
      BY <1>1, <1>2, <1>5, <1>6, <2>2 DEF SfInv, LockHeld
    <2> QED BY <2>1, <2>2
  <1>8. ASSUME ~raced', NEW q \in Procs \ {p} PROVE ~Busy(q)
    BY <1>2, <1>3, <1>6, <1>8 DEF SfInv, LockHeld
  <1>9. OneAtATime'
    BY <1>5, <1>8 DEF OneAtATime
  <1>10. TouchesAKey'
    BY <1>1, <1>5 DEF SfInv, TouchesAKey
  <1>11. CacheFresh'
    <2> SUFFICES ASSUME ~raced', NEW q \in Procs, NEW k \in SfKeys, Busy(q)'
                 PROVE  sfCache'[q][k] \in may'[k]
      BY DEF CacheFresh
    <2>1. q = p
      BY <1>5, <1>8
    <2>2. sfCache'[p] = file
      BY <1>1 DEF SfInv, SfTypeOK
    <2> QED BY <1>1, <1>3, <2>1, <2>2 DEF SfInv, CheckpointsKept
  <1>12. CheckpointsKept'
    BY <1>1, <1>3 DEF SfInv, CheckpointsKept
  <1> QED BY <1>4, <1>7, <1>9, <1>10, <1>11, <1>12 DEF SfInv

\* A process that is not at work is refused, or started again: nothing is written.
LEMMA SfIdleSafe ==
    ASSUME SfInv, NEW p \in Procs, SfRefused(p) \/ SfRun(p) PROVE SfInv'
  <1>1. /\ ~Busy(p) /\ flock # p
        /\ UNCHANGED <<file, sfCache, touched, writes, may, raced>>
        /\ flock' = flock
    BY DEF SfRefused, SfRun, LockRefused, Busy, Moves, SfInv, LockHeld
  <1>2. /\ proc' \in [Procs -> {"new", "loaded", "flushing", "ended"}]
        /\ ~Busy(p)' /\ \A q \in Procs \ {p} : proc'[q] = proc[q] /\ (Busy(q)' <=> Busy(q))
    BY DEF SfRefused, SfRun, Busy, Moves, SfInv, SfTypeOK
  <1>3. force' \in [Procs -> BOOLEAN] /\ \A q \in Procs \ {p} : force'[q] = force[q]
    BY DEF SfRefused, SfRun, SfInv, SfTypeOK
  <1>4. SfTypeOK'
    BY <1>1, <1>2, <1>3 DEF SfInv, SfTypeOK
  <1>5. LockHeld'
    <2> SUFFICES ASSUME NEW q \in Procs
                 PROVE  (Busy(q)' /\ ~force'[q]) <=> flock' = q
      BY DEF LockHeld
    <2>1. CASE q = p
      BY <1>1, <1>2, <2>1
    <2>2. CASE q # p
      BY <1>1, <1>2, <1>3, <2>2 DEF SfInv, LockHeld
    <2> QED BY <2>1, <2>2
  <1>6. OneAtATime'
    BY <1>1, <1>2 DEF SfInv, OneAtATime
  <1>7. TouchesAKey'
    <2> SUFFICES ASSUME NEW q \in Procs, proc'[q] = "flushing"
                 PROVE  touched'[q] \in SfKeys
      BY DEF TouchesAKey
    <2>1. q # p
      BY <1>2 DEF Busy
    <2> QED BY <1>1, <1>2, <2>1 DEF SfInv, TouchesAKey
  <1>8. CacheFresh'
    <2> SUFFICES ASSUME ~raced, NEW q \in Procs, NEW k \in SfKeys, Busy(q)'
                 PROVE  \/ proc'[q] = "flushing" /\ k = touched'[q]
                        \/ sfCache'[q][k] \in may'[k]
      BY <1>1 DEF CacheFresh
    <2>1. q # p
      BY <1>2
    <2> QED BY <1>1, <1>2, <2>1 DEF SfInv, CacheFresh
  <1>9. CheckpointsKept'
    BY <1>1 DEF SfInv, CheckpointsKept
  <1> QED BY <1>4, <1>5, <1>6, <1>7, <1>8, <1>9 DEF SfInv

\* A commit, or a delete, changes the document at the key it is about.
LEMMA SfChangeSafe ==
    ASSUME SfInv, NEW p \in Procs, SfCommit(p) \/ SfDelete(p) PROVE SfInv'
  <1>1. /\ proc[p] = "loaded" /\ Busy(p)
        /\ UNCHANGED <<file, force, may, raced>>
        /\ writes' \in Nat
    BY DEF SfCommit, SfDelete, Busy, SfInv, SfTypeOK
  <1>2. PICK k \in SfKeys, v \in Nat, st \in {"flushing", "ended"} :
            /\ touched' = [touched EXCEPT ![p] = k]
            /\ Moves(p, st)
            /\ sfCache' = sfCache \/ sfCache' = [sfCache EXCEPT ![p][k] = v]
    <2>1. CASE SfCommit(p)
      <3>1. PICK k \in SfKeys :
               /\ touched' = [touched EXCEPT ![p] = k]
               /\ Moves(p, "flushing")
               /\ sfCache' = [sfCache EXCEPT ![p][k] = writes + 1]
        BY <2>1 DEF SfCommit
      <3>2. writes + 1 \in Nat
        BY DEF SfInv, SfTypeOK
      <3> QED BY <3>1, <3>2
    <2>2. CASE SfDelete(p)
      <3>1. PICK k \in SfKeys :
               /\ touched' = [touched EXCEPT ![p] = k]
               /\ \/ Moves(p, "ended") /\ UNCHANGED sfCache
                  \/ Moves(p, "flushing") /\ sfCache' = [sfCache EXCEPT ![p][k] = 0]
        BY <2>2 DEF SfDelete
      <3>2. 0 \in Nat
        OBVIOUS
      <3> QED BY <3>1, <3>2
    <2> QED BY <2>1, <2>2
  <1>3. sfCache \in [Procs -> [SfKeys -> Nat]] /\ touched \in [Procs -> SfKeys \cup {None}]
    BY DEF SfInv, SfTypeOK
  <1>4. /\ sfCache' \in [Procs -> [SfKeys -> Nat]]
        /\ \A j \in SfKeys \ {k} : sfCache'[p][j] = sfCache[p][j]
    BY <1>2, <1>3
  <1>5. /\ touched' \in [Procs -> SfKeys \cup {None}] /\ touched'[p] = k
        /\ \A q \in Procs \ {p} : touched'[q] = touched[q]
    BY <1>2, <1>3
  <1>6. /\ proc' \in [Procs -> {"new", "loaded", "flushing", "ended"}]
        /\ flock' \in Procs \cup {None}
    BY <1>1, <1>2, MovesSafe DEF SfInv
  <1>7. SfTypeOK'
    BY <1>1, <1>4, <1>5, <1>6 DEF SfInv, SfTypeOK
  <1>8. ~raced => \A j \in SfKeys : file[j] \in may[j] /\ sfCache[p][j] \in may[j]
    BY <1>1 DEF SfInv, CheckpointsKept, CacheFresh
  <1>9. ~raced => \A j \in SfKeys :
            file'[j] \in may'[j] /\ (j = touched'[p] \/ sfCache'[p][j] \in may'[j])
    BY <1>1, <1>4, <1>5, <1>8
  <1>10. CASE st = "flushing"
    BY <1>1, <1>2, <1>5, <1>7, <1>9, <1>10, StepSafe
  <1>11. CASE st = "ended"
    BY <1>1, <1>2, <1>5, <1>7, <1>9, <1>11, StepSafe
  <1> QED BY <1>10, <1>11

\* The document is written, in whole or not at all; what the file may hold at the
\* key of the call follows.
LEMMA SfWriteSafe ==
    ASSUME SfInv, NEW p \in Procs, SfFlush(p) \/ SfFlushFails(p) \/ SfKilled(p) PROVE SfInv'
  <1>1. /\ Busy(p)
        /\ UNCHANGED <<force, sfCache, touched, writes, raced>>
    BY DEF SfFlush, SfFlushFails, SfKilled, Busy
  <1>2. PICK st \in {"loaded", "ended"} : Moves(p, st) /\ (proc[p] = "flushing" \/ st = "ended")
    BY DEF SfFlush, SfFlushFails, SfKilled, AfterCall
  <1> DEFINE t == touched[p]
             v == sfCache[p][t]
  <1>3. \/ proc[p] # "flushing" /\ file' = file /\ may' = may
        \/ /\ proc[p] = "flushing"
           /\ \/ file' = sfCache[p] /\ may' = [may EXCEPT ![t] = {v}]
              \/ file' \in {file, sfCache[p]} /\ may' = [may EXCEPT ![t] = @ \cup {v}]
    BY DEF SfFlush, SfFlushFails, SfKilled
  <1>4. /\ file \in [SfKeys -> Nat] /\ may \in [SfKeys -> SUBSET Nat]
        /\ sfCache[p] \in [SfKeys -> Nat]
        /\ proc[p] = "flushing" => t \in SfKeys
    BY DEF SfInv, SfTypeOK, TouchesAKey
  <1>5. file' \in [SfKeys -> Nat]
    BY <1>3, <1>4
  <1>6. may' \in [SfKeys -> SUBSET Nat]
    <2>1. proc[p] = "flushing" => v \in Nat
      BY <1>4
    <2> QED BY <1>3, <1>4, <2>1
  <1>7. SfTypeOK'
    BY <1>1, <1>2, <1>5, <1>6, MovesSafe DEF SfInv, SfTypeOK
  <1>8. ~raced => \A k \in SfKeys : file[k] \in may[k] /\
            (sfCache[p][k] \in may[k] \/ (proc[p] = "flushing" /\ k = t))
    BY <1>1 DEF SfInv, CheckpointsKept, CacheFresh
  <1>9. ASSUME ~raced, NEW k \in SfKeys
        PROVE  file'[k] \in may'[k] /\ (st = "ended" \/ sfCache[p][k] \in may'[k])
    <2>1. CASE proc[p] # "flushing"
      BY <1>2, <1>3, <1>8, <1>9, <2>1
    <2>2. CASE proc[p] = "flushing" /\ k = t
      <3>1. v \in may'[t] /\ file'[t] \in may'[t]
        BY <1>3, <1>4, <1>8, <1>9, <2>2
      <3> QED BY <2>2, <3>1
    <2>3. CASE proc[p] = "flushing" /\ k # t
      <3>1. may'[k] = may[k] /\ file'[k] \in {file[k], sfCache[p][k]}
        BY <1>3, <1>4, <2>3
      <3> QED BY <1>8, <1>9, <2>3, <3>1
    <2> QED BY <2>1, <2>2, <2>3
  <1>10. st # "flushing"
    OBVIOUS
  <1> HIDE DEF t, v
  <1> QED BY <1>1, <1>2, <1>7, <1>9, <1>10, StepSafe

-----------------------------------------------------------------------------

\* Every step keeps the invariant.
LEMMA SfStepInv == SfInv /\ [SfNext]_sfVars => SfInv'
  <1> SUFFICES ASSUME SfInv, [SfNext]_sfVars PROVE SfInv'
    OBVIOUS
  <1>1. CASE UNCHANGED sfVars
    BY <1>1 DEF sfVars, SfInv, SfTypeOK, LockHeld, OneAtATime, TouchesAKey, CacheFresh,
                CheckpointsKept, Busy
  <1>2. ASSUME NEW p \in Procs, SfRun(p) \/ SfRefused(p) PROVE SfInv'
    BY <1>2, SfIdleSafe
  <1>3. ASSUME NEW p \in Procs, SfLoad(p) PROVE SfInv'
    BY <1>3, SfLoadSafe
  <1>4. ASSUME NEW p \in Procs, SfCommit(p) \/ SfDelete(p) PROVE SfInv'
    BY <1>4, SfChangeSafe
  <1>5. ASSUME NEW p \in Procs, SfFlush(p) \/ SfFlushFails(p) \/ SfKilled(p) PROVE SfInv'
    BY <1>5, SfWriteSafe
  <1> QED BY <1>1, <1>2, <1>3, <1>4, <1>5 DEF SfNext

\* No acknowledged checkpoint of the state file is undone by the cached document of
\* another process, whoever starts, dies or fails to write, unless an operator
\* forced a command past the flock beside a running process.
THEOREM CheckpointsKeptAlways == SfSpec => []CheckpointsKept
  <1>1. SfInv => CheckpointsKept
    BY DEF SfInv
  <1> QED BY <1>1, SfInitInv, SfStepInv, PTL DEF SfSpec

-----------------------------------------------------------------------------
(***************************************************************************)
(* OrgView: what a checkpoint stands for, whichever key it is under.       *)
(***************************************************************************)

\* The variables of the view have their types.
OvTypeOK ==
    /\ severalOrgs \in BOOLEAN
    /\ pos \in [ViewOrgs -> -1..MaxRead]
    /\ bare \in 0..MaxRead
    /\ prefixed \in [ViewOrgs -> 0..MaxRead]
    /\ delivered \in [ViewOrgs -> SUBSET Nat]

\* The events an org's checkpoint under its prefix covers have been delivered, and
\* the bare key is the first org's.
KeysCovered ==
    /\ \A o \in ViewOrgs : \A n \in 1..prefixed[o] : n \in delivered[o]
    /\ \A n \in 1..bare : n \in delivered[LegacyOrg]

\* Only the first org has a source in a single-org configuration.
SingleIsFirst ==
    ~severalOrgs => \A o \in ViewOrgs \ {LegacyOrg} : pos[o] = -1

OvInv == OvTypeOK /\ KeysCovered /\ SingleIsFirst /\ NoOrgSkips

\* Nothing has been read before the sources start.
LEMMA OvInitInv == OvInit => OvInv
  BY OrgViewAssumption
  DEF OvInit, OvInv, OvTypeOK, KeysCovered, SingleIsFirst, NoOrgSkips

\* A source starts at a checkpoint of its own org.
LEMMA OvStartSafe ==
    ASSUME OvInv, NEW o \in ViewOrgs, OvStart(o) PROVE OvInv'
  <1>1. ViewLoad(o) \in 0..MaxRead /\ \A n \in 1..ViewLoad(o) : n \in delivered[o]
    BY DEF ViewLoad, OvStart, OvInv, OvTypeOK, KeysCovered
  <1>2. OvTypeOK'
    BY <1>1 DEF OvStart, OvInv, OvTypeOK
  <1>3. KeysCovered'
    BY DEF OvStart, OvInv, KeysCovered
  <1>4. SingleIsFirst'
    BY DEF OvStart, OvInv, OvTypeOK, SingleIsFirst
  <1>5. NoOrgSkips'
    <2> SUFFICES ASSUME NEW p \in ViewOrgs, NEW n \in 1..pos'[p] PROVE n \in delivered[p]
      BY DEF NoOrgSkips, OvStart
    <2>1. CASE p = o
      BY <1>1, <2>1 DEF OvStart, OvInv, OvTypeOK
    <2>2. CASE p # o
      BY <2>2 DEF OvStart, OvInv, OvTypeOK, NoOrgSkips
    <2> QED BY <2>1, <2>2
  <1> QED BY <1>2, <1>3, <1>4, <1>5 DEF OvInv

\* The next event is delivered.
LEMMA OvDeliverSafe ==
    ASSUME OvInv, NEW o \in ViewOrgs, OvDeliver(o) PROVE OvInv'
  <1>1. /\ pos[o] \in 0..(MaxRead - 1) /\ MaxRead \in Nat
        /\ pos' = [pos EXCEPT ![o] = pos[o] + 1]
        /\ delivered' = [delivered EXCEPT ![o] = @ \cup {pos[o] + 1}]
        /\ UNCHANGED <<severalOrgs, bare, prefixed>>
    BY OrgViewAssumption DEF OvDeliver
  <1>2. \A p \in ViewOrgs : delivered[p] \subseteq delivered'[p]
    BY <1>1 DEF OvInv, OvTypeOK
  <1>3. OvTypeOK'
    <2>1. pos' \in [ViewOrgs -> -1..MaxRead]
      BY <1>1 DEF OvInv, OvTypeOK
    <2>2. pos[o] + 1 \in Nat
      BY <1>1
    <2>3. delivered' \in [ViewOrgs -> SUBSET Nat]
      BY <1>1, <2>2 DEF OvInv, OvTypeOK
    <2> QED BY <1>1, <2>1, <2>3 DEF OvInv, OvTypeOK
  <1>4. KeysCovered'
    <2>1. LegacyOrg \in ViewOrgs
      BY OrgViewAssumption
    <2> QED BY <1>1, <1>2, <2>1 DEF OvInv, KeysCovered
  <1>5. SingleIsFirst'
    BY <1>1 DEF OvInv, OvTypeOK, SingleIsFirst
  <1>6. NoOrgSkips'
    <2> SUFFICES ASSUME NEW p \in ViewOrgs, NEW n \in 1..pos'[p] PROVE n \in delivered'[p]
      BY DEF NoOrgSkips
    <2>1. CASE p = o
      <3>1. pos'[o] = pos[o] + 1 /\ delivered'[o] = delivered[o] \cup {pos[o] + 1}
        BY <1>1 DEF OvInv, OvTypeOK
      <3>2. n \in 1..pos[o] \/ n = pos[o] + 1
        BY <1>1, <2>1, <3>1
      <3> QED BY <2>1, <3>1, <3>2 DEF OvInv, NoOrgSkips
    <2>2. CASE p # o
      BY <1>1, <2>2 DEF OvInv, OvTypeOK, NoOrgSkips
    <2> QED BY <2>1, <2>2
  <1> QED BY <1>3, <1>4, <1>5, <1>6 DEF OvInv

\* A source commits what it has delivered, under the key of its own org.
LEMMA OvCommitSafe ==
    ASSUME OvInv, NEW o \in ViewOrgs, OvCommit(o) PROVE OvInv'
  <1>1. pos[o] \in 0..MaxRead /\ (~severalOrgs => o = LegacyOrg)
    BY OrgViewAssumption DEF OvCommit, OvInv, OvTypeOK, SingleIsFirst
  <1>2. OvTypeOK'
    BY <1>1 DEF OvCommit, ViewCommits, OvInv, OvTypeOK
  <1>3. KeysCovered'
    BY <1>1 DEF OvCommit, ViewCommits, OvInv, OvTypeOK, KeysCovered, NoOrgSkips
  <1>4. SingleIsFirst' /\ NoOrgSkips'
    BY DEF OvCommit, OvInv, SingleIsFirst, NoOrgSkips
  <1> QED BY <1>2, <1>3, <1>4 DEF OvInv

\* Every step keeps the invariant.
LEMMA OvStepInv == OvInv /\ [OvNext]_ovVars => OvInv'
  <1> SUFFICES ASSUME OvInv, [OvNext]_ovVars PROVE OvInv'
    OBVIOUS
  <1>1. CASE UNCHANGED ovVars
    BY <1>1 DEF ovVars, OvInv, OvTypeOK, KeysCovered, SingleIsFirst, NoOrgSkips
  <1>2. CASE OvRestart
    BY <1>2, OrgViewAssumption
    DEF OvRestart, OvInv, OvTypeOK, KeysCovered, SingleIsFirst, NoOrgSkips
  <1>3. ASSUME NEW o \in ViewOrgs, OvStart(o) PROVE OvInv'
    BY <1>3, OvStartSafe
  <1>4. ASSUME NEW o \in ViewOrgs, OvDeliver(o) PROVE OvInv'
    BY <1>4, OvDeliverSafe
  <1>5. ASSUME NEW o \in ViewOrgs, OvCommit(o) PROVE OvInv'
    BY <1>5, OvCommitSafe
  <1> QED BY <1>1, <1>2, <1>3, <1>4, <1>5 DEF OvNext

\* No org skips events because of the checkpoint of another, however often the
\* process is restarted with one org or several.
THEOREM NoOrgSkipsAlways == OvSpec => []NoOrgSkips
  <1>1. OvInv => NoOrgSkips
    BY DEF OvInv
  <1> QED BY <1>1, OvInitInv, OvStepInv, PTL DEF OvSpec

-----------------------------------------------------------------------------
(***************************************************************************)
(* EgressGovernor.                                                         *)
(***************************************************************************)

USE EgressAssumption

\* The initial state satisfies the invariant.
LEMMA EgressInitInv == EgressInit => EgressInv
<1> SUFFICES ASSUME EgressInit PROVE EgressInv
  OBVIOUS
<1>1. 0 \in 0..MaxDay /\ 0 \in 0..MaxBatch /\ 0 \in 0..MaxDay + 1
  OBVIOUS
<1>2. EgressTypeOK
  BY <1>1 DEF EgressInit, EgressTypeOK
<1>3. SavedIsLastDay /\ UsedSurvivesRestart /\ IdleWhenStopped
  BY <1>1 DEF EgressInit, SavedIsLastDay, UsedSurvivesRestart, IdleWhenStopped
<1> QED
  BY <1>2, <1>3 DEF EgressInv

\* The counter after _maybe_rollover is the total recorded for today.
LEMMA UsedTodayIsTotal ==
    ASSUME EgressInv, running
    PROVE  UsedToday \in Nat /\ UsedToday = recorded[today]
BY DEF EgressInv, EgressTypeOK, SavedIsLastDay, UsedSurvivesRestart, UsedToday

\* What start() loads is the total recorded for today.
LEMMA SavedCountIsTotal ==
    ASSUME EgressInv
    PROVE  SavedCount \in Nat /\ SavedCount = recorded[today]
BY DEF EgressInv, EgressTypeOK, SavedIsLastDay, SavedCount

\* Every step keeps the invariant.
LEMMA EgressStep ==
    ASSUME EgressInv, [EgressNext]_egressVars
    PROVE  EgressInv'
<1>0. UNCHANGED action
  BY DEF EgressNext, egressVars
<1> USE <1>0 DEF EgressInv, EgressTypeOK, SavedIsLastDay, UsedSurvivesRestart, IdleWhenStopped, laneState
<1>1. CASE Start
  <2>1. paused' \in BOOLEAN
    BY <1>1, Zenon DEF Start
  <2>2. used' \in Nat /\ used' = recorded'[date'] /\ date' = today
    BY <1>1, SavedCountIsTotal DEF Start
  <2>3. EgressTypeOK'
    <3>1. running' = TRUE /\ stop' = FALSE /\ runs' = runs + 1
          /\ UNCHANGED <<today, saved, lane, size, wake, recorded>>
      BY <1>1 DEF Start
    <3>2. running' \in BOOLEAN /\ stop' \in BOOLEAN
      BY <3>1
    <3>3. runs' \in Nat /\ date' \in 0..MaxDay
      BY <2>2, <3>1
    <3> QED
      BY <2>1, <2>2, <3>1, <3>2, <3>3, Zenon
  <2>4. SavedIsLastDay'
    BY <1>1, <2>2 DEF Start
  <2>5. IdleWhenStopped' /\ UsedSurvivesRestart'
    BY <1>1, <2>2 DEF Start
  <2> QED
    BY <2>3, <2>4, <2>5
<1>2. CASE SetStop
  BY <1>2 DEF SetStop
<1>3. CASE RunEnds
  <2>1. paused' \in BOOLEAN
    BY <1>3, Zenon DEF RunEnds
  <2>2. EgressTypeOK'
    <3>1. running' = FALSE /\ lane' = [l \in Lanes |-> "idle"] /\ size' = [l \in Lanes |-> 0]
          /\ UNCHANGED <<today, date, used, saved, wake, stop, runs, recorded>>
      BY <1>3 DEF RunEnds
    <3>2. lane' \in [Lanes -> {"idle", "paused", "push"}] /\ size' \in [Lanes -> 0..MaxBatch]
      BY <3>1
    <3>3. running' \in BOOLEAN
      BY <3>1
    <3> QED
      BY <2>1, <3>1, <3>2, <3>3, Zenon
  <2>3. SavedIsLastDay'
    BY <1>3 DEF RunEnds
  <2>4. IdleWhenStopped' /\ UsedSurvivesRestart'
    BY <1>3 DEF RunEnds
  <2> QED
    BY <2>2, <2>3, <2>4
<1>4. CASE Midnight
  BY <1>4 DEF Midnight
<1>5. ASSUME NEW l \in Lanes, NEW b \in BatchSizes, Admit(l, b)
      PROVE  EgressInv'
  <2>1. UsedToday \in Nat /\ UsedToday = recorded[today]
    BY <1>5, UsedTodayIsTotal DEF Admit
  <2>2. b \in 0..MaxBatch /\ today + 1 \in 0..MaxDay + 1
    OBVIOUS
  <2>3. date' = today /\ used' = UsedToday /\ running
        /\ UNCHANGED <<today, saved, stop, running, runs, recorded>>
    BY <1>5 DEF Admit
  <2>4. lane' \in [Lanes -> {"idle", "paused", "push"}] /\ size' \in [Lanes -> 0..MaxBatch]
        /\ wake' \in [Lanes -> 0..MaxDay + 1] /\ paused' \in BOOLEAN
    <3>1. CASE Enter(l, "push", b) /\ UNCHANGED <<paused, wake>>
      BY <2>2, <3>1 DEF Enter
    <3>2. CASE UNCHANGED <<lane, size, paused, wake>>
      BY <3>2
    <3>3. CASE /\ paused' = TRUE
               /\ Enter(l, IF stop THEN "push" ELSE "paused", b)
               /\ wake' = [wake EXCEPT ![l] = IF stop THEN @ ELSE today + 1]
      <4>1. CASE stop
        BY <2>2, <3>3, <4>1 DEF Enter
      <4>2. CASE ~stop
        BY <2>2, <3>3, <4>2 DEF Enter
      <4> QED
        BY <4>1, <4>2
    <3> QED
      BY <1>5, <3>1, <3>2, <3>3 DEF Admit
  <2>5. EgressTypeOK'
    BY <2>1, <2>3, <2>4
  <2>6. SavedIsLastDay'
    BY <2>1, <2>3
  <2>7. IdleWhenStopped' /\ UsedSurvivesRestart'
    BY <2>1, <2>3
  <2> QED
    BY <2>5, <2>6, <2>7
<1>6. ASSUME NEW l \in Lanes, Wake(l)
      PROVE  EgressInv'
  <2>1. running
    BY <1>6 DEF Wake
  <2>2. CASE today # date /\ date' = today /\ used' = 0 /\ paused' = FALSE
             /\ lane' = [lane EXCEPT ![l] = "push"] /\ UNCHANGED wake
    <3>1. recorded[today] = 0
      BY <2>2
    <3>2. EgressTypeOK'
      BY <1>6, <2>2 DEF Wake
    <3>3. SavedIsLastDay'
      BY <1>6, <2>2 DEF Wake
    <3>4. IdleWhenStopped' /\ UsedSurvivesRestart'
      BY <1>6, <2>1, <2>2, <3>1 DEF Wake
    <3> QED
      BY <3>2, <3>3, <3>4
  <2>3. CASE wake' = [wake EXCEPT ![l] = today + 1] /\ UNCHANGED <<date, used, paused, lane>>
    BY <1>6, <2>1, <2>3 DEF Wake
  <2> QED
    BY <1>6, <2>2, <2>3 DEF Wake
<1>7. ASSUME NEW l \in Lanes, StopDuringPause(l)
      PROVE  EgressInv'
  BY <1>7 DEF StopDuringPause
<1>8. ASSUME NEW l \in Lanes, Record(l)
      PROVE  EgressInv'
  <2>1. running /\ size[l] \in Nat
    BY <1>8 DEF Record
  <2>2. UsedToday \in Nat /\ UsedToday = recorded[today]
    BY <2>1, UsedTodayIsTotal
  <2>3. recorded' = [recorded EXCEPT ![today] = @ + size[l]] /\ date' = today
        /\ used' = UsedToday + size[l] /\ saved' = [day |-> today, bytes |-> used']
        /\ lane' = [lane EXCEPT ![l] = "idle"] /\ size' = [size EXCEPT ![l] = 0]
        /\ UNCHANGED <<today, paused, wake, stop, running, runs>>
    BY <1>8 DEF Record, Enter
  <2>4. recorded'[today] = used' /\ recorded' \in [0..MaxDay -> Nat] /\ used' \in Nat
    <3>1. recorded'[today] = recorded[today] + size[l]
      BY <2>3
    <3>2. recorded[today] + size[l] \in Nat
      BY <2>1
    <3>3. recorded' \in [0..MaxDay -> Nat]
      BY <2>3, <3>2
    <3> QED
      BY <2>2, <2>3, <3>1, <3>2, <3>3
  <2>5. \A d \in 0..MaxDay : d > today => recorded'[d] = 0
    <3> SUFFICES ASSUME NEW d \in 0..MaxDay, d > today
                 PROVE  recorded'[d] = 0
      OBVIOUS
    <3>1. d > saved.day
      OBVIOUS
    <3>2. recorded[d] = 0
      BY <3>1
    <3>3. recorded'[d] = recorded[d]
      BY <2>3
    <3> QED
      BY <3>2, <3>3
  <2>6. EgressTypeOK'
    BY <2>3, <2>4
  <2> QED
    BY <2>1, <2>3, <2>4, <2>5, <2>6
<1>9. ASSUME NEW l \in Lanes, PushGivesUp(l)
      PROVE  EgressInv'
  BY <1>9 DEF PushGivesUp, Enter
<1>10. CASE UNCHANGED egressVars
  BY <1>10 DEF egressVars
<1> QED
  BY <1>1, <1>2, <1>3, <1>4, <1>5, <1>6, <1>7, <1>8, <1>9, <1>10 DEF EgressNext

\* However often the governor is started, stopped or killed, and across every
\* midnight, its counter is what was recorded for the day it counts for.
THEOREM BudgetSurvivesRestart == EgressSpec => []UsedSurvivesRestart
<1>1. EgressInv => UsedSurvivesRestart
  BY DEF EgressInv
<1> QED
  BY <1>1, EgressInitInv, EgressStep, PTL DEF EgressSpec
-----------------------------------------------------------------------------
(* How far drop mode overshoots.  The lane admitted last (l0) fitted into    *)
(* the budget together with what was recorded; every other lane that is      *)
(* still pushing adds at most one batch to it.                               *)

\* The lanes other than l0 whose push is under way.
Pushing(l0) == {l \in Lanes : l # l0 /\ lane[l] = "push"}
OvershootLimit == Budget + (Cardinality(Lanes) - 1) * MaxBatch
\* What the counter comes to when all that is under way is recorded.
Committed(l0) == used + size[l0] + Cardinality(Pushing(l0)) * MaxBatch
Foreseen == \E l0 \in Lanes : Committed(l0) <= OvershootLimit
DropNeverPauses == \A l \in Lanes : lane[l] # "paused"
\* A lane without a flush holds no bytes.
IdleHoldsNothing == \A l \in Lanes : lane[l] = "idle" => size[l] = 0
OvershootInv ==
    action = "drop" => /\ DropNeverPauses /\ IdleHoldsNothing
                       /\ saved.bytes <= OvershootLimit
                       /\ Foreseen

\* There are fewer other lanes than lanes.
LEMMA OtherLanes ==
    ASSUME NEW l0 \in Lanes, NEW S, S \subseteq Lanes \ {l0}
    PROVE  /\ IsFiniteSet(S) /\ Cardinality(S) \in Nat /\ Cardinality(Lanes) \in Nat
           /\ Cardinality(S) <= Cardinality(Lanes) - 1
<1>1. IsFiniteSet(Lanes \ {l0}) /\ Cardinality(Lanes \ {l0}) = Cardinality(Lanes) - 1
  BY FS_RemoveElement
<1>2. IsFiniteSet(S) /\ Cardinality(S) <= Cardinality(Lanes \ {l0})
  BY <1>1, FS_Subset
<1> QED
  BY <1>1, <1>2, FS_CardinalityType

\* Fewer batches are fewer bytes.
LEMMA BatchesOrdered ==
    ASSUME NEW j \in Nat, NEW k \in Nat, j <= k
    PROVE  /\ j * MaxBatch \in Nat /\ k * MaxBatch \in Nat
           /\ j * MaxBatch <= k * MaxBatch
<1>1. PICK d \in Nat : k = j + d
  <2>1. k - j \in Nat /\ k = j + (k - j)
    OBVIOUS
  <2> QED
    BY <2>1
<1>2. j * MaxBatch \in Nat /\ d * MaxBatch \in Nat
  OBVIOUS
<1>3. k * MaxBatch = j * MaxBatch + d * MaxBatch
  BY <1>1
<1> QED
  BY <1>2, <1>3

\* The limit is a number, and not below the budget.
LEMMA LimitAboveBudget == OvershootLimit \in Nat /\ Budget <= OvershootLimit
<1>1. Cardinality(Lanes) \in Nat /\ Cardinality(Lanes) - 1 \in Nat
  <2>1. PICK l0 \in Lanes : TRUE
    OBVIOUS
  <2>2. Cardinality({}) \in Nat /\ Cardinality(Lanes) \in Nat /\ Cardinality({}) <= Cardinality(Lanes) - 1
    BY <2>1, OtherLanes
  <2> QED
    BY <2>2
<1>2. (Cardinality(Lanes) - 1) * MaxBatch \in Nat
  <2>1. PICK k \in Nat : k = Cardinality(Lanes) - 1
    BY <1>1
  <2>2. k * MaxBatch \in Nat
    OBVIOUS
  <2> QED
    BY <2>1, <2>2
<1> QED
  BY <1>2 DEF OvershootLimit

\* When no other lane pushes more than before and no more is recorded, the limit holds.
LEMMA StaysForeseen ==
    ASSUME EgressTypeOK, EgressTypeOK', NEW l0 \in Lanes, Committed(l0) <= OvershootLimit,
           Pushing(l0)' \subseteq Pushing(l0), used' + size'[l0] <= used + size[l0]
    PROVE  Foreseen'
<1>1. Cardinality(Pushing(l0)') <= Cardinality(Pushing(l0))
      /\ Cardinality(Pushing(l0)') \in Nat /\ Cardinality(Pushing(l0)) \in Nat
  <2>1. IsFiniteSet(Pushing(l0)) /\ Cardinality(Pushing(l0)) \in Nat
    BY OtherLanes DEF Pushing
  <2>2. IsFiniteSet(Pushing(l0)') /\ Cardinality(Pushing(l0)') <= Cardinality(Pushing(l0))
    BY <2>1, FS_Subset
  <2> QED
    BY <2>1, <2>2, FS_CardinalityType
<1>2. /\ Cardinality(Pushing(l0)') * MaxBatch <= Cardinality(Pushing(l0)) * MaxBatch
      /\ Cardinality(Pushing(l0)') * MaxBatch \in Nat
      /\ Cardinality(Pushing(l0)) * MaxBatch \in Nat
  BY <1>1, BatchesOrdered
<1>3. used \in Nat /\ used' \in Nat /\ size[l0] \in Nat /\ size'[l0] \in Nat
  BY DEF EgressTypeOK
<1>4. Committed(l0)' <= OvershootLimit
  BY <1>2, <1>3, LimitAboveBudget DEF Committed
<1> QED
  BY <1>4 DEF Foreseen, OvershootLimit

\* An admitted batch and one batch for each other lane stay within the limit.
LEMMA AdmissionForeseen ==
    ASSUME EgressTypeOK', NEW l \in Lanes, used' + size'[l] <= Budget
    PROVE  Foreseen'
<1>1. Pushing(l)' \subseteq Lanes \ {l}
  BY DEF Pushing
<1>2. /\ Cardinality(Pushing(l)') \in Nat /\ Cardinality(Lanes) - 1 \in Nat
      /\ Cardinality(Pushing(l)') <= Cardinality(Lanes) - 1
  BY <1>1, OtherLanes
<1>3. /\ Cardinality(Pushing(l)') * MaxBatch <= (Cardinality(Lanes) - 1) * MaxBatch
      /\ Cardinality(Pushing(l)') * MaxBatch \in Nat
      /\ (Cardinality(Lanes) - 1) * MaxBatch \in Nat
  BY <1>2, BatchesOrdered
<1>4. used' \in Nat /\ size'[l] \in Nat
  BY DEF EgressTypeOK
<1>5. Committed(l)' <= OvershootLimit
  BY <1>3, <1>4 DEF Committed, OvershootLimit
<1> QED
  BY <1>5 DEF Foreseen, OvershootLimit

\* A recorded batch was foreseen.
LEMMA RecordForeseen ==
    ASSUME EgressInv, EgressTypeOK', NEW l \in Lanes, Record(l), Foreseen
    PROVE  Foreseen'
<1> USE DEF EgressInv, EgressTypeOK
<1>1. PICK l0 \in Lanes : Committed(l0) <= OvershootLimit
  BY DEF Foreseen
<1>2. UsedToday \in Nat /\ UsedToday <= used /\ size[l] \in 0..MaxBatch
  BY DEF UsedToday
<1>3. used' = UsedToday + size[l] /\ lane' = [lane EXCEPT ![l] = "idle"] /\ size' = [size EXCEPT ![l] = 0]
  BY DEF Record, Enter
<1>4. CASE l = l0
  <2>1. Pushing(l0)' \subseteq Pushing(l0) /\ used' + size'[l0] <= used + size[l0]
    BY <1>2, <1>3, <1>4 DEF Pushing
  <2> QED
    BY <1>1, <2>1, StaysForeseen
<1>5. CASE l # l0
  <2>1. Pushing(l0)' = Pushing(l0) \ {l} /\ l \in Pushing(l0)
    BY <1>3, <1>5 DEF Pushing, Record
  <2>2. /\ IsFiniteSet(Pushing(l0)) /\ Cardinality(Pushing(l0)) \in Nat
        /\ Cardinality(Pushing(l0)') = Cardinality(Pushing(l0)) - 1
    <3>1. IsFiniteSet(Pushing(l0)) /\ Cardinality(Pushing(l0)) \in Nat
      BY OtherLanes DEF Pushing
    <3>2. Cardinality(Pushing(l0) \ {l}) = Cardinality(Pushing(l0)) - 1
      BY <2>1, <3>1, FS_RemoveElement
    <3> QED
      BY <2>1, <3>1, <3>2
  <2>3. PICK k \in Nat : k = Cardinality(Pushing(l0)') /\ Cardinality(Pushing(l0)) = k + 1
    <3>1. IsFiniteSet(Pushing(l0)')
      BY <2>1, <2>2, FS_RemoveElement
    <3> QED
      BY <2>2, <3>1, FS_CardinalityType
  <2>4. k * MaxBatch \in Nat /\ (k + 1) * MaxBatch = k * MaxBatch + MaxBatch
    OBVIOUS
  <2>5. Committed(l0) = used + size[l0] + (k * MaxBatch + MaxBatch)
    BY <2>3, <2>4 DEF Committed
  <2>6. Committed(l0)' = used' + size[l0] + k * MaxBatch
    BY <1>3, <1>5, <2>3 DEF Committed
  <2>7. PICK u \in Nat, v \in Nat, z \in Nat : u = used /\ v = used' /\ z = size[l0]
    <3>1. used \in Nat /\ used' \in Nat /\ size[l0] \in Nat
      OBVIOUS
    <3> QED
      BY <3>1, Zenon
  <2>8. v <= u + MaxBatch
    <3>1. PICK y \in Nat, s \in 0..MaxBatch : y = UsedToday /\ s = size[l]
      BY <1>2, Zenon
    <3>2. y <= u /\ v = y + s
      BY <1>2, <1>3, <2>7, <3>1
    <3> QED
      BY <3>2
  <2>9. Committed(l0)' <= OvershootLimit
    <3>1. u + z + (k * MaxBatch + MaxBatch) <= OvershootLimit
      BY <1>1, <2>5, <2>7
    <3>2. v + z + k * MaxBatch <= OvershootLimit
      BY <2>4, <2>8, <3>1, LimitAboveBudget
    <3> QED
      BY <2>6, <2>7, <3>2
  <2> QED
    BY <2>9 DEF Foreseen, OvershootLimit
<1> QED
  BY <1>4, <1>5

\* What is foreseen bounds the counter.
LEMMA ForeseenBounds ==
    ASSUME EgressTypeOK, Foreseen
    PROVE  used <= OvershootLimit
<1>1. PICK l0 \in Lanes : Committed(l0) <= OvershootLimit
  BY DEF Foreseen
<1>2. Cardinality(Pushing(l0)) \in Nat
  BY OtherLanes DEF Pushing
<1>3. Cardinality(Pushing(l0)) * MaxBatch \in Nat
  BY <1>2, BatchesOrdered
<1>4. used \in Nat /\ size[l0] \in Nat
  BY DEF EgressTypeOK
<1> QED
  BY <1>1, <1>3, <1>4, LimitAboveBudget DEF Committed

\* The same of the next state.
LEMMA ForeseenBoundsNext ==
    ASSUME EgressTypeOK', Foreseen'
    PROVE  used' <= OvershootLimit'
<1>1. PICK l0 \in Lanes : Committed(l0)' <= OvershootLimit'
  BY DEF Foreseen
<1>2. Cardinality(Pushing(l0)') \in Nat
  BY OtherLanes DEF Pushing
<1>3. Cardinality(Pushing(l0)') * MaxBatch \in Nat
  BY <1>2, BatchesOrdered
<1>4. used' \in Nat /\ size'[l0] \in Nat
  BY DEF EgressTypeOK
<1>5. OvershootLimit' \in Nat
  BY LimitAboveBudget DEF OvershootLimit
<1> QED
  BY <1>1, <1>3, <1>4, <1>5 DEF Committed

\* With no flush under way, the counter alone must be within the limit.
LEMMA IdleForeseen ==
    ASSUME EgressTypeOK, \A l \in Lanes : lane[l] # "push" /\ size[l] = 0, used <= OvershootLimit
    PROVE  Foreseen
<1>1. PICK l0 \in Lanes : TRUE
  OBVIOUS
<1>2. Pushing(l0) = {}
  BY DEF Pushing
<1>3. Cardinality(Pushing(l0)) = 0
  BY <1>2, FS_EmptySet
<1>4. Committed(l0) = used
  BY <1>3 DEF Committed, EgressTypeOK
<1> QED
  BY <1>4 DEF Foreseen

\* A step of a lane leaves the persisted counter alone, or stores what was foreseen.
LEMMA OvershootStep ==
    ASSUME EgressInv, OvershootInv, [EgressNext]_egressVars, action = "drop"
    PROVE  OvershootInv'
<1>0. EgressInv' /\ EgressTypeOK /\ EgressTypeOK' /\ action' = "drop"
  BY EgressStep DEF EgressInv, EgressNext, egressVars
<1>a. DropNeverPauses /\ IdleHoldsNothing /\ saved.bytes <= OvershootLimit /\ Foreseen
  BY DEF OvershootInv
<1>b. PICK l0 \in Lanes : Committed(l0) <= OvershootLimit
  BY <1>a DEF Foreseen
<1>c. used \in Nat /\ used' \in Nat /\ size \in [Lanes -> 0..MaxBatch] /\ saved.bytes \in Nat
      /\ lane \in [Lanes -> {"idle", "paused", "push"}] /\ UsedToday \in Nat /\ UsedToday <= used
  <2>1. used \in Nat /\ used' \in Nat /\ size \in [Lanes -> 0..MaxBatch] /\ saved.bytes \in Nat
        /\ lane \in [Lanes -> {"idle", "paused", "push"}]
    BY <1>0 DEF EgressTypeOK
  <2> QED
    BY <2>1 DEF UsedToday
<1>d. ASSUME UNCHANGED <<used, saved, lane, size>>
      PROVE  OvershootInv'
  <2>1. Pushing(l0)' \subseteq Pushing(l0) /\ used' + size'[l0] <= used + size[l0]
    BY <1>c, <1>d DEF Pushing
  <2>2. Foreseen'
    BY <1>0, <1>b, <2>1, StaysForeseen
  <2> QED
    BY <1>a, <1>d, <2>2 DEF OvershootInv, DropNeverPauses, IdleHoldsNothing, OvershootLimit
<1>1. CASE Start
  <2>1. UNCHANGED <<saved, lane, size>> /\ used' = SavedCount /\ ~running
    BY <1>1 DEF Start, laneState
  <2>2. \A l \in Lanes : lane'[l] = "idle" /\ size'[l] = 0
    BY <1>a, <2>1 DEF EgressInv, IdleWhenStopped, IdleHoldsNothing
  <2>3. used' <= OvershootLimit
    BY <1>a, <1>c, <2>1, LimitAboveBudget DEF SavedCount
  <2>4. Foreseen'
    <3>1. OvershootLimit' = OvershootLimit
      BY DEF OvershootLimit
    <3>2. \A l \in Lanes : lane'[l] # "push" /\ size'[l] = 0
      BY <2>2
    <3>3. PICK m \in Lanes : TRUE
      OBVIOUS
    <3>4. Pushing(m)' = {}
      BY <3>2 DEF Pushing
    <3>5. Committed(m)' = used'
      BY <1>c, <3>2, <3>4, FS_EmptySet DEF Committed
    <3> QED
      BY <2>3, <3>1, <3>5 DEF Foreseen
  <2> QED
    BY <1>a, <2>1, <2>2, <2>4 DEF OvershootInv, DropNeverPauses, IdleHoldsNothing, OvershootLimit
<1>2. CASE SetStop
  BY <1>2, <1>d DEF SetStop, laneState
<1>3. CASE RunEnds
  <2>1. UNCHANGED <<used, saved>> /\ lane' = [l \in Lanes |-> "idle"] /\ size' = [l \in Lanes |-> 0]
    BY <1>3 DEF RunEnds
  <2>2. Pushing(l0)' \subseteq Pushing(l0) /\ used' + size'[l0] <= used + size[l0]
    BY <1>c, <2>1 DEF Pushing
  <2>3. Foreseen'
    BY <1>0, <1>b, <2>2, StaysForeseen
  <2> QED
    BY <1>a, <2>1, <2>3 DEF OvershootInv, DropNeverPauses, IdleHoldsNothing, OvershootLimit
<1>4. CASE Midnight
  BY <1>4, <1>d DEF Midnight, laneState
<1>5. ASSUME NEW l \in Lanes, NEW b \in BatchSizes, Admit(l, b)
      PROVE  OvershootInv'
  <2>1. used' = UsedToday /\ UNCHANGED saved /\ b \in 0..MaxBatch
    BY <1>5 DEF Admit
  <2>2. CASE ~OverBudget(b) /\ Enter(l, "push", b)
    <3>1. lane' = [lane EXCEPT ![l] = "push"] /\ size' = [size EXCEPT ![l] = b]
      BY <2>2 DEF Enter
    <3>2. used' + size'[l] <= Budget
      BY <1>c, <2>1, <2>2, <3>1 DEF OverBudget
    <3>3. Foreseen'
      BY <1>0, <3>2, AdmissionForeseen
    <3> QED
      BY <1>a, <1>c, <2>1, <3>1, <3>3 DEF OvershootInv, DropNeverPauses, IdleHoldsNothing, OvershootLimit
  <2>3. CASE UNCHANGED <<lane, size>>
    <3>1. Pushing(l0)' \subseteq Pushing(l0) /\ used' + size'[l0] <= used + size[l0]
      BY <1>c, <2>1, <2>3 DEF Pushing
    <3>2. Foreseen'
      BY <1>0, <1>b, <3>1, StaysForeseen
    <3> QED
      BY <1>a, <2>1, <2>3, <3>2 DEF OvershootInv, DropNeverPauses, IdleHoldsNothing, OvershootLimit
  <2> QED
    BY <1>5, <2>2, <2>3 DEF Admit
<1>6. ASSUME NEW l \in Lanes, Wake(l) \/ StopDuringPause(l)
      PROVE  FALSE
  BY <1>6, <1>a DEF Wake, StopDuringPause, DropNeverPauses
<1>7. ASSUME NEW l \in Lanes, Record(l)
      PROVE  OvershootInv'
  <2>1. lane' = [lane EXCEPT ![l] = "idle"] /\ size' = [size EXCEPT ![l] = 0] /\ saved'.bytes = used'
    BY <1>7 DEF Record, Enter
  <2>2. Foreseen'
    BY <1>0, <1>7, <1>a, RecordForeseen
  <2>3. saved'.bytes <= OvershootLimit'
    BY <1>0, <2>1, <2>2, ForeseenBoundsNext
  <2> QED
    BY <1>a, <1>c, <2>1, <2>2, <2>3 DEF OvershootInv, DropNeverPauses, IdleHoldsNothing
<1>8. ASSUME NEW l \in Lanes, PushGivesUp(l)
      PROVE  OvershootInv'
  <2>1. lane' = [lane EXCEPT ![l] = "idle"] /\ size' = [size EXCEPT ![l] = 0] /\ UNCHANGED <<used, saved>>
    BY <1>8 DEF PushGivesUp, Enter
  <2>2. Pushing(l0)' \subseteq Pushing(l0) /\ used' + size'[l0] <= used + size[l0]
    BY <1>c, <2>1 DEF Pushing
  <2>3. Foreseen'
    BY <1>0, <1>b, <2>2, StaysForeseen
  <2> QED
    BY <1>a, <1>c, <2>1, <2>3 DEF OvershootInv, DropNeverPauses, IdleHoldsNothing, OvershootLimit
<1>9. CASE UNCHANGED egressVars
  BY <1>9, <1>d DEF egressVars
<1> QED
  BY <1>1, <1>2, <1>3, <1>4, <1>5, <1>6, <1>7, <1>8, <1>9 DEF EgressNext

\* In drop mode, whatever the lanes admit against a counter that the others
\* have not yet added to, and however often the governor restarts from what it
\* persisted, the day's count stays below the budget plus one batch for each lane
\* but one.
THEOREM DropOvershootBounded == EgressSpec => []OvershootBounded
<1>1. EgressInit => OvershootInv
  <2> SUFFICES ASSUME EgressInit PROVE OvershootInv
    OBVIOUS
  <2>1. EgressTypeOK /\ used <= OvershootLimit /\ saved.bytes <= OvershootLimit
    BY EgressInitInv, LimitAboveBudget DEF EgressInv, EgressInit
  <2>2. \A l \in Lanes : lane[l] = "idle" /\ size[l] = 0
    BY DEF EgressInit
  <2>3. Foreseen
    BY <2>1, <2>2, IdleForeseen
  <2> QED
    BY <2>1, <2>2, <2>3 DEF OvershootInv, DropNeverPauses, IdleHoldsNothing
<1>2. EgressInv /\ OvershootInv /\ [EgressNext]_egressVars => (EgressInv /\ OvershootInv)'
  <2> SUFFICES ASSUME EgressInv, OvershootInv, [EgressNext]_egressVars
               PROVE  (EgressInv /\ OvershootInv)'
    OBVIOUS
  <2>1. CASE action = "drop"
    BY <2>1, EgressStep, OvershootStep
  <2>2. CASE action # "drop"
    <3>1. action' = action
      BY DEF EgressNext, egressVars
    <3> QED
      BY <2>2, <3>1, EgressStep DEF OvershootInv
  <2> QED
    BY <2>1, <2>2
<1>3. EgressInv /\ OvershootInv => OvershootBounded
  BY ForeseenBounds DEF EgressInv, OvershootInv, OvershootBounded, OvershootLimit
<1> QED
  BY <1>1, <1>2, <1>3, EgressInitInv, PTL DEF EgressSpec

=============================================================================
