------------------------------- MODULE Overlap -------------------------------
(***************************************************************************)
(* Which source ingests which event category: the startup guard            *)
(* (src/sf2loki/sources/overlap.py), the categories each source is told    *)
(* the others own (app.py, _build_org_sources), and the runtime discovery  *)
(* of wildcard topics (sources/pubsub_source.py) and wildcard event types  *)
(* (sources/eventlogfile_source.py), as an org's streams and files appear. *)
(*                                                                         *)
(* A topic, stored object or event type has a name; CategoryOf is what     *)
(* category_of_pubsub, category_of_stored_object and category_of_elf make  *)
(* of it, aliases included.                                                *)
(***************************************************************************)
EXTENDS Integers, FiniteSets

CONSTANTS
    Topics, StoredObjects, EventTypes,   \* the names, per channel
    CategoryOf,                          \* [names -> category]
    OvlConfigs                           \* the configurations that are looked at

Categories(names) == {CategoryOf[n] : n \in names}

ASSUME OverlapAssumption ==
    /\ DOMAIN CategoryOf = Topics \cup StoredObjects \cup EventTypes
    /\ \A c \in OvlConfigs :
          /\ c.topics \subseteq Topics /\ c.objects \subseteq StoredObjects
          /\ c.types \subseteq EventTypes /\ c.exclude \subseteq EventTypes
          /\ {c.anyTopic, c.anyType, c.allow, c.rediscovers} \subseteq BOOLEAN

VARIABLES
    cfg,        \* explicit topics, objects and types; anyTopic and anyType are the "*"
    streams,    \* the topics the org offers now
    files,      \* the event types it produces now
    ovl,        \* "starting", "running" or "refused"
    subscribed, \* the topics subscribed to
    polled      \* the event types of the current cycle

ovlVars == <<cfg, streams, files, ovl, subscribed, polled>>

OvlInit ==
    /\ cfg \in OvlConfigs
    /\ streams = {} /\ files = {}
    /\ ovl = "starting" /\ subscribed = {} /\ polled = {}

\* Mutant: the event types are left out of what the topics must not repeat.
PubSubOwnedObjects == IF cfg.allow THEN {} ELSE Categories(cfg.objects)
\* The owned_categories handed to the Pub/Sub source.
PubSubOwned == IF cfg.allow THEN {} ELSE Categories(cfg.objects \cup cfg.types)

\* The exclude_categories handed to the event log file source.
ElfOwned == IF cfg.allow THEN {} ELSE Categories(cfg.topics \cup cfg.objects)

\* check_overlap: a category fed by two of the explicit lists.
Collides ==
    /\ ~cfg.allow
    /\ \/ Categories(cfg.topics) \cap Categories(cfg.objects) # {}
       \/ Categories(cfg.topics) \cap Categories(cfg.types) # {}
       \/ Categories(cfg.objects) \cap Categories(cfg.types) # {}

\* _discovered_additions: what a discovery adds, {} when it failed.
Additions == {t \in streams \ subscribed : CategoryOf[t] \notin PubSubOwned}

\* Startup: the guard refuses, or the sources start and resolve their topics.
OvlStart ==
    /\ ovl = "starting"
    /\ \/ Collides /\ ovl' = "refused" /\ UNCHANGED subscribed
       \/ /\ ~Collides /\ ovl' = "running"
          /\ \E found \in IF cfg.anyTopic THEN {{}, Additions} ELSE {{}} :
                subscribed' = cfg.topics \cup found
    /\ UNCHANGED <<cfg, streams, files, polled>>

\* A later pass finds new topics; those subscribed to stay.
OvlRediscover ==
    /\ ovl = "running" /\ cfg.anyTopic /\ cfg.rediscovers
    /\ subscribed' = subscribed \cup Additions
    /\ UNCHANGED <<cfg, streams, files, ovl, polled>>

\* _resolve_event_types, before every cycle.
ResolvedTypes ==
    cfg.types \cup {t \in files \ cfg.exclude : CategoryOf[t] \notin ElfOwned}
OvlCycle ==
    /\ ovl = "running"
    /\ polled' = IF cfg.anyType THEN ResolvedTypes ELSE cfg.types
    /\ UNCHANGED <<cfg, streams, files, ovl, subscribed>>

\* The discovery of event types fails: the explicit ones only.
OvlCycleFails ==
    /\ ovl = "running" /\ cfg.anyType
    /\ polled' = cfg.types
    /\ UNCHANGED <<cfg, streams, files, ovl, subscribed>>

\* The org offers one more stream, or produces files of one more type.
OvlAppears ==
    /\ \/ \E t \in Topics \ streams : streams' = streams \cup {t} /\ UNCHANGED files
       \/ \E t \in EventTypes \ files : files' = files \cup {t} /\ UNCHANGED streams
    /\ UNCHANGED <<cfg, ovl, subscribed, polled>>

OvlNext == OvlStart \/ OvlRediscover \/ OvlCycle \/ OvlCycleFails \/ OvlAppears

OvlSpec == OvlInit /\ [][OvlNext]_ovlVars

-----------------------------------------------------------------------------

\* One category, one source, discovered ones included (unless both sides discover,
\* or the overlap is allowed): no event is ingested twice.
OneSourcePerCategory ==
    (ovl = "running" /\ ~cfg.allow /\ ~(cfg.anyTopic /\ cfg.anyType)) =>
        LET fed == <<Categories(subscribed), Categories(cfg.objects), Categories(polled)>>
        IN  \A i, j \in 1..3 : i # j => fed[i] \cap fed[j] = {}
=============================================================================
