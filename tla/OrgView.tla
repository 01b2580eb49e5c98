------------------------------- MODULE OrgView -------------------------------
(***************************************************************************)
(* The checkpoints of several orgs in one store (src/sf2loki/state/        *)
(* org_view.py, OrgCheckpointView, and the key rewriting of                *)
(* sources/org_adapter.py, OrgSource): the keys of an org carry its        *)
(* prefix, except in a single-org configuration, whose bare keys the       *)
(* first org falls back to after a change to several orgs.  The events of  *)
(* an org are numbered; a checkpoint is the number of the last one read.   *)
(***************************************************************************)
EXTENDS Integers

CONSTANTS
    ViewOrgs,   \* the orgs
    LegacyOrg,  \* the first of them
    MaxRead     \* bound on the events of an org

ASSUME OrgViewAssumption == LegacyOrg \in ViewOrgs /\ MaxRead \in Nat

VARIABLES
    severalOrgs, \* orgs: is configured
    pos,         \* [ViewOrgs -> how far its source has read, -1 before it has started]
    bare,        \* the checkpoint under the bare key, 0 when there is none
    prefixed,    \* [ViewOrgs -> the one under the org's prefix]
    delivered    \* [ViewOrgs -> the events delivered]

ovVars == <<severalOrgs, pos, bare, prefixed, delivered>>

OvInit ==
    /\ severalOrgs \in BOOLEAN
    /\ pos = [o \in ViewOrgs |-> -1]
    /\ bare = 0 /\ prefixed = [o \in ViewOrgs |-> 0]
    /\ delivered = [o \in ViewOrgs |-> {}]

\* Mutant: every org falls back to the bare key.
ViewLoadAny(o) == IF severalOrgs /\ prefixed[o] > 0 THEN prefixed[o] ELSE bare
\* OrgCheckpointView.load: only the first org falls back to the bare key.
ViewLoad(o) ==
    IF ~severalOrgs \/ (prefixed[o] = 0 /\ o = LegacyOrg) THEN bare ELSE prefixed[o]

\* OrgSource.events begins, at startup or after an AuthError.
OvStart(o) ==
    /\ severalOrgs \/ o = LegacyOrg
    /\ pos' = [pos EXCEPT ![o] = ViewLoad(o)]
    /\ UNCHANGED <<severalOrgs, bare, prefixed, delivered>>

\* The inner source yields its next event, and it is pushed.
OvDeliver(o) ==
    /\ pos[o] \in 0..(MaxRead - 1)
    /\ pos' = [pos EXCEPT ![o] = @ + 1]
    /\ delivered' = [delivered EXCEPT ![o] = @ \cup {pos[o] + 1}]
    /\ UNCHANGED <<severalOrgs, bare, prefixed>>

\* commit, commit_many: under the key OrgSource has given the entry.
ViewCommits(o) ==
    IF severalOrgs THEN prefixed' = [prefixed EXCEPT ![o] = pos[o]] /\ UNCHANGED bare
                   ELSE bare' = pos[o] /\ UNCHANGED prefixed

OvCommit(o) ==
    /\ pos[o] > 0 /\ ViewCommits(o)
    /\ UNCHANGED <<severalOrgs, pos, delivered>>

\* The process is restarted, perhaps with the other configuration.
OvRestart ==
    /\ severalOrgs' \in BOOLEAN
    /\ pos' = [o \in ViewOrgs |-> -1]
    /\ UNCHANGED <<bare, prefixed, delivered>>

OvNext == (\E o \in ViewOrgs : OvStart(o) \/ OvDeliver(o) \/ OvCommit(o)) \/ OvRestart

OvSpec == OvInit /\ [][OvNext]_ovVars

-----------------------------------------------------------------------------

\* No org's events are skipped because of another's checkpoint, whichever way the
\* configuration changes, and the first org's single-org progress is not lost.
NoOrgSkips == \A o \in ViewOrgs : \A n \in 1..pos[o] : n \in delivered[o]
=============================================================================
