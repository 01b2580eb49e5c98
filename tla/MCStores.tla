------------------------------ MODULE MCStores -------------------------------
(***************************************************************************)
(* What is kept in the checkpoint store and how: the object stores, the    *)
(* locked state file, the view of an org and the egress counter.  They     *)
(* share no state: subject, chosen once, says which of them runs.          *)
(***************************************************************************)
EXTENDS ObjectStore, StateFile, OrgView, EgressGovernor, TLC

VARIABLE subject

vars == <<subject, storeVars, sfVars, ovVars, egressVars>>

\* One that is not the subject stays in one of its initial states.
Init ==
    /\ subject \in {"object", "file", "view", "egress"}
    /\ StoreInit /\ (subject # "object" => backend = "s3" /\ faults = {"transient"})
    /\ SfInit /\ (subject # "file" => \A p \in Procs : ~force[p])
    /\ OvInit /\ (subject # "view" => ~severalOrgs)
    /\ EgressInit /\ (subject # "egress" => action = "drop")

Subject(s) == subject = s /\ UNCHANGED subject
Next ==
    \/ Subject("object") /\ StoreNext /\ UNCHANGED <<sfVars, ovVars, egressVars>>
    \/ Subject("file") /\ SfNext /\ UNCHANGED <<storeVars, ovVars, egressVars>>
    \/ Subject("view") /\ OvNext /\ UNCHANGED <<storeVars, sfVars, egressVars>>
    \/ Subject("egress") /\ EgressNext /\ UNCHANGED <<storeVars, sfVars, ovVars>>
Spec == Init /\ [][Next]_vars

BenignOrAll == {{"transient"}, StoreFaultKinds}

\* Processes and keys are interchangeable, and the properties are safety.
StoreSymmetry == Permutations(Writers) \cup Permutations(Keys)
=============================================================================
