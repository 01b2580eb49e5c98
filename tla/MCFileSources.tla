---------------------------- MODULE MCFileSources ----------------------------
(***************************************************************************)
(* The event log file source, the Apex log source and the backfill share   *)
(* no state: subject, chosen once, says which of them runs.                *)
(***************************************************************************)
EXTENDS EventLogFile, ApexLog, Backfill

VARIABLE subject

vars == <<subject, elfVars, apxVars, bfVars>>

Runs(s) == subject = s /\ UNCHANGED subject
Init ==
    /\ subject \in {"file", "apex", "backfill"}
    /\ ElfInit /\ ApxInit /\ BfInit
    /\ subject # "backfill" => bfPushed = {}
Next ==
    \/ Runs("file") /\ ElfNext /\ UNCHANGED <<apxVars, bfVars>>
    \/ Runs("apex") /\ ApxNext /\ UNCHANGED <<elfVars, bfVars>>
    \/ Runs("backfill") /\ BfNext /\ UNCHANGED <<elfVars, apxVars>>

\* The fairness of each component, for the one that runs.
Fairness ==
    /\ WF_elfVars(subject = "file" /\ ElfRound)
    /\ WF_elfVars(subject = "file" /\ ElfPipeline)
    /\ WF_elfVars(subject = "file" /\ ElfTick)
    /\ WF_elfVars(subject = "file" /\ elfStop /\ ElfRestart)
    /\ \A t \in ElfTypes : WF_elfVars(subject = "file" /\ ElfWorker(t))
    /\ WF_apxVars(subject = "apex" /\ ApxBegin)
    /\ WF_apxVars(subject = "apex" /\ ApxStep)
    /\ WF_apxVars(subject = "apex" /\ ApxPush)
    /\ WF_bfVars(subject = "backfill" /\ BfStep)
Spec == Init /\ [][Next]_vars /\ Fairness

\* Two files of one type, each regenerated once, the second empty at first;
\* a second type without files.
MCTypeOf == <<"t", "t">>
MCVersions == <<<<1, 2>>, <<0, 1>>>>
MCRowsKept == {<<1, 1>>, <<1, 2>>}

\* Four logs of one StartTime, twice a page.
MCStartTime == <<1, 2, 2, 2, 2, 3>>

\* Five files of the first org's first type, with ties that span two pages of
\* three, and one file each for its second type and for the second org.
MCBfTypes == <<"t", "u">>
MCBfOf == <<<<"a", "t">>, <<"a", "t">>, <<"a", "t">>, <<"a", "t">>, <<"a", "t">>, <<"b", "t">>, <<"a", "u">>>>
MCBfCreated == <<1, 1, 2, 2, 3, 1, 1>>
MCBfChunks == <<1, 0, 2, 1, 1, 1, 1>>

=============================================================================
