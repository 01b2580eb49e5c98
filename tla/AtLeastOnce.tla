---------------------------- MODULE AtLeastOnce ----------------------------
(***************************************************************************)
(* What the pipeline promises about checkpoints, whatever happens inside:  *)
(* the checkpoint of a source only moves forward, and only past entries    *)
(* that are settled (accepted by Loki, or dropped and counted) or forfeit  *)
(* (given up on by a shutdown).  An entry the checkpoint has not passed is *)
(* no longer forfeit after a restart: the source reads it again.           *)
(***************************************************************************)
EXTENDS Integers, Sequences

CONSTANTS
    Sources,    \* the sources, one checkpoint each
    Script      \* [Sources -> sequence of what Salesforce holds for it]

VARIABLES
    committed,  \* [Sources -> Nat]
    settled,    \* a set of entries
    forfeit     \* a set of entries

vars == <<committed, settled, forfeit>>

Entry(s, p) == [src |-> s, pos |-> p]

Init ==
    /\ committed = [s \in Sources |-> 0]
    /\ settled = {}
    /\ forfeit = {}

\* The sink settles entries, or a shutdown gives up on some.
Settle ==
    /\ settled \subseteq settled'
    /\ forfeit \subseteq forfeit'
    /\ UNCHANGED committed

\* Checkpoints move forward, each past settled and forfeit entries only.
Advance ==
    /\ \A s \in Sources :
        /\ committed'[s] >= committed[s]
        /\ \A p \in 1..Len(Script[s]) :
              (Script[s][p].live /\ p <= committed'[s]) =>
                  Entry(s, p) \in settled \cup forfeit
    /\ UNCHANGED <<settled, forfeit>>

\* A restart: what the checkpoint has not passed is read again.
Resume ==
    /\ forfeit' = {e \in forfeit : e.pos <= committed[e.src]}
    /\ UNCHANGED <<committed, settled>>

Next == Settle \/ Advance \/ Resume

Spec == Init /\ [][Next]_vars
=============================================================================
