------------------------------ MODULE MCEgress ------------------------------
(* The egress governor alone, for TLC.                                       *)
EXTENDS EgressGovernor
=============================================================================
