------------------------- MODULE MCHighAvailability -------------------------
(* Small instances of HighAvailability for TLC.                              *)
EXTENDS HighAvailability, TLC

Replicas == Permutations(Instances)
=============================================================================
