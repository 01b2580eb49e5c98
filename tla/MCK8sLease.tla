----------------------------- MODULE MCK8sLease ------------------------------
(***************************************************************************)
(* The Kubernetes Lease coordinator on a small instance.                   *)
(***************************************************************************)
EXTENDS K8sLease

=============================================================================
