--------------------------- MODULE MCProvisioning ---------------------------
(* Instances of Provisioning for TLC. *)
EXTENDS Provisioning, TLC

Symmetry == Permutations(Codes) \cup Permutations(Devices) \cup Permutations(Requests)
=============================================================================
