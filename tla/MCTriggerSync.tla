--------------------------- MODULE MCTriggerSync ---------------------------
(* Instances of TriggerSync for TLC. *)
EXTENDS TriggerSync, TLC

Symmetry == Permutations(Clients) \cup Permutations(Rules)
=============================================================================
