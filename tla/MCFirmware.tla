----------------------------- MODULE MCFirmware -----------------------------
(* Instances of Firmware for TLC. *)
EXTENDS Firmware, TLC

Symmetry == Permutations(Requests)
=============================================================================
