----------------------------- MODULE MCReadings -----------------------------
(* Instances of Readings for TLC. *)
EXTENDS Readings

CONSTANTS temp, ph

MCNsOf == [f \in Fields |-> IF f = ph THEN "ph-34" ELSE "ds18b20-4"]
=============================================================================
