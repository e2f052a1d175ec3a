------------------------------ MODULE MCAlerts ------------------------------
(* Instances of Alerts for TLC. *)
EXTENDS Alerts

(* The first action's template fails on the second event; later actions'   *)
(* templates work.                                                         *)
MCUnrendered == {<<1, "e2">>}
=============================================================================
