----------------------------- MODULE MCTimezone -----------------------------
(* Instances of Timezone for TLC. *)
EXTENDS Timezone, TLC

CONSTANTS utc, z1

(* Only z1 is listed: the other zone falls back. *)
MCZones == {utc, z1}
MCTable == z1 :> "rule"
=============================================================================
