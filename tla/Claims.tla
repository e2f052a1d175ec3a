------------------------------- MODULE Claims -------------------------------
(***************************************************************************)
(* The contract Delivery together with the claims of the runners: an item  *)
(* is acted on and settled only while a runner has it in hand; nobody      *)
(* takes an item that is in hand or stuck; and an item that was dropped    *)
(* (the runner stopped, or an answer or a write got lost) is stuck until   *)
(* its claim expires.                                                      *)
(***************************************************************************)
EXTENDS Delivery

VARIABLES
  hand,   \* items that a runner has claimed and not settled
  stuck   \* items that are claimed although no runner has them in hand

cvars == <<outcome, failures, effect, hand, stuck>>

ClaimsInit == Init /\ hand = {} /\ stuck = {}

Commit ==
  /\ (\E S \in SUBSET Items : PostAll(S)) \/ (\E i \in Items : Post(i))
  /\ UNCHANGED <<hand, stuck>>

(* The runner takes S; what it claims besides is lost at once. *)
Claim(S, missing) ==
  /\ \A i \in S \cup missing : outcome[i] = "open" /\ i \notin hand \cup stuck
  /\ S \cap missing = {}
  /\ hand' = hand \cup S
  /\ stuck' = stuck \cup missing
  /\ UNCHANGED dvars

Work(i) ==
  /\ i \in hand
  /\ Act(i)
  /\ UNCHANGED <<hand, stuck>>

Settle(i) ==
  /\ i \in hand
  /\ Confirm(i) \/ Fail(i)
  /\ hand' = hand \ {i}
  /\ UNCHANGED stuck

(* The claims of some may have expired already. *)
Drop(S, missing) ==
  /\ S \subseteq hand /\ missing \subseteq S
  /\ hand' = hand \ S
  /\ stuck' = stuck \cup missing
  /\ UNCHANGED dvars

Expire(i) ==
  /\ i \in stuck
  /\ stuck' = stuck \ {i}
  /\ UNCHANGED <<dvars, hand>>

ClaimsNext ==
  \/ Commit
  \/ \E S, missing \in SUBSET Items : Claim(S, missing) \/ Drop(S, missing)
  \/ \E i \in Items : Work(i) \/ Settle(i) \/ Expire(i)

ClaimsSpec == ClaimsInit /\ [][ClaimsNext]_cvars
=============================================================================
