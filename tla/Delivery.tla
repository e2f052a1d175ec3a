------------------------------ MODULE Delivery ------------------------------
(***************************************************************************)
(* What the outbox promises of one row after another: a posted item stays  *)
(* open until its effect took place and is confirmed, or until it has      *)
(* failed MaxFailures times; every failure is counted, and an item that is *)
(* done or abandoned is never taken up again.                              *)
(***************************************************************************)
EXTENDS Integers

CONSTANTS Items, MaxFailures

VARIABLES outcome, failures, effect

dvars == <<outcome, failures, effect>>

Init ==
  /\ outcome = [i \in Items |-> "none"]
  /\ failures = [i \in Items |-> 0]
  /\ effect = {}

Post(i) ==
  /\ outcome[i] = "none"
  /\ outcome' = [outcome EXCEPT ![i] = "open"]
  /\ UNCHANGED <<failures, effect>>

(* A transaction may post several items. *)
PostAll(S) ==
  /\ \A i \in S : outcome[i] = "none"
  /\ outcome' = [i \in Items |-> IF i \in S THEN "open" ELSE outcome[i]]
  /\ UNCHANGED <<failures, effect>>

(* The effect may take place more than once. *)
Act(i) ==
  /\ outcome[i] = "open"
  /\ effect' = effect \cup {i}
  /\ UNCHANGED <<outcome, failures>>

Confirm(i) ==
  /\ outcome[i] = "open"
  /\ i \in effect
  /\ outcome' = [outcome EXCEPT ![i] = "done"]
  /\ UNCHANGED <<failures, effect>>

Fail(i) ==
  /\ outcome[i] = "open"
  /\ failures' = [failures EXCEPT ![i] = @ + 1]
  /\ outcome' = [outcome EXCEPT ![i] =
       IF failures[i] + 1 = MaxFailures THEN "abandoned" ELSE "open"]
  /\ UNCHANGED effect

Next ==
  \/ \E S \in SUBSET Items : PostAll(S)
  \/ \E i \in Items : Post(i) \/ Act(i) \/ Confirm(i) \/ Fail(i)

Spec == Init /\ [][Next]_dvars
=============================================================================
