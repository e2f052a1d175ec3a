------------------------------ MODULE MCOutbox ------------------------------
(* Instances of Outbox for TLC. *)
EXTENDS Outbox

(* Rows 1 and 2 are trigger pushes, row 3 a provisioning event, row 4 has  *)
(* a type no processor is registered for.                                  *)
MCTypeOf ==
  [e \in Events |-> CASE e \in {1, 2} -> "trigger.push"
                      [] e = 3 -> "mqtt.provision_device"
                      [] OTHER -> "hivemq.provision_device"]
MCTypes == {"trigger.push", "mqtt.provision_device", "hivemq.provision_device"}
MCRegistered == MCTypes \ {"hivemq.provision_device"}
MCNoTimeout == {"mqtt.provision_device"}
=============================================================================
