--------------------------- MODULE MCPeripherals ---------------------------
(* Instances of Peripherals for TLC. *)
EXTENDS Peripherals, TLC

CONSTANTS p1, p2, p3

(* p1 and p2 are servo_cr and servo_positional, which share a pin. *)
MCPorts == {p1, p2, p3}
MCPinOf == [p \in Ports |-> IF p = p3 THEN 16 ELSE 25]
MCSymmetry == Permutations(Clients) \cup Permutations(Names) \cup Permutations({p1, p2})
=============================================================================
