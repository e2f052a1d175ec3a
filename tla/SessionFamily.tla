---------------------------- MODULE SessionFamily ----------------------------
(***************************************************************************)
(* What refresh tokens promise of a sign-in: its tokens form a chain.  At  *)
(* any time the family has one valid token, or has just given it up for a  *)
(* successor, or is over; the successor is a token never issued before,    *)
(* and a family that is over stays so.                                     *)
(***************************************************************************)
CONSTANTS Tokens, NoToken   \* a family is named by its first token

VARIABLES
  issued,   \* tokens that were ever valid
  state,    \* of each family: "new", "valid", "rotating" or "over"
  current   \* its valid token

fvars == <<issued, state, current>>

Init ==
  /\ issued = {}
  /\ state = [f \in Tokens |-> "new"]
  /\ current = [f \in Tokens |-> NoToken]

Enter(f, phase, token) ==
  /\ state' = [state EXCEPT ![f] = phase]
  /\ current' = [current EXCEPT ![f] = token]

Begin(f) ==
  /\ f \notin issued /\ state[f] = "new"
  /\ issued' = issued \cup {f}
  /\ Enter(f, "valid", f)

GiveUp(f) ==
  /\ state[f] = "valid"
  /\ Enter(f, "rotating", NoToken)
  /\ UNCHANGED issued

Succeed(f, n) ==
  /\ state[f] = "rotating"
  /\ n \notin issued
  /\ issued' = issued \cup {n}
  /\ Enter(f, "valid", n)

End(f) ==
  /\ state[f] \in {"valid", "rotating"}
  /\ Enter(f, "over", NoToken)
  /\ UNCHANGED issued

Next == \E f \in Tokens :
  Begin(f) \/ GiveUp(f) \/ End(f) \/ \E n \in Tokens : Succeed(f, n)

Spec == Init /\ [][Next]_fvars
=============================================================================
