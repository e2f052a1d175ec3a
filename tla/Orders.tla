-------------------------------- MODULE Orders --------------------------------
(***************************************************************************)
(* What firmware updates promise, each named by its nonce: an order is     *)
(* announced to the device at most once, and not again when another one    *)
(* took its place; the device answers the announced order, once; and only  *)
(* an order that was announced gets a record, one, settled once.           *)
(***************************************************************************)
CONSTANTS
  Nonces,
  NoNonce   \* none of them

VARIABLES
  issued,     \* the orders anybody ever asked for
  asked,      \* those that may still be announced
  announced,  \* those that may still get a record
  topic,      \* the order the retained manifest names
  answered,   \* the order the device answered last
  book        \* the order and the status of each record

ovars == <<issued, asked, announced, topic, answered, book>>

Init ==
  /\ issued = {} /\ asked = {} /\ announced = {}
  /\ topic = NoNonce /\ answered = NoNonce
  /\ book = {}

Ask(n) ==
  /\ n \notin issued
  /\ issued' = issued \cup {n}
  /\ asked' = asked \cup {n}
  /\ UNCHANGED <<announced, topic, answered, book>>

Announce(n) ==
  /\ n \in asked
  /\ asked' = asked \ {n}
  /\ announced' = announced \cup {n}
  /\ topic' = n
  /\ UNCHANGED <<issued, answered, book>>

(* The announcement failed, or only its answer got lost. *)
Fail(n) ==
  /\ n \in asked
  /\ asked' = asked \ {n}
  /\ topic' \in {topic, n}
  /\ UNCHANGED <<issued, announced, answered, book>>

(* The order gets a record of its own, or the one of an older order. *)
File(n) ==
  /\ n \in announced
  /\ announced' = announced \ {n}
  /\ \/ book' = book \cup {<<n, "pending">>}
     \/ \E old \in book : book' = (book \ {old}) \cup {<<n, "pending">>}
  /\ UNCHANGED <<issued, asked, topic, answered>>

(* Nobody goes on with some of the orders. *)
Stop ==
  /\ asked' \subseteq asked /\ announced' \subseteq announced
  /\ UNCHANGED <<issued, topic, answered, book>>

Reply ==
  /\ topic \notin {NoNonce, answered}
  /\ answered' = topic
  /\ UNCHANGED <<issued, asked, announced, topic, book>>

Settle(n, verdict) ==
  /\ answered # NoNonce
  /\ <<n, "pending">> \in book
  /\ book' = (book \ {<<n, "pending">>}) \cup {<<n, verdict>>}
  /\ UNCHANGED <<issued, asked, announced, topic, answered>>

Next ==
  \/ \E n \in Nonces :
       \/ Ask(n) \/ Announce(n) \/ Fail(n) \/ File(n)
       \/ \E verdict \in {"succeeded", "failed"} : Settle(n, verdict)
  \/ Stop \/ Reply

Spec == Init /\ [][Next]_ovars
=============================================================================
