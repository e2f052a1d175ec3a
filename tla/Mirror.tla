-------------------------------- MODULE Mirror --------------------------------
(***************************************************************************)
(* What retained messages promise of a table: every change of what a topic *)
(* should show is logged with it, in the same transaction; a topic never   *)
(* shows anything that was not logged for it; and as long as nothing       *)
(* disturbs it, it shows the logged values in their order and never goes   *)
(* back to an older one.                                                   *)
(***************************************************************************)
EXTENDS Integers

CONSTANTS
  Topics,    \* retained topics
  NoTopic,   \* none of them
  Values,    \* what a topic may show
  Blank,     \* what it shows before the first change
  Versions   \* numbers of the changes, by the time they began

VARIABLES
  source,    \* what the table says of each topic
  log,       \* topic and value of each change
  shown,     \* the change a topic shows
  copy,      \* what it shows
  calm       \* FALSE: changes overlapped, were out of order, or a call failed

mvars == <<source, log, shown, copy, calm>>

Unwritten == [topic |-> NoTopic, value |-> Blank]

Init ==
  /\ source = [t \in Topics |-> Blank]
  /\ log = [i \in Versions |-> Unwritten]
  /\ shown = [t \in Topics |-> 0]
  /\ copy = [t \in Topics |-> Blank]
  /\ calm = TRUE

Written(t) == {i \in Versions : log[i] # Unwritten /\ log[i].topic = t}

Put(i, t, v) ==
  /\ log[i] = Unwritten
  /\ log' = [log EXCEPT ![i] = [topic |-> t, value |-> v]]
  /\ source' = [source EXCEPT ![t] = v]

(* A change is committed; it is newer than all others. *)
Write(i, t, v) ==
  /\ \A u \in Topics : \A j \in Written(u) : j < i
  /\ Put(i, t, v)
  /\ UNCHANGED <<shown, copy, calm>>

(* The topic moves on to a newer change. *)
Show(i, t) ==
  /\ i \in Written(t) /\ i > shown[t]
  /\ shown' = [shown EXCEPT ![t] = i]
  /\ copy' = [copy EXCEPT ![t] = log[i].value]
  /\ UNCHANGED <<source, log, calm>>

(* After a disturbance a topic may go back, but shows nothing else, and    *)
(* table and log still change together.                                    *)
Disturbed ==
  /\ ~calm'
  /\ \/ UNCHANGED <<source, log>>
     \/ \E i \in Versions, t \in Topics, v \in Values : Put(i, t, v)
  /\ \A t \in Topics :
       copy'[t] = copy[t] \/ \E i \in Written(t) : copy'[t] = log[i].value

Next ==
  \/ calm /\ \E i \in Versions, t \in Topics : Show(i, t) \/ \E v \in Values : Write(i, t, v)
  \/ Disturbed

Spec == Init /\ [][Next]_mvars
=============================================================================
