-------------------------- MODULE PeripheralsProofs --------------------------
(***************************************************************************)
(* Proofs about Peripherals, for any requests, devices, ports and changes. *)
(***************************************************************************)
EXTENDS Peripherals, TLAPS

(* A row and its event share their created_at; what was not committed yet  *)
(* left neither.                                                           *)
EventInv ==
  \A i \in Changes :
    /\ outcome[i] = "none" =>
         failures[i] = 0 /\ i \notin effect /\ rows[i] = NoRow
    /\ outcome[i] # "none" => i <= stamps /\ push[i] \in Push
    /\ outcome[i] = "open" => failures[i] < MaxFailures
    /\ outcome[i] = "done" => i \in effect

(* A request in flight has its arguments, and its created_at is its own. *)
RequestInv ==
  /\ \A c \in Clients :
       /\ req[c].at = "idle" => req[c] = IdleReq
       /\ req[c].at = "register" => req[c].body \in Devices
       /\ req[c].at \in {"register", "delete"} =>
            req[c].id \in 1..stamps /\ outcome[req[c].id] = "none"
       /\ req[c].at \in {"delete", "publish_mode", "commit_mode", "publish_schedule"} =>
            req[c].row \in Changes
       /\ req[c].at \in {"publish_mode", "commit_mode"} =>
            req[c].body \in Modes /\ Active(req[c].row)
       /\ req[c].at = "publish_schedule" => req[c].body \in Schedules
  /\ \A c, d \in Clients : c # d =>
       /\ req[c].at \in {"register", "delete"} /\ req[d].at \in {"register", "delete"}
          => req[c].id # req[d].id
       /\ req[c].at \in {"publish_mode", "commit_mode"} /\ req[d].at \in {"publish_mode", "commit_mode"}
          => req[c].row # req[d].row

(* An active row is still on the port it was registered on. *)
Spot(r) == <<rows[r].device, rows[r].port>>
Free(t) == \A r \in Changes : Active(r) => Spot(r) # t

PlaceInv == \A r \in Changes : Active(r) => Place(r) = Spot(r)

ModeAgrees(r) ==
  rows[r].mode = IF told[Spot(r)].mode = Left THEN "automatic" ELSE told[Spot(r)].mode
ScheduleAgrees(r) ==
  rows[r].schedule = IF told[Spot(r)].schedule = Left THEN None ELSE told[Spot(r)].schedule

(* The device has a row's mode, or the one that is about to be committed;  *)
(* what a new row finds is left from another one, or the first value.      *)
ModeInv ==
  errors = 0 =>
    /\ \A c \in Clients : req[c].at = "commit_mode" =>
         told[Spot(req[c].row)].mode = req[c].body
    /\ \A r \in Changes :
         Active(r) /\ (\A c \in Clients : req[c].at = "commit_mode" => req[c].row # r)
         => ModeAgrees(r)
    /\ \A t \in Places : Free(t) => told[t].mode \in {"automatic", Left}

(* One request at a time: the device has a row's schedule, or the request  *)
(* that stored another one is about to publish it.                         *)
ScheduleInv ==
  ~upset =>
    /\ \A c, d \in Clients : c # d /\ req[c] # IdleReq => req[d] = IdleReq
    /\ \A c \in Clients : req[c].at = "publish_schedule" =>
         Active(req[c].row) /\ rows[req[c].row].schedule = req[c].body
    /\ \A r \in Changes :
         Active(r) /\ (\A c \in Clients : req[c].at = "publish_schedule" => req[c].row # r)
         => ScheduleAgrees(r)
    /\ \A t \in Places : Free(t) => told[t].schedule \in {None, Left}

Posted(i) == outcome[i] # "none"
On(i, d, p) == push[i].device = d /\ push[i].port = p
HasRow(d, p) == \E r \in Changes : Active(r) /\ rows[r].device = d /\ rows[r].port = p

(* One request at a time: events take effect in the order of created_at. *)
OrderInv ==
  ~upset =>
    /\ \A c \in Clients : req[c].at \in {"register", "delete"} =>
         \A i \in Changes : Posted(i) => i < req[c].id
    /\ \A i, j \in Changes :
         i < j /\ outcome[i] = "open" /\ i \notin effect => j \notin effect
    /\ \A i \in Changes : outcome[i] # "abandoned"

(* The newest event of a port tells whether there is a row. *)
NewestTells(d, p) ==
  \/ ~HasRow(d, p) /\ \A i \in Changes : Posted(i) => ~On(i, d, p)
  \/ \E i \in Changes :
       /\ Posted(i) /\ On(i, d, p)
       /\ \A j \in Changes : Posted(j) /\ On(j, d, p) => j <= i
       /\ push[i].op = "create" <=> HasRow(d, p)

(* The newest one that took effect is the one on the topic. *)
TopicHolds(d, p) ==
  \/ retained[<<d, p>>] = None /\ \A i \in effect : ~On(i, d, p)
  \/ \E i \in effect :
       /\ On(i, d, p)
       /\ \A j \in effect : On(j, d, p) => j <= i
       /\ retained[<<d, p>>] = push[i].op

TopicInv ==
  ~upset => \A d \in Devices, p \in Ports : NewestTells(d, p) /\ TopicHolds(d, p)

PeripheralsInv == TypeOK /\ EventInv /\ RequestInv /\ ActiveUnique /\ PlaceInv
-----------------------------------------------------------------------------
(* What the steps do *)

LEMMA Steps ==
  ASSUME Next
  PROVE  \/ \E c \in Clients :
              \/ \E d \in Devices : BeginRegister(c, d)
              \/ \E n \in Names, p \in Ports : Register(c, n, p)
              \/ \E r \in Changes : BeginDelete(c, r)
              \/ DeleteRow(c)
              \/ req[c].at \in {"register", "delete"} /\ Refuse(c)
              \/ \E r \in Changes, s \in Schedules : StoreSchedule(c, r, s)
              \/ PublishSchedule(c)
              \/ \E r \in Changes, m \in Modes : UpdateMode(c, r, m)
              \/ PublishMode(c) \/ CommitMode(c)
         \/ \E r \in Changes, n \in Names : Rename(r, n)
         \/ \E d \in Devices : DeleteDevice(d)
         \/ \E i \in Changes : Publish(i) \/ PublishFails(i) \/ MarkCompleted(i)
         \/ Crash
BY DEF Next, CreatePeripheralHandler, DeletePeripheralHandler, SetPeripheralScheduleHandler,
   SetControlModeHandler, PatchPeripheralHandler

LEMMA RowFacts ==
  /\ NoRow \notin Row /\ NoRow.mode = "automatic" /\ NoRow.schedule = None /\ NoRow.device = None
  /\ IdleReq \in Req /\ IdleReq.at = "idle" /\ IdleReq.row = 0 /\ IdleReq.id = 0
  /\ NoPush \notin Push
  /\ Unset.mode = "automatic" /\ Unset.schedule = None
  /\ Left \notin Modes /\ Left \notin Schedules
BY PeripheralsAssumption
   DEF NoRow, Row, None, IdleReq, Req, NoPush, Push, Unset, Left, Modes

LEMMA SpotFacts ==
  ASSUME PeripheralsInv
  PROVE  /\ \A r \in Changes : Active(r) => Spot(r) \in Places /\ Place(r) = Spot(r)
         /\ \A r, s \in Changes : r # s /\ Active(r) /\ Active(s) => Spot(r) # Spot(s)
<1>1. \A r \in Changes : Active(r) => Spot(r) \in Places /\ Place(r) = Spot(r)
  BY DEF PeripheralsInv, TypeOK, PlaceInv, Active, Spot, Places, Row
<1>2. \A r, s \in Changes : r # s /\ Active(r) /\ Active(s) => Spot(r) # Spot(s)
  BY DEF PeripheralsInv, ActiveUnique, Spot
<1> QED BY <1>1, <1>2

(* A request begins. *)
LEMMA BeginFacts ==
  ASSUME PeripheralsInv, NEW c \in Clients, NEW r \in 0..MaxChanges, NEW id \in 0..MaxChanges,
         NEW body \in Devices \cup Schedules \cup Modes \cup {None},
         NEW at \in {"register", "delete", "publish_mode", "publish_schedule"},
         Begin(c, at, r, id, body)
  PROVE  /\ req' \in [Clients -> Req] /\ req[c] = IdleReq
         /\ req'[c].at = at /\ req'[c].row = r /\ req'[c].id = id /\ req'[c].body = body
         /\ \A e \in Clients : e # c => req'[e] = req[e]
         /\ upset' = (upset \/ Busy(c))
<1> DEFINE x == [at |-> at, row |-> r, id |-> id, body |-> body]
<1>1. x \in Req /\ x.at = at /\ x.row = r /\ x.id = id /\ x.body = body
  BY DEF Req
<1>2. req' = [req EXCEPT ![c] = x] /\ req \in [Clients -> Req] /\ req[c] = IdleReq
      /\ upset' = (upset \/ Busy(c))
  BY DEF Begin, PeripheralsInv, TypeOK
<1> HIDE DEF x
<1> QED BY <1>1, <1>2

LEMMA EndFacts ==
  ASSUME PeripheralsInv, NEW c \in Clients, End(c)
  PROVE  /\ req' \in [Clients -> Req] /\ req'[c] = IdleReq
         /\ \A e \in Clients : e # c => req'[e] = req[e]
BY RowFacts DEF End, PeripheralsInv, TypeOK

(* One more event is posted. *)
LEMMA AnnounceFacts ==
  ASSUME PeripheralsInv, NEW i \in Changes, NEW d \in Devices, NEW p \in Ports,
         NEW op \in {"create", "delete"}, Announce(i, d, p, op)
  PROVE  /\ push' \in [Changes -> {NoPush} \cup Push] /\ push'[i] \in Push
         /\ push'[i].device = d /\ push'[i].port = p /\ push'[i].op = op
         /\ \A j \in Changes : j # i => push'[j] = push[j]
         /\ outcome[i] = "none" /\ outcome' \in [Changes -> {"none", "open", "done", "abandoned"}]
         /\ outcome'[i] = "open" /\ \A j \in Changes : j # i => outcome'[j] = outcome[j]
         /\ UNCHANGED <<failures, effect>>
<1> DEFINE x == [device |-> d, port |-> p, op |-> op]
<1>1. x \in Push /\ x.device = d /\ x.port = p /\ x.op = op
  BY DEF Push
<1>2. push' = [push EXCEPT ![i] = x] /\ push \in [Changes -> {NoPush} \cup Push]
  BY DEF Announce, PeripheralsInv, TypeOK
<1>3. /\ outcome[i] = "none" /\ outcome' = [outcome EXCEPT ![i] = "open"]
      /\ outcome \in [Changes -> {"none", "open", "done", "abandoned"}]
      /\ UNCHANGED <<failures, effect>>
  BY DEF Announce, Box!Post, PeripheralsInv, TypeOK
<1> HIDE DEF x
<1> QED BY <1>1, <1>2, <1>3

LEMMA RegisterFacts ==
  ASSUME PeripheralsInv, NEW c \in Clients, NEW n \in Names, NEW p \in Ports, Register(c, n, p)
  PROVE  LET i == req[c].id
             d == req[c].body
         IN  /\ req[c].at = "register" /\ i \in Changes /\ i \in 1..stamps /\ d \in Devices
             /\ rows[i] = NoRow /\ ~Conflict(d, n, p)
             /\ rows' \in [Changes -> Row \cup {NoRow}] /\ rows'[i] \in Row
             /\ rows'[i].device = d /\ rows'[i].name = n /\ rows'[i].port = p
             /\ rows'[i].mode = "automatic" /\ rows'[i].schedule = None
             /\ \A r \in Changes : r # i => rows'[r] = rows[r]
             /\ Announce(i, d, p, "create") /\ End(c)
             /\ UNCHANGED <<alive, told, stamps, retained, upset, errors>>
<1> DEFINE i == req[c].id
           d == req[c].body
           x == [device |-> d, name |-> n, port |-> p, mode |-> "automatic", schedule |-> None]
<1>1. req[c].at = "register" /\ i \in 1..stamps /\ d \in Devices /\ outcome[i] = "none"
  BY DEF Register, PeripheralsInv, RequestInv
<1>2. i \in Changes
  BY <1>1, PeripheralsAssumption DEF PeripheralsInv, TypeOK, Changes
<1>3. x \in Row /\ x.device = d /\ x.name = n /\ x.port = p /\ x.mode = "automatic" /\ x.schedule = None
  BY <1>1 DEF Row, Modes
<1>4. rows' = [rows EXCEPT ![i] = x] /\ rows \in [Changes -> Row \cup {NoRow}]
  BY DEF Register, PeripheralsInv, TypeOK
<1>5. rows[i] = NoRow
  BY <1>1, <1>2 DEF PeripheralsInv, EventInv
<1>6. /\ ~Conflict(d, n, p) /\ Announce(i, d, p, "create") /\ End(c)
      /\ UNCHANGED <<alive, told, stamps, retained, upset, errors>>
  BY DEF Register
<1> HIDE DEF x, i, d
<1>7. /\ rows' \in [Changes -> Row \cup {NoRow}] /\ rows'[i] = x
      /\ \A r \in Changes : r # i => rows'[r] = rows[r]
  BY <1>2, <1>3, <1>4
<1> QED BY <1>1, <1>2, <1>3, <1>5, <1>6, <1>7 DEF i, d

LEMMA DeleteFacts ==
  ASSUME PeripheralsInv, NEW c \in Clients, DeleteRow(c)
  PROVE  LET i == req[c].id
             r == req[c].row
         IN  /\ req[c].at = "delete" /\ i \in Changes /\ i \in 1..stamps /\ r \in Changes
             /\ rows[r] \in Row /\ Active(r) /\ ~Locked(r) /\ outcome[i] = "none"
             /\ rows' \in [Changes -> Row \cup {NoRow}] /\ rows'[r] = NoRow
             /\ \A s \in Changes : s # r => rows'[s] = rows[s]
             /\ told' \in [Places -> Told]
             /\ told'[Spot(r)].mode = Left /\ told'[Spot(r)].schedule = Left
             /\ \A t \in Places : t # Spot(r) => told'[t] = told[t]
             /\ Announce(i, rows[r].device, rows[r].port, "delete") /\ End(c)
             /\ rows[r].device \in Devices /\ rows[r].port \in Ports
             /\ UNCHANGED <<alive, stamps, retained, upset, errors>>
<1> DEFINE i == req[c].id
           r == req[c].row
<1>1. req[c].at = "delete" /\ i \in 1..stamps /\ r \in Changes /\ outcome[i] = "none"
  BY DEF DeleteRow, PeripheralsInv, RequestInv
<1>2. i \in Changes
  BY <1>1, PeripheralsAssumption DEF PeripheralsInv, TypeOK, Changes
<1>3. /\ Reachable(r) /\ ~Locked(r)
      /\ rows' = [rows EXCEPT ![r] = NoRow]
      /\ told' = [told EXCEPT ![Place(r)] = [mode |-> Left, schedule |-> Left]]
      /\ Announce(i, rows[r].device, rows[r].port, "delete") /\ End(c)
      /\ UNCHANGED <<alive, stamps, retained, upset, errors>>
  BY DEF DeleteRow
<1> DEFINE left == [mode |-> Left, schedule |-> Left]
<1>4. left \in Told /\ left.mode = Left /\ left.schedule = Left
  BY DEF Told
<1> HIDE DEF r, i, left
<1>5. rows[r] \in Row /\ rows[r].device \in Devices /\ rows[r].port \in Ports /\ Active(r)
  BY <1>1, <1>3 DEF Reachable, Active, PeripheralsInv, TypeOK, Row
<1>6. /\ rows' \in [Changes -> Row \cup {NoRow}] /\ rows'[r] = NoRow
      /\ \A s \in Changes : s # r => rows'[s] = rows[s]
  BY <1>1, <1>3 DEF PeripheralsInv, TypeOK
<1>7. /\ told' = [told EXCEPT ![Spot(r)] = left] /\ told \in [Places -> Told]
      /\ Spot(r) \in Places
  BY <1>1, <1>3, <1>5, SpotFacts DEF PeripheralsInv, TypeOK, left
<1>8. /\ told' \in [Places -> Told] /\ told'[Spot(r)] = left
      /\ \A t \in Places : t # Spot(r) => told'[t] = told[t]
  BY <1>4, <1>7
<1> QED BY <1>1, <1>2, <1>3, <1>4, <1>5, <1>6, <1>8 DEF r, i

(* A row that is edited stays, on its device and port. *)
Edited(r) ==
  /\ rows' \in [Changes -> Row \cup {NoRow}]
  /\ rows[r] \in Row /\ rows'[r] \in Row /\ Active(r) /\ rows'[r] # NoRow
  /\ rows'[r].device = rows[r].device /\ rows'[r].port = rows[r].port
  /\ \A s \in Changes : s # r => rows'[s] = rows[s]

LEMMA RenameFacts ==
  ASSUME PeripheralsInv, NEW r \in Changes, NEW n \in Names, Active(r),
         rows' = [rows EXCEPT ![r].name = n]
  PROVE  /\ Edited(r) /\ rows'[r].name = n
         /\ rows'[r].mode = rows[r].mode /\ rows'[r].schedule = rows[r].schedule
<1>1. rows \in [Changes -> Row \cup {NoRow}] /\ rows[r] \in Row
  BY DEF PeripheralsInv, TypeOK, Active
<1> DEFINE x == [rows[r] EXCEPT !.name = n]
<1>2. /\ x \in Row /\ x.name = n /\ x.device = rows[r].device /\ x.port = rows[r].port
      /\ x.mode = rows[r].mode /\ x.schedule = rows[r].schedule
  BY <1>1 DEF Row
<1>3. rows' = [rows EXCEPT ![r] = x]
  OBVIOUS
<1> HIDE DEF x
<1> QED BY <1>1, <1>2, <1>3, RowFacts DEF Edited, Active

LEMMA ScheduleFacts ==
  ASSUME PeripheralsInv, NEW r \in Changes, NEW s \in Schedules, Active(r),
         rows' = [rows EXCEPT ![r].schedule = s]
  PROVE  /\ Edited(r) /\ rows'[r].schedule = s
         /\ rows'[r].mode = rows[r].mode /\ rows'[r].name = rows[r].name
<1>1. rows \in [Changes -> Row \cup {NoRow}] /\ rows[r] \in Row
  BY DEF PeripheralsInv, TypeOK, Active
<1> DEFINE x == [rows[r] EXCEPT !.schedule = s]
<1>2. /\ x \in Row /\ x.schedule = s /\ x.device = rows[r].device /\ x.port = rows[r].port
      /\ x.mode = rows[r].mode /\ x.name = rows[r].name
  BY <1>1 DEF Row
<1>3. rows' = [rows EXCEPT ![r] = x]
  OBVIOUS
<1> HIDE DEF x
<1> QED BY <1>1, <1>2, <1>3, RowFacts DEF Edited, Active

LEMMA ModeFacts ==
  ASSUME PeripheralsInv, NEW r \in Changes, NEW m \in Modes, Active(r),
         rows' = [rows EXCEPT ![r].mode = m]
  PROVE  /\ Edited(r) /\ rows'[r].mode = m
         /\ rows'[r].name = rows[r].name /\ rows'[r].schedule = rows[r].schedule
<1>1. rows \in [Changes -> Row \cup {NoRow}] /\ rows[r] \in Row
  BY DEF PeripheralsInv, TypeOK, Active
<1> DEFINE x == [rows[r] EXCEPT !.mode = m]
<1>2. /\ x \in Row /\ x.mode = m /\ x.device = rows[r].device /\ x.port = rows[r].port
      /\ x.name = rows[r].name /\ x.schedule = rows[r].schedule
  BY <1>1 DEF Row
<1>3. rows' = [rows EXCEPT ![r] = x]
  OBVIOUS
<1> HIDE DEF x
<1> QED BY <1>1, <1>2, <1>3, RowFacts DEF Edited, Active

(* What a publish may tell the device. *)
LEMMA ToldFacts ==
  ASSUME PeripheralsInv, NEW x
  PROVE  /\ \A m \in Modes : LET new == [told EXCEPT ![x].mode = m]
              IN  /\ new \in [Places -> Told] /\ (x \in Places => new[x].mode = m)
                  /\ \A t \in Places : new[t].schedule = told[t].schedule
                                       /\ (t # x => new[t] = told[t])
         /\ \A m \in Schedules : LET new == [told EXCEPT ![x].schedule = m]
              IN  /\ new \in [Places -> Told] /\ (x \in Places => new[x].schedule = m)
                  /\ \A t \in Places : new[t].mode = told[t].mode
                                       /\ (t # x => new[t] = told[t])
<1>1. told \in [Places -> Told]
  BY DEF PeripheralsInv, TypeOK
<1>2. ASSUME NEW m \in Modes
      PROVE  LET new == [told EXCEPT ![x].mode = m]
             IN  /\ new \in [Places -> Told] /\ (x \in Places => new[x].mode = m)
                 /\ \A t \in Places : new[t].schedule = told[t].schedule
                                      /\ (t # x => new[t] = told[t])
  BY <1>1 DEF Told
<1>3. ASSUME NEW m \in Schedules
      PROVE  LET new == [told EXCEPT ![x].schedule = m]
             IN  /\ new \in [Places -> Told] /\ (x \in Places => new[x].schedule = m)
                 /\ \A t \in Places : new[t].mode = told[t].mode
                                      /\ (t # x => new[t] = told[t])
  BY <1>1 DEF Told
<1> QED BY <1>2, <1>3

(* A mode is published and its request goes on, or the publish failed.     *)
LEMMA PublishModeFacts ==
  ASSUME PeripheralsInv, NEW c \in Clients, PublishMode(c)
  PROVE  /\ req[c].at = "publish_mode" /\ req[c].row \in Changes /\ req[c].body \in Modes
         /\ Active(req[c].row)
         /\ req' \in [Clients -> Req] /\ \A e \in Clients : e # c => req'[e] = req[e]
         /\ told' \in [Places -> Told]
         /\ \A t \in Places : told'[t].schedule = told[t].schedule
                              /\ (t # Spot(req[c].row) => told'[t] = told[t])
         /\ \/ /\ req'[c].at = "commit_mode" /\ req'[c].row = req[c].row
               /\ req'[c].body = req[c].body
               /\ told'[Spot(req[c].row)].mode = req[c].body /\ NoError
            \/ req'[c] = IdleReq /\ Error
         /\ UNCHANGED <<alive, rows, stamps, push, eventVars, retained>>
<1>1. /\ req[c].at = "publish_mode" /\ req[c].row \in Changes /\ req[c].body \in Modes
      /\ Active(req[c].row)
  BY DEF PublishMode, PeripheralsInv, RequestInv
<1> DEFINE new == [told EXCEPT ![Place(req[c].row)].mode = req[c].body]
<1>01. Place(req[c].row) = Spot(req[c].row) /\ Spot(req[c].row) \in Places
  BY <1>1, SpotFacts
<1>2. /\ new \in [Places -> Told] /\ new[Spot(req[c].row)].mode = req[c].body
      /\ \A t \in Places : new[t].schedule = told[t].schedule
                           /\ (t # Spot(req[c].row) => new[t] = told[t])
      /\ told \in [Places -> Told]
  BY <1>01, <1>1, ToldFacts DEF PeripheralsInv, TypeOK
<1>3. /\ \/ told' = new /\ req' = [req EXCEPT ![c].at = "commit_mode"] /\ NoError
         \/ told' \in {told, new} /\ End(c) /\ Error
      /\ UNCHANGED <<alive, rows, stamps, push, eventVars, retained>>
  BY DEF PublishMode
<1>4. req \in [Clients -> Req]
  BY DEF PeripheralsInv, TypeOK
<1> HIDE DEF new
<1>5. CASE told' = new /\ req' = [req EXCEPT ![c].at = "commit_mode"] /\ NoError
  <2>1. /\ req' \in [Clients -> Req] /\ \A e \in Clients : e # c => req'[e] = req[e]
        /\ req'[c].at = "commit_mode" /\ req'[c].row = req[c].row /\ req'[c].body = req[c].body
    BY <1>4, <1>5 DEF Req
  <2> QED BY <1>1, <1>2, <1>3, <1>5, <2>1
<1>6. CASE told' \in {told, new} /\ End(c) /\ Error
  BY <1>1, <1>2, <1>3, <1>6, EndFacts
<1> QED BY <1>3, <1>5, <1>6

LEMMA PublishScheduleFacts ==
  ASSUME PeripheralsInv, NEW c \in Clients, PublishSchedule(c)
  PROVE  /\ req[c].at = "publish_schedule" /\ req[c].row \in Changes /\ End(c)
         /\ told' \in [Places -> Told]
         /\ \A t \in Places : told'[t].mode = told[t].mode
         /\ NoError \/ Error
         /\ Active(req[c].row) =>
              /\ \A t \in Places : t # Spot(req[c].row) => told'[t] = told[t]
              /\ told'[Spot(req[c].row)].schedule = req[c].body \/ Error
         /\ UNCHANGED <<alive, rows, stamps, push, eventVars, retained>>
<1>1. req[c].at = "publish_schedule" /\ req[c].row \in Changes /\ req[c].body \in Schedules
  BY DEF PublishSchedule, PeripheralsInv, RequestInv
<1> DEFINE x == Place(req[c].row)
           new == [told EXCEPT ![x].schedule = req[c].body]
<1>2. /\ new \in [Places -> Told] /\ (x \in Places => new[x].schedule = req[c].body)
      /\ \A t \in Places : new[t].mode = told[t].mode /\ (t # x => new[t] = told[t])
      /\ told \in [Places -> Told]
  BY <1>1, ToldFacts DEF PeripheralsInv, TypeOK
<1>21. Active(req[c].row) => x = Spot(req[c].row) /\ x \in Places
  BY <1>1, SpotFacts
<1>3. /\ \/ told' = new /\ NoError
         \/ told' \in {told, new} /\ Error
      /\ End(c) /\ UNCHANGED <<alive, rows, stamps, push, eventVars, retained>>
  BY DEF PublishSchedule
<1> HIDE DEF new, x
<1> QED BY <1>1, <1>2, <1>21, <1>3

LEMMA CommitModeFacts ==
  ASSUME PeripheralsInv, NEW c \in Clients, CommitMode(c)
  PROVE  /\ req[c].at = "commit_mode" /\ req[c].row \in Changes /\ End(c)
         /\ \/ /\ Edited(req[c].row) /\ rows'[req[c].row].mode = req[c].body
               /\ rows'[req[c].row].schedule = rows[req[c].row].schedule
               /\ rows'[req[c].row].name = rows[req[c].row].name
               /\ NoError
            \/ Error /\ UNCHANGED rows
         /\ UNCHANGED <<alive, told, stamps, push, eventVars, retained>>
<1>1. /\ req[c].at = "commit_mode" /\ req[c].row \in Changes /\ req[c].body \in Modes
      /\ Active(req[c].row)
  BY DEF CommitMode, PeripheralsInv, RequestInv
<1>2. /\ \/ rows' = [rows EXCEPT ![req[c].row].mode = req[c].body] /\ NoError
         \/ Error /\ UNCHANGED rows
      /\ End(c) /\ UNCHANGED <<alive, told, stamps, push, eventVars, retained>>
  BY DEF CommitMode
<1> QED BY <1>1, <1>2, ModeFacts

-----------------------------------------------------------------------------
(* The types *)

LEMMA TypeInductive ==
  ASSUME PeripheralsInv, [Next]_vars
  PROVE  TypeOK'
<1>0. TypeOK /\ stamps \in Nat /\ errors \in Nat
  BY PeripheralsAssumption DEF PeripheralsInv, TypeOK
<1>01. ASSUME NoError \/ Error
       PROVE  upset' \in BOOLEAN /\ errors' \in 0..MaxErrors
  <2>1. CASE NoError
    BY <1>0, <2>1 DEF NoError, TypeOK
  <2>2. CASE Error
    <3>1. errors' \in 0..MaxErrors
      BY <1>0, <2>2, PeripheralsAssumption DEF Error, TypeOK
    <3>2. upset' \in BOOLEAN
      BY <2>2 DEF Error
    <3> QED BY <3>1, <3>2
  <2> QED BY <1>01, <2>1, <2>2
<1>1. CASE UNCHANGED vars
  BY <1>0, <1>1 DEF vars, tableVars, eventVars, TypeOK
<1>2. ASSUME NEW c \in Clients, NEW at \in {"register", "delete", "publish_mode", "publish_schedule"},
             NEW r \in 0..MaxChanges, NEW id \in 0..MaxChanges,
             NEW body \in Devices \cup Schedules \cup Modes \cup {None},
             Begin(c, at, r, id, body), rows' \in [Changes -> Row \cup {NoRow}],
             stamps' \in 0..MaxChanges,
             UNCHANGED <<alive, told, push, eventVars, retained, errors>>
      PROVE  TypeOK'
  <2>1. req' \in [Clients -> Req] /\ upset' = (upset \/ Busy(c))
    BY <1>2, BeginFacts
  <2>2. upset' \in BOOLEAN
    BY <2>1
  <2> QED BY <1>0, <1>2, <2>1, <2>2 DEF TypeOK, eventVars
<1>3. ASSUME NEW c \in Clients, NEW d \in Devices, BeginRegister(c, d)
      PROVE  TypeOK'
  <2>1. stamps' \in 0..MaxChanges
    BY <1>0, <1>3, PeripheralsAssumption DEF BeginRegister, TypeOK
  <2>2. 0 \in 0..MaxChanges
    BY PeripheralsAssumption
  <2>3. /\ Begin(c, "register", 0, stamps', d)
        /\ UNCHANGED <<alive, rows, told, push, eventVars, retained, errors>>
    BY <1>3 DEF BeginRegister
  <2>4. rows' \in [Changes -> Row \cup {NoRow}]
    BY <1>0, <2>3 DEF TypeOK
  <2> QED BY <1>2, <2>1, <2>2, <2>3, <2>4
<1>4. ASSUME NEW c \in Clients, NEW n \in Names, NEW p \in Ports, Register(c, n, p)
      PROVE  TypeOK'
  <2> DEFINE i == req[c].id
             d == req[c].body
  <2>1. /\ i \in Changes /\ d \in Devices /\ Announce(i, d, p, "create") /\ End(c)
        /\ rows' \in [Changes -> Row \cup {NoRow}]
        /\ UNCHANGED <<alive, told, stamps, retained, upset, errors>>
    BY <1>4, RegisterFacts
  <2> HIDE DEF i, d
  <2>2. /\ push' \in [Changes -> {NoPush} \cup Push]
        /\ outcome' \in [Changes -> {"none", "open", "done", "abandoned"}]
        /\ UNCHANGED <<failures, effect>>
    BY <2>1, AnnounceFacts
  <2>3. req' \in [Clients -> Req]
    BY <2>1, EndFacts
  <2> QED BY <1>0, <2>1, <2>2, <2>3 DEF TypeOK
<1>5. ASSUME NEW c \in Clients, Refuse(c)
      PROVE  TypeOK'
  <2>1. req' \in [Clients -> Req]
    BY <1>5, EndFacts DEF Refuse
  <2> QED BY <1>0, <1>5, <2>1 DEF Refuse, TypeOK, eventVars
<1>6. ASSUME NEW c \in Clients, NEW r \in Changes, BeginDelete(c, r)
      PROVE  TypeOK'
  <2>1. stamps' \in 0..MaxChanges
    BY <1>0, <1>6, PeripheralsAssumption DEF BeginDelete, TypeOK
  <2>2. r \in 0..MaxChanges
    BY PeripheralsAssumption DEF Changes
  <2>3. /\ Begin(c, "delete", r, stamps', None)
        /\ UNCHANGED <<alive, rows, told, push, eventVars, retained, errors>>
    BY <1>6 DEF BeginDelete
  <2>4. rows' \in [Changes -> Row \cup {NoRow}]
    BY <1>0, <2>3 DEF TypeOK
  <2> QED BY <1>2, <2>1, <2>2, <2>3, <2>4
<1>7. ASSUME NEW c \in Clients, DeleteRow(c)
      PROVE  TypeOK'
  <2> DEFINE i == req[c].id
             r == req[c].row
  <2>1. /\ i \in Changes /\ rows[r].device \in Devices /\ rows[r].port \in Ports
        /\ Announce(i, rows[r].device, rows[r].port, "delete") /\ End(c)
        /\ rows' \in [Changes -> Row \cup {NoRow}]
        /\ told' \in [Places -> Told]
        /\ UNCHANGED <<alive, stamps, retained, upset, errors>>
    BY <1>7, DeleteFacts
  <2> HIDE DEF i, r
  <2>2. /\ push' \in [Changes -> {NoPush} \cup Push]
        /\ outcome' \in [Changes -> {"none", "open", "done", "abandoned"}]
        /\ UNCHANGED <<failures, effect>>
    BY <2>1, AnnounceFacts
  <2>3. req' \in [Clients -> Req]
    BY <2>1, EndFacts
  <2> QED BY <1>0, <2>1, <2>2, <2>3 DEF TypeOK
<1>8. ASSUME NEW r \in Changes, NEW n \in Names, Rename(r, n)
      PROVE  TypeOK'
  <2>1. rows' \in [Changes -> Row \cup {NoRow}]
    BY <1>8, RenameFacts DEF Rename, Reachable, Edited
  <2> QED BY <1>0, <1>8, <2>1 DEF Rename, TypeOK, eventVars
<1>9. ASSUME NEW c \in Clients, NEW r \in Changes, NEW s \in Schedules, StoreSchedule(c, r, s)
      PROVE  TypeOK'
  <2>1. rows' \in [Changes -> Row \cup {NoRow}]
    BY <1>9, ScheduleFacts DEF StoreSchedule, Reachable, Edited
  <2>2. r \in 0..MaxChanges /\ 0 \in 0..MaxChanges
    BY PeripheralsAssumption DEF Changes
  <2>3. /\ Begin(c, "publish_schedule", r, 0, s)
        /\ UNCHANGED <<alive, told, stamps, push, eventVars, retained, errors>>
    BY <1>9 DEF StoreSchedule
  <2>4. stamps' \in 0..MaxChanges
    BY <1>0, <2>3 DEF TypeOK
  <2> QED BY <1>2, <2>1, <2>2, <2>3, <2>4
<1>10. ASSUME NEW c \in Clients, PublishSchedule(c)
       PROVE  TypeOK'
  <2>1. /\ End(c) /\ (NoError \/ Error)
        /\ told' \in [Places -> Told]
        /\ UNCHANGED <<alive, rows, stamps, push, eventVars, retained>>
    BY <1>10, PublishScheduleFacts
  <2>2. req' \in [Clients -> Req]
    BY <2>1, EndFacts
  <2>3. upset' \in BOOLEAN /\ errors' \in 0..MaxErrors
    BY <1>01, <2>1
  <2> QED BY <1>0, <2>1, <2>2, <2>3 DEF TypeOK, eventVars
<1>11. ASSUME NEW c \in Clients, NEW r \in Changes, NEW m \in Modes, UpdateMode(c, r, m)
       PROVE  TypeOK'
  <2>1. /\ Begin(c, "publish_mode", r, 0, m)
        /\ UNCHANGED <<alive, rows, told, stamps, push, eventVars, retained, errors>>
    BY <1>11 DEF UpdateMode
  <2>2. r \in 0..MaxChanges /\ 0 \in 0..MaxChanges
    BY PeripheralsAssumption DEF Changes
  <2>3. rows' \in [Changes -> Row \cup {NoRow}] /\ stamps' \in 0..MaxChanges
    BY <1>0, <2>1 DEF TypeOK
  <2> QED BY <1>2, <2>1, <2>2, <2>3
<1>12. ASSUME NEW c \in Clients, PublishMode(c)
       PROVE  TypeOK'
  <2>1. /\ req' \in [Clients -> Req] /\ (NoError \/ Error)
        /\ told' \in [Places -> Told]
        /\ UNCHANGED <<alive, rows, stamps, push, eventVars, retained>>
    BY <1>12, PublishModeFacts
  <2>2. upset' \in BOOLEAN /\ errors' \in 0..MaxErrors
    BY <1>01, <2>1
  <2> QED BY <1>0, <2>1, <2>2 DEF TypeOK, eventVars
<1>13. ASSUME NEW c \in Clients, CommitMode(c)
       PROVE  TypeOK'
  <2>1. /\ End(c) /\ (NoError \/ Error)
        /\ rows' \in [Changes -> Row \cup {NoRow}] \/ UNCHANGED rows
        /\ UNCHANGED <<alive, told, stamps, push, eventVars, retained>>
    BY <1>13, CommitModeFacts DEF Edited
  <2>2. req' \in [Clients -> Req]
    BY <2>1, EndFacts
  <2>3. upset' \in BOOLEAN /\ errors' \in 0..MaxErrors
    BY <1>01, <2>1
  <2> QED BY <1>0, <2>1, <2>2, <2>3 DEF TypeOK, eventVars
<1>14. CASE Crash
  <2>1. req' \in [Clients -> Req]
    BY <1>14, RowFacts DEF Crash
  <2>2. upset' \in BOOLEAN /\ errors' \in 0..MaxErrors
    BY <1>01, <1>14 DEF Crash
  <2> QED BY <1>0, <1>14, <2>1, <2>2 DEF Crash, TypeOK, eventVars
<1>15. ASSUME NEW d \in Devices, DeleteDevice(d)
       PROVE  TypeOK'
  BY <1>0, <1>15 DEF DeleteDevice, TypeOK, eventVars
<1>16. ASSUME NEW i \in Changes, outcome[i] = "open",
              retained' \in {retained, [retained EXCEPT ![Topic(i)] = push[i].op]}
       PROVE  retained' \in [Devices \X Ports -> {None, "create", "delete"}]
  <2>1. push[i].op \in {None, "create", "delete"}
    BY <1>16 DEF PeripheralsInv, EventInv, Push
  <2> QED BY <1>0, <1>16, <2>1 DEF TypeOK
<1>17. ASSUME NEW i \in Changes, Publish(i)
       PROVE  TypeOK'
  <2>1. /\ retained' \in [Devices \X Ports -> {None, "create", "delete"}]
        /\ effect' \subseteq Changes /\ UNCHANGED <<outcome, failures>>
        /\ UNCHANGED <<alive, rows, told, req, stamps, push>>
    BY <1>0, <1>16, <1>17 DEF Publish, Box!Act, TypeOK
  <2>2. upset' \in BOOLEAN /\ errors' \in 0..MaxErrors
    <3>1. CASE i \in effect
      BY <1>01, <1>17, <3>1 DEF Publish
    <3>2. CASE i \notin effect
      <4>1. upset' = (upset \/ Overtakes(i)) /\ errors' = errors
        BY <1>17, <3>2 DEF Publish
      <4>2. upset' \in BOOLEAN
        BY <4>1
      <4> QED BY <1>0, <4>1, <4>2 DEF TypeOK
    <3> QED BY <3>1, <3>2
  <2> QED BY <1>0, <2>1, <2>2 DEF TypeOK
<1>18. ASSUME NEW i \in Changes, PublishFails(i)
       PROVE  TypeOK'
  <2>1. /\ retained' \in [Devices \X Ports -> {None, "create", "delete"}]
        /\ UNCHANGED <<alive, rows, told, req, stamps, push, effect>>
    BY <1>16, <1>18 DEF PublishFails, Box!Fail
  <2>2. failures[i] < MaxFailures
    BY <1>18 DEF PublishFails, Box!Fail, PeripheralsInv, EventInv
  <2>3. /\ failures' \in [Changes -> 0..MaxFailures]
        /\ outcome' \in [Changes -> {"none", "open", "done", "abandoned"}]
    BY <1>0, <1>18, <2>2, PeripheralsAssumption DEF PublishFails, Box!Fail, TypeOK
  <2>4. upset' \in BOOLEAN /\ errors' \in 0..MaxErrors
    BY <1>01, <1>18 DEF PublishFails
  <2> QED BY <1>0, <2>1, <2>3, <2>4 DEF TypeOK
<1>19. ASSUME NEW i \in Changes, MarkCompleted(i)
       PROVE  TypeOK'
  BY <1>0, <1>19 DEF MarkCompleted, Box!Confirm, TypeOK
<1>20. ASSUME Next
       PROVE  TypeOK'
  BY <1>3, <1>4, <1>5, <1>6, <1>7, <1>8, <1>9, <1>10, <1>11, <1>12, <1>13, <1>14, <1>15, <1>17,
     <1>18, <1>19, <1>20, Steps
<1> QED BY <1>1, <1>20

-----------------------------------------------------------------------------
(* Events, requests and rows *)

LEMMA EventInductive ==
  ASSUME PeripheralsInv, [Next]_vars
  PROVE  EventInv'
<1>0. /\ stamps \in Nat /\ TypeOK /\ EventInv
  BY PeripheralsAssumption DEF PeripheralsInv, TypeOK
<1>1. ASSUME UNCHANGED <<outcome, failures, effect, push, rows>>, stamps' \in Nat, stamps <= stamps'
      PROVE  EventInv'
  BY <1>0, <1>1, PeripheralsAssumption DEF EventInv, Changes
<1>2. ASSUME NEW c \in Clients, NEW d \in Devices, BeginRegister(c, d)
      PROVE  EventInv'
  BY <1>0, <1>1, <1>2 DEF BeginRegister, eventVars
<1>3. ASSUME NEW c \in Clients, NEW r \in Changes, BeginDelete(c, r)
      PROVE  EventInv'
  BY <1>0, <1>1, <1>3 DEF BeginDelete, eventVars
<1>4. ASSUME UNCHANGED <<outcome, failures, effect, push, rows, stamps>>
      PROVE  EventInv'
  BY <1>0, <1>1, <1>4
<1>5. ASSUME NEW i \in Changes, NEW d \in Devices, NEW p \in Ports, NEW op \in {"create", "delete"},
             Announce(i, d, p, op), i \in 1..stamps, UNCHANGED stamps,
             \A r \in Changes : r # i /\ rows[r] = NoRow => rows'[r] = NoRow
      PROVE  EventInv'
  <2>0. Announce(i, d, p, op)
    BY <1>5
  <2>1. /\ push'[i] \in Push /\ \A j \in Changes : j # i => push'[j] = push[j]
        /\ outcome[i] = "none" /\ outcome'[i] = "open"
        /\ \A j \in Changes : j # i => outcome'[j] = outcome[j]
        /\ UNCHANGED <<failures, effect>>
    BY <2>0, AnnounceFacts
  <2>2. failures[i] < MaxFailures
    BY <1>0, <2>1, PeripheralsAssumption DEF EventInv
  <2> QED BY <1>0, <1>5, <2>1, <2>2 DEF EventInv
<1>6. ASSUME NEW c \in Clients, NEW n \in Names, NEW p \in Ports, Register(c, n, p)
      PROVE  EventInv'
  <2> DEFINE i == req[c].id
             d == req[c].body
  <2>1. /\ i \in Changes /\ i \in 1..stamps /\ d \in Devices /\ Announce(i, d, p, "create")
        /\ \A r \in Changes : r # i => rows'[r] = rows[r]
        /\ UNCHANGED stamps
    BY <1>6, RegisterFacts
  <2> HIDE DEF i, d
  <2> QED BY <1>5, <2>1
<1>7. ASSUME NEW c \in Clients, DeleteRow(c)
      PROVE  EventInv'
  <2> DEFINE i == req[c].id
             r == req[c].row
  <2>1. /\ i \in Changes /\ i \in 1..stamps /\ rows[r].device \in Devices /\ rows[r].port \in Ports
        /\ Announce(i, rows[r].device, rows[r].port, "delete")
        /\ rows'[r] = NoRow /\ \A s \in Changes : s # r => rows'[s] = rows[s]
        /\ UNCHANGED stamps
    BY <1>7, DeleteFacts
  <2> HIDE DEF i, r
  <2> QED BY <1>5, <2>1
<1>8. ASSUME NEW r \in Changes, Edited(r), UNCHANGED <<outcome, failures, effect, push, stamps>>
      PROVE  EventInv'
  BY <1>0, <1>8 DEF EventInv, Edited, Active
<1>9. ASSUME NEW r \in Changes, NEW n \in Names, Rename(r, n)
      PROVE  EventInv'
  BY <1>8, <1>9, RenameFacts DEF Rename, Reachable, eventVars
<1>10. ASSUME NEW c \in Clients, NEW r \in Changes, NEW s \in Schedules, StoreSchedule(c, r, s)
       PROVE  EventInv'
  BY <1>8, <1>10, ScheduleFacts DEF StoreSchedule, Reachable, eventVars
<1>11. ASSUME NEW c \in Clients, CommitMode(c)
       PROVE  EventInv'
  BY <1>4, <1>8, <1>11, CommitModeFacts DEF eventVars
<1>12. ASSUME NEW i \in Changes, Publish(i)
       PROVE  EventInv'
  <2>1. /\ outcome[i] = "open" /\ effect' = effect \cup {i}
        /\ UNCHANGED <<outcome, failures, rows, stamps, push>>
    BY <1>12 DEF Publish, Box!Act
  <2> QED BY <1>0, <2>1 DEF EventInv
<1>13. ASSUME NEW i \in Changes, PublishFails(i)
       PROVE  EventInv'
  <2>1. /\ outcome[i] = "open" /\ failures' = [failures EXCEPT ![i] = @ + 1]
        /\ outcome' = [outcome EXCEPT ![i] =
             IF failures[i] + 1 = MaxFailures THEN "abandoned" ELSE "open"]
        /\ UNCHANGED <<effect, rows, stamps, push>>
    BY <1>13 DEF PublishFails, Box!Fail
  <2>2. failures[i] < MaxFailures /\ failures[i] \in Nat /\ MaxFailures \in Nat
    BY <1>0, <2>1, PeripheralsAssumption DEF EventInv, TypeOK
  <2>3. outcome \in [Changes -> {"none", "open", "done", "abandoned"}] /\ failures \in [Changes -> 0..MaxFailures]
    BY <1>0 DEF TypeOK
  <2>4. /\ outcome'[i] \in {"open", "abandoned"} /\ outcome'[i] = "open" => failures'[i] < MaxFailures
        /\ \A j \in Changes : j # i => outcome'[j] = outcome[j] /\ failures'[j] = failures[j]
    BY <2>1, <2>2, <2>3
  <2> QED BY <1>0, <2>1, <2>4 DEF EventInv
<1>14. ASSUME NEW i \in Changes, MarkCompleted(i)
       PROVE  EventInv'
  <2>1. /\ outcome[i] = "open" /\ i \in effect /\ outcome' = [outcome EXCEPT ![i] = "done"]
        /\ UNCHANGED <<failures, effect, rows, stamps, push>>
    BY <1>14 DEF MarkCompleted, Box!Confirm
  <2>2. outcome \in [Changes -> {"none", "open", "done", "abandoned"}]
    BY <1>0 DEF TypeOK
  <2>3. outcome'[i] = "done" /\ \A j \in Changes : j # i => outcome'[j] = outcome[j]
    BY <2>1, <2>2
  <2> QED BY <1>0, <2>1, <2>3 DEF EventInv
<1>15. ASSUME Next
       PROVE  EventInv'
  <2>1. ASSUME NEW c \in Clients, PublishMode(c)
        PROVE  EventInv'
    BY <1>4, <2>1, PublishModeFacts DEF eventVars
  <2>2. ASSUME NEW c \in Clients, PublishSchedule(c)
        PROVE  EventInv'
    BY <1>4, <2>2, PublishScheduleFacts DEF eventVars
  <2> QED BY <1>2, <1>3, <1>4, <1>6, <1>7, <1>9, <1>10, <1>11, <1>12, <1>13, <1>14, <1>15, <2>1, <2>2,
     Steps DEF Refuse, UpdateMode, Crash, DeleteDevice, eventVars
<1> QED BY <1>4, <1>15 DEF vars, tableVars, eventVars

Posting(at) == at \in {"register", "delete"}
Holding(at) == at \in {"publish_mode", "commit_mode"}

(* What a request in flight relies on. *)
Ready(c) ==
  /\ req[c].at = "idle" => req[c] = IdleReq
  /\ req[c].at = "register" => req[c].body \in Devices
  /\ Posting(req[c].at) => req[c].id \in 1..stamps /\ outcome[req[c].id] = "none"
  /\ req[c].at = "delete" \/ Holding(req[c].at) \/ req[c].at = "publish_schedule" =>
       req[c].row \in Changes
  /\ Holding(req[c].at) => req[c].body \in Modes /\ Active(req[c].row)
  /\ req[c].at = "publish_schedule" => req[c].body \in Schedules

Apart(c, d) ==
  /\ Posting(req[c].at) /\ Posting(req[d].at) => req[c].id # req[d].id
  /\ Holding(req[c].at) /\ Holding(req[d].at) => req[c].row # req[d].row

LEMMA RequestParts ==
  RequestInv <=> /\ \A c \in Clients : Ready(c)
                 /\ \A c, d \in Clients : c # d => Apart(c, d)
BY DEF RequestInv, Ready, Apart, Posting, Holding

LEMMA RequestInductive ==
  ASSUME PeripheralsInv, [Next]_vars
  PROVE  RequestInv'
<1>0. /\ stamps \in Nat /\ TypeOK /\ EventInv
      /\ \A c \in Clients : Ready(c)
      /\ \A c, d \in Clients : c # d => Apart(c, d)
  BY RequestParts, PeripheralsAssumption DEF PeripheralsInv, TypeOK
<1>01. SUFFICES /\ \A c \in Clients : Ready(c)'
                /\ \A c, d \in Clients : c # d => Apart(c, d)'
  BY DEF RequestInv, Ready, Apart, Posting, Holding
<1> DEFINE Goal == /\ \A c \in Clients : Ready(c)
                   /\ \A c, d \in Clients : c # d => Apart(c, d)
(* The requests that stay keep what they rely on. *)
<1>1. ASSUME NEW c \in Clients, \A e \in Clients : e # c => req'[e] = req[e],
             stamps <= stamps', stamps' \in Nat,
             \A i \in Changes : outcome'[i] = outcome[i]
               \/ (outcome[i] = "none" /\ req[c].id = i /\ Posting(req[c].at)) \/ outcome[i] # "none",
             \A i \in Changes : outcome[i] # "none" => outcome'[i] # "none",
             \A r \in Changes : Active(r) => Active(r)' \/ ~Locked(r)
      PROVE  \A e \in Clients : e # c => Ready(e)'
  <2> SUFFICES ASSUME NEW e \in Clients, e # c
               PROVE  Ready(e)'
    OBVIOUS
  <2>1. req'[e] = req[e] /\ Ready(e) /\ Apart(e, c)
    BY <1>0, <1>1
  <2>2. Posting(req[e].at) => req[e].id \in 1..stamps' /\ outcome'[req[e].id] = "none"
    <3>1. Posting(req[e].at) => req[e].id \in Changes /\ req[e].id \in 1..stamps'
      BY <1>0, <1>1, <2>1, PeripheralsAssumption DEF Ready, Changes, TypeOK
    <3> QED BY <1>1, <2>1, <3>1 DEF Ready, Apart
  <2>3. Holding(req[e].at) => Active(req[e].row)'
    BY <1>1, <2>1 DEF Ready, Locked, Holding
  <2> QED BY <2>1, <2>2, <2>3 DEF Ready
<1>2. ASSUME NEW c \in Clients, req'[c] = IdleReq, \A e \in Clients : e # c => req'[e] = req[e]
      PROVE  Ready(c)' /\ \A e, d \in Clients : e # d => Apart(e, d)'
  <2>1. Ready(c)'
    BY <1>2, RowFacts DEF Ready, Posting, Holding
  <2>2. ~Posting(req'[c].at) /\ ~Holding(req'[c].at)
    BY <1>2, RowFacts DEF Posting, Holding
  <2>3. ASSUME NEW e \in Clients, NEW d \in Clients, e # d
        PROVE  Apart(e, d)'
    BY <1>0, <1>2, <2>2, <2>3 DEF Apart
  <2> QED BY <2>1, <2>3
<1>3. ASSUME NEW c \in Clients, \A e \in Clients : e # c => req'[e] = req[e],
             \A e \in Clients : e # c => Apart(c, e)'
      PROVE  \A e, d \in Clients : e # d => Apart(e, d)'
  <2>1. ASSUME NEW e \in Clients, NEW d \in Clients, e # d
        PROVE  Apart(e, d)'
    <3>1. CASE e # c /\ d # c
      BY <1>0, <1>3, <2>1, <3>1 DEF Apart
    <3>2. CASE e = c
      BY <1>3, <2>1, <3>2
    <3>3. CASE d = c
      <4>1. Apart(c, e)'
        BY <1>3, <2>1, <3>3
      <4> QED BY <3>3, <4>1 DEF Apart
    <3> QED BY <3>1, <3>2, <3>3
  <2> QED BY <2>1
<1>4. ASSUME UNCHANGED <<req, stamps>>,
             \A i \in Changes : outcome[i] = "none" => outcome'[i] = "none",
             \A r \in Changes : Active(r) => Active(r)'
      PROVE  Goal'
  <2>1. ASSUME NEW c \in Clients
        PROVE  Ready(c)'
    <3>1. Posting(req[c].at) => req[c].id \in Changes
      BY <1>0, PeripheralsAssumption DEF Ready, Changes, TypeOK
    <3> QED BY <1>0, <1>4, <3>1 DEF Ready
  <2>2. \A e, d \in Clients : e # d => Apart(e, d)'
    BY <1>0, <1>4 DEF Apart
  <2> QED BY <2>1, <2>2
<1>5. ASSUME UNCHANGED <<req, stamps, outcome, rows>>
      PROVE  Goal'
  BY <1>4, <1>5 DEF Active
<1>6. ASSUME NEW c \in Clients, NEW d \in Devices, BeginRegister(c, d)
      PROVE  Goal'
  <2>1. stamps' \in 0..MaxChanges /\ 0 \in 0..MaxChanges /\ stamps' = stamps + 1
    BY <1>0, <1>6, PeripheralsAssumption DEF BeginRegister, TypeOK
  <2>2. /\ Begin(c, "register", 0, stamps', d)
        /\ UNCHANGED <<rows, outcome>>
    BY <1>6 DEF BeginRegister, eventVars
  <2>3. /\ req'[c].at = "register" /\ req'[c].id = stamps' /\ req'[c].body = d
        /\ \A e \in Clients : e # c => req'[e] = req[e]
    BY <2>1, <2>2, BeginFacts
  <2>4. outcome[stamps'] = "none"
    BY <1>0, <2>1 DEF EventInv, Changes
  <2>5. Ready(c)'
    BY <1>0, <2>1, <2>2, <2>3, <2>4 DEF Ready, Posting, Holding
  <2>6. \A e \in Clients : e # c => Ready(e)'
    BY <1>0, <1>1, <2>1, <2>2, <2>3 DEF Active
  <2>7. ASSUME NEW e \in Clients, e # c
        PROVE  Apart(c, e)'
    <3>1. Posting(req[e].at) => req[e].id \in 1..stamps
      BY <1>0 DEF Ready
    <3> QED BY <1>0, <2>1, <2>3, <2>7, <3>1 DEF Apart, Holding
  <2> QED BY <1>3, <2>3, <2>5, <2>6, <2>7
<1>7. ASSUME NEW c \in Clients, NEW r \in Changes, BeginDelete(c, r)
      PROVE  Goal'
  <2>1. stamps' \in 0..MaxChanges /\ r \in 0..MaxChanges /\ stamps' = stamps + 1
    BY <1>0, <1>7, PeripheralsAssumption DEF BeginDelete, TypeOK, Changes
  <2>2. /\ Begin(c, "delete", r, stamps', None)
        /\ UNCHANGED <<rows, outcome>>
    BY <1>7 DEF BeginDelete, eventVars
  <2>3. /\ req'[c].at = "delete" /\ req'[c].id = stamps' /\ req'[c].row = r
        /\ \A e \in Clients : e # c => req'[e] = req[e]
    BY <2>1, <2>2, BeginFacts
  <2>4. outcome[stamps'] = "none"
    BY <1>0, <2>1 DEF EventInv, Changes
  <2>5. Ready(c)'
    BY <1>0, <2>1, <2>2, <2>3, <2>4 DEF Ready, Posting, Holding
  <2>6. \A e \in Clients : e # c => Ready(e)'
    BY <1>0, <1>1, <2>1, <2>2, <2>3 DEF Active
  <2>7. ASSUME NEW e \in Clients, e # c
        PROVE  Apart(c, e)'
    <3>1. Posting(req[e].at) => req[e].id \in 1..stamps
      BY <1>0 DEF Ready
    <3> QED BY <1>0, <2>1, <2>3, <2>7, <3>1 DEF Apart, Holding
  <2> QED BY <1>3, <2>3, <2>5, <2>6, <2>7
<1>8. ASSUME NEW c \in Clients, NEW r \in Changes, NEW s \in Schedules, StoreSchedule(c, r, s)
      PROVE  Goal'
  <2>1. r \in 0..MaxChanges /\ 0 \in 0..MaxChanges
    BY PeripheralsAssumption DEF Changes
  <2>2. Begin(c, "publish_schedule", r, 0, s) /\ UNCHANGED <<stamps, outcome>> /\ Active(r)
        /\ rows' = [rows EXCEPT ![r].schedule = s]
    BY <1>8 DEF StoreSchedule, eventVars, Reachable
  <2>3. /\ req'[c].at = "publish_schedule" /\ req'[c].row = r /\ req'[c].body = s
        /\ \A e \in Clients : e # c => req'[e] = req[e]
    BY <2>1, <2>2, BeginFacts
  <2>4. \A q \in Changes : Active(q) => Active(q)'
    BY <2>2, ScheduleFacts DEF Edited, Active
  <2>5. Ready(c)'
    BY <2>3 DEF Ready, Posting, Holding
  <2>6. \A e \in Clients : e # c => Ready(e)'
    BY <1>0, <1>1, <2>2, <2>3, <2>4
  <2>7. \A e \in Clients : e # c => Apart(c, e)'
    BY <2>3 DEF Apart, Posting, Holding
  <2> QED BY <1>3, <2>3, <2>5, <2>6, <2>7
<1>9. ASSUME NEW c \in Clients, NEW r \in Changes, NEW m \in Modes, UpdateMode(c, r, m)
      PROVE  Goal'
  <2>1. r \in 0..MaxChanges /\ 0 \in 0..MaxChanges
    BY PeripheralsAssumption DEF Changes
  <2>2. Begin(c, "publish_mode", r, 0, m) /\ UNCHANGED <<stamps, outcome, rows>> /\ Active(r) /\ ~Locked(r)
    BY <1>9 DEF UpdateMode, eventVars, Reachable
  <2>3. /\ req'[c].at = "publish_mode" /\ req'[c].row = r /\ req'[c].body = m
        /\ \A e \in Clients : e # c => req'[e] = req[e]
    BY <2>1, <2>2, BeginFacts
  <2>4. \A q \in Changes : Active(q) => Active(q)'
    BY <2>2 DEF Active
  <2>5. Ready(c)'
    BY <2>2, <2>3 DEF Ready, Posting, Holding, Active
  <2>6. \A e \in Clients : e # c => Ready(e)'
    BY <1>0, <1>1, <2>2, <2>3, <2>4
  <2>7. \A e \in Clients : e # c => Apart(c, e)'
    BY <2>2, <2>3 DEF Apart, Posting, Holding, Locked
  <2> QED BY <1>3, <2>3, <2>5, <2>6, <2>7
<1>10. ASSUME NEW c \in Clients, NEW n \in Names, NEW p \in Ports, Register(c, n, p)
       PROVE  Goal'
  <2> DEFINE i == req[c].id
             d == req[c].body
  <2>1. /\ req[c].at = "register" /\ i \in Changes /\ d \in Devices /\ Announce(i, d, p, "create") /\ End(c)
        /\ rows[i] = NoRow /\ rows'[i] \in Row
        /\ \A r \in Changes : r # i => rows'[r] = rows[r]
        /\ UNCHANGED stamps
    BY <1>10, RegisterFacts
  <2>2. \A j \in Changes : (j # i => outcome'[j] = outcome[j]) /\ outcome[i] = "none" /\ outcome'[i] = "open"
    BY <2>1, AnnounceFacts
  <2>3. \A r \in Changes : Active(r) => Active(r)'
    BY <2>1, RowFacts DEF Active
  <2>4. req'[c] = IdleReq /\ \A e \in Clients : e # c => req'[e] = req[e]
    BY <2>1, EndFacts
  <2>5. \A e \in Clients : e # c => Ready(e)'
    BY <1>0, <1>1, <2>1, <2>2, <2>3, <2>4 DEF Posting
  <2> QED BY <1>2, <2>4, <2>5
<1>11. ASSUME NEW c \in Clients, DeleteRow(c)
       PROVE  Goal'
  <2> DEFINE i == req[c].id
             r == req[c].row
  <2>1. /\ req[c].at = "delete" /\ i \in Changes /\ r \in Changes /\ ~Locked(r)
        /\ rows[r].device \in Devices /\ rows[r].port \in Ports
        /\ Announce(i, rows[r].device, rows[r].port, "delete") /\ End(c)
        /\ \A s \in Changes : s # r => rows'[s] = rows[s]
        /\ UNCHANGED stamps
    BY <1>11, DeleteFacts
  <2>2. \A j \in Changes : (j # i => outcome'[j] = outcome[j]) /\ outcome[i] = "none" /\ outcome'[i] = "open"
    BY <2>1, AnnounceFacts
  <2>3. \A s \in Changes : Active(s) => Active(s)' \/ ~Locked(s)
    BY <2>1 DEF Active
  <2>4. req'[c] = IdleReq /\ \A e \in Clients : e # c => req'[e] = req[e]
    BY <2>1, EndFacts
  <2>5. \A e \in Clients : e # c => Ready(e)'
    BY <1>0, <1>1, <2>1, <2>2, <2>3, <2>4 DEF Posting
  <2> QED BY <1>2, <2>4, <2>5
<1>12. ASSUME NEW c \in Clients, End(c), UNCHANGED <<stamps, outcome>>,
              \A r \in Changes : Active(r) => Active(r)'
       PROVE  Goal'
  <2>1. req'[c] = IdleReq /\ \A e \in Clients : e # c => req'[e] = req[e]
    BY <1>12, EndFacts
  <2>2. \A e \in Clients : e # c => Ready(e)'
    BY <1>0, <1>1, <1>12, <2>1
  <2> QED BY <1>2, <2>1, <2>2
<1>13. ASSUME NEW c \in Clients, PublishSchedule(c)
       PROVE  Goal'
  BY <1>12, <1>13, PublishScheduleFacts DEF eventVars, Active
<1>14. ASSUME NEW c \in Clients, CommitMode(c)
       PROVE  Goal'
  <2>1. End(c) /\ UNCHANGED <<stamps, outcome>> /\ req[c].row \in Changes
        /\ (Edited(req[c].row) \/ UNCHANGED rows)
    BY <1>14, CommitModeFacts DEF eventVars
  <2>2. \A r \in Changes : Active(r) => Active(r)'
    BY <2>1 DEF Edited, Active
  <2> QED BY <1>12, <2>1, <2>2
<1>15. ASSUME NEW c \in Clients, Refuse(c)
       PROVE  Goal'
  BY <1>12, <1>15 DEF Refuse, eventVars, Active
<1>16. ASSUME NEW c \in Clients, PublishMode(c)
       PROVE  Goal'
  <2>1. /\ req[c].at = "publish_mode" /\ UNCHANGED <<stamps, outcome, rows>>
        /\ \A e \in Clients : e # c => req'[e] = req[e]
        /\ \/ req'[c].at = "commit_mode" /\ req'[c].row = req[c].row /\ req'[c].body = req[c].body
           \/ req'[c] = IdleReq
    BY <1>16, PublishModeFacts DEF eventVars
  <2>2. \A e \in Clients : e # c => Ready(e)'
    BY <1>0, <1>1, <2>1 DEF Active
  <2>3. CASE req'[c] = IdleReq
    BY <1>2, <2>1, <2>2, <2>3
  <2>4. CASE req'[c].at = "commit_mode" /\ req'[c].row = req[c].row /\ req'[c].body = req[c].body
    <3>1. Ready(c)'
      BY <1>0, <2>1, <2>4 DEF Ready, Posting, Holding, Active
    <3>2. \A e \in Clients : e # c => Apart(c, e)'
      BY <1>0, <2>1, <2>4 DEF Apart, Posting, Holding
    <3> QED BY <1>3, <2>1, <2>2, <3>1, <3>2
  <2> QED BY <2>1, <2>3, <2>4
<1>17. CASE Crash
  <2>1. \A c \in Clients : req'[c] = IdleReq
    BY <1>17 DEF Crash
  <2> QED BY <2>1, RowFacts DEF Ready, Apart, Posting, Holding
<1>18. ASSUME NEW r \in Changes, NEW n \in Names, Rename(r, n)
       PROVE  Goal'
  <2>1. Edited(r) /\ UNCHANGED <<req, stamps, outcome>>
    BY <1>18, RenameFacts DEF Rename, Reachable, eventVars
  <2> QED BY <1>4, <2>1 DEF Edited, Active
<1>19. ASSUME NEW i \in Changes, Publish(i) \/ PublishFails(i) \/ MarkCompleted(i)
       PROVE  Goal'
  <2>1. UNCHANGED <<req, stamps, rows>> /\ outcome[i] = "open"
        /\ \A j \in Changes : j # i => outcome'[j] = outcome[j]
    BY <1>0, <1>19 DEF Publish, PublishFails, MarkCompleted, Box!Act, Box!Fail, Box!Confirm, TypeOK
  <2>2. \A j \in Changes : outcome[j] = "none" => outcome'[j] = "none"
    BY <2>1
  <2> QED BY <1>4, <2>1, <2>2 DEF Active
<1>20. ASSUME Next
       PROVE  Goal'
  <2>1. ASSUME NEW d \in Devices, DeleteDevice(d)
        PROVE  Goal'
    BY <1>5, <2>1 DEF DeleteDevice, eventVars
  <2>2. ASSUME NEW c \in Clients,
               \/ \E d \in Devices : BeginRegister(c, d)
               \/ \E n \in Names, p \in Ports : Register(c, n, p)
               \/ \E r \in Changes : BeginDelete(c, r)
               \/ DeleteRow(c) \/ Refuse(c)
        PROVE  Goal'
    BY <1>6, <1>7, <1>10, <1>11, <1>15, <2>2
  <2>3. ASSUME NEW c \in Clients,
               \/ \E r \in Changes, s \in Schedules : StoreSchedule(c, r, s)
               \/ PublishSchedule(c)
               \/ \E r \in Changes, m \in Modes : UpdateMode(c, r, m)
               \/ PublishMode(c) \/ CommitMode(c)
        PROVE  Goal'
    BY <1>8, <1>9, <1>13, <1>14, <1>16, <2>3
  <2>4. ASSUME \E r \in Changes, n \in Names : Rename(r, n)
        PROVE  Goal'
    BY <1>18, <2>4
  <2>5. ASSUME \E i \in Changes : Publish(i) \/ PublishFails(i) \/ MarkCompleted(i)
        PROVE  Goal'
    BY <1>19, <2>5
  <2> QED BY <1>17, <1>20, <2>1, <2>2, <2>3, <2>4, <2>5, Steps
<1>21. Goal'
  BY <1>5, <1>20 DEF vars, tableVars, eventVars
<1> QED BY <1>21

(* The unique indexes, whatever registers, renames and deletes. *)
LEMMA UniqueInductive ==
  ASSUME PeripheralsInv, [Next]_vars
  PROVE  ActiveUnique'
<1>0. ActiveUnique
  BY DEF PeripheralsInv
<1>1. CASE UNCHANGED rows
  BY <1>0, <1>1 DEF ActiveUnique, Active
<1>2. ASSUME NEW r \in Changes, Edited(r), rows'[r].name = rows[r].name
      PROVE  ActiveUnique'
  BY <1>0, <1>2 DEF ActiveUnique, Edited, Active
<1>3. ASSUME NEW c \in Clients, NEW n \in Names, NEW p \in Ports, Register(c, n, p)
      PROVE  ActiveUnique'
  <2> DEFINE i == req[c].id
             d == req[c].body
  <2>1. /\ i \in Changes /\ ~Conflict(d, n, p)
        /\ rows'[i].device = d /\ rows'[i].name = n /\ rows'[i].port = p
        /\ \A r \in Changes : r # i => rows'[r] = rows[r]
    BY <1>3, RegisterFacts
  <2> HIDE DEF i, d
  <2>2. \A s \in Changes : Active(s) /\ rows[s].device = d =>
          rows[s].name # n /\ PinOf[rows[s].port] # PinOf[p]
    BY <2>1 DEF Conflict, NameTaken, PinTaken
  <2> QED BY <1>0, <2>1, <2>2 DEF ActiveUnique, Active
<1>4. ASSUME NEW c \in Clients, DeleteRow(c)
      PROVE  ActiveUnique'
  <2>1. rows'[req[c].row] = NoRow /\ \A s \in Changes : s # req[c].row => rows'[s] = rows[s]
    BY <1>4, DeleteFacts
  <2> QED BY <1>0, <2>1 DEF ActiveUnique, Active
<1>5. ASSUME NEW r \in Changes, NEW n \in Names, Rename(r, n)
      PROVE  ActiveUnique'
  <2>1. Edited(r) /\ rows'[r].name = n /\ ~NameTaken(rows[r].device, n)
    BY <1>5, RenameFacts DEF Rename, Reachable
  <2> QED BY <1>0, <2>1 DEF ActiveUnique, Edited, Active, NameTaken
<1>6. ASSUME NEW c \in Clients, NEW r \in Changes, NEW s \in Schedules, StoreSchedule(c, r, s)
      PROVE  ActiveUnique'
  BY <1>2, <1>6, ScheduleFacts DEF StoreSchedule, Reachable
<1>7. ASSUME NEW c \in Clients, CommitMode(c)
      PROVE  ActiveUnique'
  BY <1>1, <1>2, <1>7, CommitModeFacts
<1>8. ASSUME Next
      PROVE  ActiveUnique'
  BY <1>1, <1>3, <1>4, <1>5, <1>6, <1>7, <1>8, Steps
  DEF BeginRegister, Refuse, BeginDelete, PublishSchedule, UpdateMode, PublishMode, Crash,
      DeleteDevice, Publish, PublishFails, MarkCompleted
<1> QED BY <1>1, <1>8 DEF vars, tableVars

(* A row that is edited keeps its port, a new one is on that of its event. *)
LEMMA PlaceInductive ==
  ASSUME PeripheralsInv, [Next]_vars
  PROVE  PlaceInv'
<1>0. PlaceInv
  BY DEF PeripheralsInv
<1>1. CASE UNCHANGED <<rows, push>>
  BY <1>0, <1>1 DEF PlaceInv, Active, Place, Spot
<1>2. ASSUME NEW r \in Changes, Edited(r), UNCHANGED push
      PROVE  PlaceInv'
  BY <1>0, <1>2 DEF PlaceInv, Edited, Active, Place, Spot
<1>3. ASSUME NEW c \in Clients, NEW n \in Names, NEW p \in Ports, Register(c, n, p)
      PROVE  PlaceInv'
  <2> DEFINE i == req[c].id
             d == req[c].body
  <2>1. /\ i \in Changes /\ d \in Devices /\ Announce(i, d, p, "create")
        /\ rows'[i].device = d /\ rows'[i].port = p
        /\ \A r \in Changes : r # i => rows'[r] = rows[r]
    BY <1>3, RegisterFacts
  <2> HIDE DEF i, d
  <2>2. /\ push'[i].device = d /\ push'[i].port = p
        /\ \A j \in Changes : j # i => push'[j] = push[j]
    BY <2>1, AnnounceFacts
  <2> QED BY <1>0, <2>1, <2>2 DEF PlaceInv, Active, Place, Spot
<1>4. ASSUME NEW c \in Clients, DeleteRow(c)
      PROVE  PlaceInv'
  <2> DEFINE i == req[c].id
             r == req[c].row
  <2>1. /\ i \in Changes /\ outcome[i] = "none" /\ Announce(i, rows[r].device, rows[r].port, "delete")
        /\ rows[r].device \in Devices /\ rows[r].port \in Ports
        /\ rows'[r] = NoRow /\ \A s \in Changes : s # r => rows'[s] = rows[s]
    BY <1>4, DeleteFacts
  <2> HIDE DEF i, r
  <2>2. \A j \in Changes : j # i => push'[j] = push[j]
    BY <2>1, AnnounceFacts
  <2>3. rows[i] = NoRow
    BY <2>1 DEF PeripheralsInv, EventInv
  <2> QED BY <1>0, <2>1, <2>2, <2>3 DEF PlaceInv, Active, Place, Spot
<1>5. ASSUME NEW c \in Clients, CommitMode(c)
      PROVE  PlaceInv'
  BY <1>1, <1>2, <1>5, CommitModeFacts
<1>6. ASSUME NEW r \in Changes, NEW n \in Names, Rename(r, n)
      PROVE  PlaceInv'
  BY <1>2, <1>6, RenameFacts DEF Rename, Reachable
<1>7. ASSUME NEW c \in Clients, NEW r \in Changes, NEW s \in Schedules, StoreSchedule(c, r, s)
      PROVE  PlaceInv'
  BY <1>2, <1>7, ScheduleFacts DEF StoreSchedule, Reachable
<1>8. ASSUME Next
      PROVE  PlaceInv'
  BY <1>1, <1>3, <1>4, <1>5, <1>6, <1>7, <1>8, Steps
  DEF BeginRegister, Refuse, BeginDelete, PublishSchedule, UpdateMode, PublishMode, Crash,
      DeleteDevice, Publish, PublishFails, MarkCompleted
<1> QED BY <1>1, <1>8 DEF vars, tableVars

-----------------------------------------------------------------------------
(* What the device was told *)

(* Errors and upsets are never forgotten. *)
LEMMA UpsetStays ==
  ASSUME PeripheralsInv, [Next]_vars
  PROVE  (upset => upset') /\ (errors' # 0 \/ (errors = 0 /\ ~Error)) /\ (Error => upset')
<1>0. errors \in Nat
  BY PeripheralsAssumption DEF PeripheralsInv, TypeOK
<1>1. CASE UNCHANGED vars
  BY <1>0, <1>1 DEF vars, Error
<1>2. ASSUME NEW c \in Clients,
             \/ \E d \in Devices : BeginRegister(c, d)
             \/ \E r \in Changes : BeginDelete(c, r)
             \/ \E r \in Changes, s \in Schedules : StoreSchedule(c, r, s)
             \/ \E r \in Changes, m \in Modes : UpdateMode(c, r, m)
      PROVE  errors' = errors /\ (upset => upset')
  BY ONLY <1>2 DEF BeginRegister, BeginDelete, StoreSchedule, UpdateMode, NoError, Begin
<1>3. ASSUME NEW c \in Clients,
             \/ \E n \in Names, p \in Ports : Register(c, n, p)
             \/ DeleteRow(c) \/ Refuse(c)
             \/ PublishSchedule(c) \/ PublishMode(c) \/ CommitMode(c)
      PROVE  UNCHANGED <<upset, errors>> \/ (errors' = errors + 1 /\ upset')
  BY ONLY <1>3 DEF Register, DeleteRow, Refuse, PublishSchedule, PublishMode, CommitMode, NoError, Error
<1>4. ASSUME \/ \E r \in Changes, n \in Names : Rename(r, n)
             \/ \E d \in Devices : DeleteDevice(d)
             \/ \E i \in Changes : Publish(i) \/ PublishFails(i) \/ MarkCompleted(i)
             \/ Crash
      PROVE  (errors' = errors /\ (upset => upset')) \/ (errors' = errors + 1 /\ upset')
  BY ONLY <1>4 DEF Rename, DeleteDevice, Publish, PublishFails, MarkCompleted, Crash, NoError, Error
<1>5. CASE Next
  <2>1. (errors' = errors /\ (upset => upset')) \/ (errors' = errors + 1 /\ upset')
    BY <1>2, <1>3, <1>4, <1>5, Steps
  <2> QED BY <1>0, <2>1 DEF Error
<1> QED BY <1>1, <1>5

(* The same of the next state, whatever the row is. *)
NewSpot(r) == <<rows'[r].device, rows'[r].port>>
NewFree(t) == \A r \in Changes : rows'[r] # NoRow => NewSpot(r) # t
NewModeAgrees(r) == rows'[r].mode =
  IF told'[NewSpot(r)].mode = Left THEN "automatic" ELSE told'[NewSpot(r)].mode
NewScheduleAgrees(r) == rows'[r].schedule =
  IF told'[NewSpot(r)].schedule = Left THEN None ELSE told'[NewSpot(r)].schedule

LEMMA NewState ==
  /\ ModeInv' <=> (errors' = 0 =>
       /\ \A c \in Clients : req'[c].at = "commit_mode" =>
            told'[NewSpot(req'[c].row)].mode = req'[c].body
       /\ \A r \in Changes :
            rows'[r] # NoRow /\ (\A c \in Clients : req'[c].at = "commit_mode" => req'[c].row # r)
            => NewModeAgrees(r)
       /\ \A t \in Places : NewFree(t) => told'[t].mode \in {"automatic", Left})
  /\ ScheduleInv' <=> (~upset' =>
       /\ \A c, d \in Clients : c # d /\ req'[c] # IdleReq => req'[d] = IdleReq
       /\ \A c \in Clients : req'[c].at = "publish_schedule" =>
            rows'[req'[c].row] # NoRow /\ rows'[req'[c].row].schedule = req'[c].body
       /\ \A r \in Changes :
            rows'[r] # NoRow /\ (\A c \in Clients : req'[c].at = "publish_schedule" => req'[c].row # r)
            => NewScheduleAgrees(r)
       /\ \A t \in Places : NewFree(t) => told'[t].schedule \in {None, Left})
BY DEF ModeInv, ScheduleInv, Spot, Free, Active, ModeAgrees, ScheduleAgrees,
       NewSpot, NewFree, NewModeAgrees, NewScheduleAgrees

(* A row that stays on its port, or stays away. *)
Same(r) ==
  /\ (rows'[r] # NoRow <=> rows[r] # NoRow)
  /\ rows'[r].device = rows[r].device /\ rows'[r].port = rows[r].port

LEMMA SameFacts ==
  /\ UNCHANGED rows => \A r \in Changes : Same(r)
  /\ \A r \in Changes : Edited(r) => \A s \in Changes : Same(s)
  /\ (\A r \in Changes : Same(r)) =>
       /\ \A r \in Changes : NewSpot(r) = Spot(r) /\ (rows'[r] # NoRow <=> Active(r))
       /\ \A t : NewFree(t) <=> Free(t)
<1>1. UNCHANGED rows => \A r \in Changes : Same(r)
  BY DEF Same
<1>2. \A r \in Changes : Edited(r) => \A s \in Changes : Same(s)
  BY DEF Same, Edited, Active
<1>3. ASSUME \A r \in Changes : Same(r)
      PROVE  /\ \A r \in Changes : NewSpot(r) = Spot(r) /\ (rows'[r] # NoRow <=> Active(r))
             /\ \A t : NewFree(t) <=> Free(t)
  <2>1. \A r \in Changes : NewSpot(r) = Spot(r) /\ (rows'[r] # NoRow <=> Active(r))
    BY <1>3 DEF Same, NewSpot, Spot, Active
  <2> QED BY <2>1 DEF Free, NewFree
<1> QED BY <1>1, <1>2, <1>3

(* Where a row appears or goes, the other ports are as free as before. *)
LEMMA FreeFacts ==
  ASSUME PeripheralsInv
  PROVE  /\ \A c \in Clients, n \in Names, p \in Ports : Register(c, n, p) =>
              LET i == req[c].id
              IN  /\ NewSpot(i) \in Places /\ Free(NewSpot(i)) /\ rows'[i] # NoRow /\ rows[i] = NoRow
                  /\ \A r \in Changes : r # i =>
                       NewSpot(r) = Spot(r) /\ (rows'[r] # NoRow <=> Active(r))
                  /\ \A t \in Places : NewFree(t) => Free(t)
         /\ \A c \in Clients : DeleteRow(c) =>
              LET q == req[c].row
              IN  /\ rows'[q] = NoRow
                  /\ \A r \in Changes : r # q =>
                       NewSpot(r) = Spot(r) /\ (rows'[r] # NoRow <=> Active(r))
                  /\ \A t \in Places : NewFree(t) /\ t # Spot(q) => Free(t)
<1>1. ASSUME NEW c \in Clients, NEW n \in Names, NEW p \in Ports, Register(c, n, p)
      PROVE  LET i == req[c].id
             IN  /\ NewSpot(i) \in Places /\ Free(NewSpot(i)) /\ rows'[i] # NoRow /\ rows[i] = NoRow
                 /\ \A r \in Changes : r # i =>
                      NewSpot(r) = Spot(r) /\ (rows'[r] # NoRow <=> Active(r))
                 /\ \A t \in Places : NewFree(t) => Free(t)
  <2> DEFINE i == req[c].id
             d == req[c].body
  <2>1. /\ i \in Changes /\ d \in Devices /\ rows[i] = NoRow /\ ~PortTaken(p)
        /\ rows'[i] \in Row /\ rows'[i].device = d /\ rows'[i].port = p
        /\ \A r \in Changes : r # i => rows'[r] = rows[r]
    BY <1>1, RegisterFacts DEF Conflict
  <2> HIDE DEF i, d
  <2>2. NewSpot(i) = <<d, p>> /\ rows'[i] # NoRow /\ <<d, p>> \in Places
    BY <2>1, RowFacts DEF NewSpot, Spot, Active, Places
  <2>3. Free(<<d, p>>)
    BY <2>1 DEF Free, PortTaken, Spot
  <2>4. \A r \in Changes : r # i => NewSpot(r) = Spot(r) /\ (rows'[r] # NoRow <=> Active(r))
    BY <2>1 DEF NewSpot, Spot, Active
  <2>5. \A t \in Places : NewFree(t) => Free(t)
    BY <2>1, <2>4 DEF NewFree, Free, Active
  <2> QED BY <2>1, <2>2, <2>3, <2>4, <2>5 DEF i
<1>2. ASSUME NEW c \in Clients, DeleteRow(c)
      PROVE  LET q == req[c].row
             IN  /\ rows'[q] = NoRow
                 /\ \A r \in Changes : r # q =>
                      NewSpot(r) = Spot(r) /\ (rows'[r] # NoRow <=> Active(r))
                 /\ \A t \in Places : NewFree(t) /\ t # Spot(q) => Free(t)
  <2> DEFINE q == req[c].row
  <2>1. rows'[q] = NoRow /\ \A r \in Changes : r # q => rows'[r] = rows[r]
    BY <1>2, DeleteFacts
  <2> HIDE DEF q
  <2>2. rows'[q] = NoRow /\ \A r \in Changes : r # q =>
          NewSpot(r) = Spot(r) /\ (rows'[r] # NoRow <=> Active(r))
    BY <2>1 DEF NewSpot, Spot, Active
  <2>3. \A t \in Places : NewFree(t) /\ t # Spot(q) => Free(t)
    BY <2>2 DEF NewFree, Free
  <2> QED BY <2>2, <2>3 DEF q
<1> QED BY <1>1, <1>2

ModeSettled(r) ==
  Active(r) /\ (\A c \in Clients : req[c].at = "commit_mode" => req[c].row # r)
  => ModeAgrees(r)

LEMMA ModeInductive ==
  ASSUME PeripheralsInv, ModeInv, [Next]_vars
  PROVE  ModeInv'
<1> SUFFICES ASSUME errors' = 0
             PROVE  ModeInv'
  BY DEF ModeInv
<1>0. /\ \A c \in Clients : req[c].at = "commit_mode" =>
           told[Spot(req[c].row)].mode = req[c].body
      /\ \A r \in Changes : ModeSettled(r)
      /\ \A t \in Places : Free(t) => told[t].mode \in {"automatic", Left}
      /\ ~Error
  BY UpsetStays DEF ModeInv, ModeSettled
<1>01. \A c \in Clients : Ready(c)
  BY RequestParts DEF PeripheralsInv
<1>02. \A c \in Clients : req[c].at = "commit_mode" =>
         req[c].row \in Changes /\ Active(req[c].row) /\ req[c].body \in Modes
  BY <1>01 DEF Ready, Holding
<1>1. ASSUME \A c \in Clients : req'[c].at = "commit_mode" => req'[c] = req[c],
             \A c \in Clients : req[c].at = "commit_mode" => req'[c] = req[c],
             \A t \in Places : told'[t].mode = told[t].mode,
             \A r \in Changes : Same(r) /\ rows'[r].mode = rows[r].mode
      PROVE  ModeInv'
  <2>1. /\ \A r \in Changes : NewSpot(r) = Spot(r) /\ (rows'[r] # NoRow <=> Active(r))
        /\ \A t : NewFree(t) <=> Free(t)
        /\ \A r \in Changes : Active(r) => Spot(r) \in Places
    BY <1>1, SameFacts, SpotFacts
  <2>2. ASSUME NEW c \in Clients, req'[c].at = "commit_mode"
        PROVE  told'[NewSpot(req'[c].row)].mode = req'[c].body /\ req'[c] = req[c]
    BY <1>0, <1>02, <1>1, <2>1, <2>2
  <2>3. ASSUME NEW r \in Changes, rows'[r] # NoRow,
               \A c \in Clients : req'[c].at = "commit_mode" => req'[c].row # r
        PROVE  NewModeAgrees(r)
    <3>1. ModeAgrees(r)
      BY <1>0, <1>1, <2>1, <2>3 DEF ModeSettled
    <3>2. told'[NewSpot(r)].mode = told[Spot(r)].mode /\ rows'[r].mode = rows[r].mode
      BY <1>1, <2>1, <2>3
    <3> QED BY <3>1, <3>2 DEF ModeAgrees, NewModeAgrees
  <2>4. \A t \in Places : NewFree(t) => told'[t].mode \in {"automatic", Left}
    BY <1>0, <1>1, <2>1
  <2>5. \A c \in Clients : req'[c].at = "commit_mode" =>
          told'[NewSpot(req'[c].row)].mode = req'[c].body
    BY <2>2
  <2> QED BY <2>3, <2>4, <2>5, NewState
<1>2. ASSUME NEW c \in Clients, req[c].at # "commit_mode", req'[c].at # "commit_mode",
             \A e \in Clients : e # c => req'[e] = req[e],
             \A t \in Places : told'[t].mode = told[t].mode,
             \A r \in Changes : Same(r) /\ rows'[r].mode = rows[r].mode
      PROVE  ModeInv'
  BY <1>1, <1>2
<1>3. ASSUME NEW c \in Clients, NEW d \in Devices, BeginRegister(c, d)
      PROVE  ModeInv'
  <2>1. req[c] = IdleReq /\ UNCHANGED <<told, rows>>
        /\ req' = [req EXCEPT ![c] = [at |-> "register", row |-> 0, id |-> stamps', body |-> d]]
    BY <1>3 DEF BeginRegister, Begin
  <2>2. req \in [Clients -> Req]
    BY DEF PeripheralsInv, TypeOK
  <2> QED BY <1>2, <2>1, <2>2, RowFacts, SameFacts
<1>4. ASSUME NEW c \in Clients, NEW r \in Changes, BeginDelete(c, r)
      PROVE  ModeInv'
  <2>1. req[c] = IdleReq /\ UNCHANGED <<told, rows>>
        /\ req' = [req EXCEPT ![c] = [at |-> "delete", row |-> r, id |-> stamps', body |-> None]]
    BY <1>4 DEF BeginDelete, Begin
  <2>2. req \in [Clients -> Req]
    BY DEF PeripheralsInv, TypeOK
  <2> QED BY <1>2, <2>1, <2>2, RowFacts, SameFacts
<1>5. ASSUME NEW c \in Clients, NEW r \in Changes, NEW s \in Schedules, StoreSchedule(c, r, s)
      PROVE  ModeInv'
  <2>1. req[c] = IdleReq /\ UNCHANGED told /\ Active(r) /\ rows' = [rows EXCEPT ![r].schedule = s]
        /\ req' = [req EXCEPT ![c] = [at |-> "publish_schedule", row |-> r, id |-> 0, body |-> s]]
    BY <1>5 DEF StoreSchedule, Begin, Reachable
  <2>2. req \in [Clients -> Req]
    BY DEF PeripheralsInv, TypeOK
  <2>3. \A q \in Changes : Same(q) /\ rows'[q].mode = rows[q].mode
    BY <2>1, ScheduleFacts, SameFacts DEF Edited
  <2> QED BY <1>2, <2>1, <2>2, <2>3, RowFacts
<1>6. ASSUME NEW c \in Clients, NEW r \in Changes, NEW m \in Modes, UpdateMode(c, r, m)
      PROVE  ModeInv'
  <2>1. req[c] = IdleReq /\ UNCHANGED <<told, rows>>
        /\ req' = [req EXCEPT ![c] = [at |-> "publish_mode", row |-> r, id |-> 0, body |-> m]]
    BY <1>6 DEF UpdateMode, Begin
  <2>2. req \in [Clients -> Req]
    BY DEF PeripheralsInv, TypeOK
  <2> QED BY <1>2, <2>1, <2>2, RowFacts, SameFacts
<1>7. ASSUME NEW c \in Clients, NEW n \in Names, NEW p \in Ports, Register(c, n, p)
      PROVE  ModeInv'
  <2> DEFINE i == req[c].id
  <2>1. /\ req[c].at = "register" /\ i \in Changes /\ End(c)
        /\ rows'[i].mode = "automatic"
        /\ \A r \in Changes : r # i => rows'[r] = rows[r]
        /\ UNCHANGED told
    BY <1>7, RegisterFacts
  <2>2. /\ NewSpot(i) \in Places /\ Free(NewSpot(i)) /\ rows[i] = NoRow
        /\ \A r \in Changes : r # i => NewSpot(r) = Spot(r) /\ (rows'[r] # NoRow <=> Active(r))
        /\ \A t \in Places : NewFree(t) => Free(t)
    BY <1>7, FreeFacts
  <2> HIDE DEF i
  <2>3. \A e \in Clients : req'[e].at = "commit_mode" => req'[e] = req[e]
    BY <2>1, EndFacts, RowFacts
  <2>4. ASSUME NEW e \in Clients, req'[e].at = "commit_mode"
        PROVE  told'[NewSpot(req'[e].row)].mode = req'[e].body
    <3>1. req'[e] = req[e] /\ req[e].row \in Changes /\ req[e].row # i
      BY <1>02, <2>2, <2>3, <2>4 DEF Active
    <3> QED BY <1>0, <2>1, <2>2, <2>4, <3>1
  <2>5. ASSUME NEW r \in Changes, rows'[r] # NoRow,
               \A e \in Clients : req'[e].at = "commit_mode" => req'[e].row # r
        PROVE  NewModeAgrees(r)
    <3>1. CASE r = i
      BY <1>0, <2>1, <2>2, <3>1 DEF NewModeAgrees
    <3>2. CASE r # i
      <4>1. \A e \in Clients : req[e].at = "commit_mode" => req[e].row # r
        BY <2>1, <2>5, EndFacts, RowFacts
      <4>2. ModeAgrees(r) /\ NewSpot(r) = Spot(r)
        BY <1>0, <2>2, <2>5, <3>2, <4>1 DEF ModeSettled
      <4> QED BY <2>1, <3>2, <4>2 DEF ModeAgrees, NewModeAgrees
    <3> QED BY <3>1, <3>2
  <2>6. \A t \in Places : NewFree(t) => told'[t].mode \in {"automatic", Left}
    BY <1>0, <2>1, <2>2
  <2> QED BY <2>4, <2>5, <2>6, NewState
<1>8. ASSUME NEW c \in Clients, DeleteRow(c)
      PROVE  ModeInv'
  <2> DEFINE q == req[c].row
  <2>1. /\ req[c].at = "delete" /\ q \in Changes /\ End(c) /\ Active(q) /\ ~Locked(q)
        /\ told'[Spot(q)].mode = Left
        /\ \A t \in Places : t # Spot(q) => told'[t] = told[t]
        /\ \A r \in Changes : r # q => rows'[r] = rows[r]
    BY <1>8, DeleteFacts
  <2>2. /\ rows'[q] = NoRow
        /\ \A r \in Changes : r # q => NewSpot(r) = Spot(r) /\ (rows'[r] # NoRow <=> Active(r))
        /\ \A t \in Places : NewFree(t) /\ t # Spot(q) => Free(t)
    BY <1>8, FreeFacts
  <2>3. req'[c] = IdleReq /\ \A e \in Clients : e # c => req'[e] = req[e]
    BY <2>1, EndFacts
  <2> HIDE DEF q
  <2>4. \A r \in Changes : r # q /\ Active(r) => told'[NewSpot(r)] = told[Spot(r)]
    BY <2>1, <2>2, SpotFacts
  <2>5. ASSUME NEW e \in Clients, req'[e].at = "commit_mode"
        PROVE  told'[NewSpot(req'[e].row)].mode = req'[e].body
    <3>1. req'[e] = req[e] /\ req[e].row \in Changes /\ Active(req[e].row) /\ req[e].row # q
      BY <1>02, <2>1, <2>3, <2>5, RowFacts DEF Locked
    <3> QED BY <1>0, <2>4, <2>5, <3>1
  <2>6. ASSUME NEW r \in Changes, rows'[r] # NoRow,
               \A e \in Clients : req'[e].at = "commit_mode" => req'[e].row # r
        PROVE  NewModeAgrees(r)
    <3>1. r # q /\ Active(r)
      BY <2>2, <2>6
    <3>2. \A e \in Clients : req[e].at = "commit_mode" => req[e].row # r
      BY <2>1, <2>3, <2>6
    <3>3. ModeAgrees(r)
      BY <1>0, <3>1, <3>2 DEF ModeSettled
    <3> QED BY <2>1, <2>4, <3>1, <3>3 DEF ModeAgrees, NewModeAgrees
  <2>7. \A t \in Places : NewFree(t) => told'[t].mode \in {"automatic", Left}
    BY <1>0, <2>1, <2>2
  <2> QED BY <2>5, <2>6, <2>7, NewState
<1>9. ASSUME NEW c \in Clients, Refuse(c), req[c].at # "commit_mode"
      PROVE  ModeInv'
  <2>1. req'[c] = IdleReq /\ (\A e \in Clients : e # c => req'[e] = req[e]) /\ UNCHANGED <<told, rows>>
    BY <1>9, EndFacts DEF Refuse
  <2> QED BY <1>2, <1>9, <2>1, RowFacts, SameFacts
<1>10. ASSUME NEW c \in Clients, PublishSchedule(c)
       PROVE  ModeInv'
  <2>1. /\ req[c].at = "publish_schedule" /\ UNCHANGED rows
        /\ req'[c] = IdleReq /\ \A e \in Clients : e # c => req'[e] = req[e]
        /\ \A t \in Places : told'[t].mode = told[t].mode
    BY <1>10, PublishScheduleFacts, EndFacts
  <2> QED BY <1>2, <2>1, RowFacts, SameFacts
<1>11. ASSUME NEW c \in Clients, PublishMode(c)
       PROVE  ModeInv'
  <2> DEFINE q == req[c].row
  <2>1. /\ req[c].at = "publish_mode" /\ q \in Changes /\ Active(q)
        /\ \A e \in Clients : e # c => req'[e] = req[e]
        /\ \A t \in Places : t # Spot(q) => told'[t] = told[t]
        /\ req'[c].at = "commit_mode" /\ req'[c].row = q /\ req'[c].body = req[c].body
        /\ told'[Spot(q)].mode = req[c].body
        /\ UNCHANGED rows
    BY <1>0, <1>11, PublishModeFacts
  <2>2. \A e \in Clients : e # c /\ req[e].at = "commit_mode" => req[e].row # q
    BY <2>1, RequestParts DEF PeripheralsInv, Apart, Holding
  <2> HIDE DEF q
  <2>3. /\ \A r \in Changes : NewSpot(r) = Spot(r) /\ (rows'[r] # NoRow <=> Active(r))
        /\ \A t : NewFree(t) <=> Free(t)
    BY <2>1, SameFacts
  <2>4. \A r \in Changes : r # q /\ Active(r) => told'[NewSpot(r)] = told[Spot(r)]
    BY <2>1, <2>3, SpotFacts
  <2>5. ASSUME NEW e \in Clients, req'[e].at = "commit_mode"
        PROVE  told'[NewSpot(req'[e].row)].mode = req'[e].body
    <3>1. CASE e = c
      BY <2>1, <2>3, <3>1
    <3>2. CASE e # c
      <4>1. req'[e] = req[e] /\ req[e].row \in Changes /\ Active(req[e].row) /\ req[e].row # q
        BY <1>02, <2>1, <2>2, <2>5, <3>2
      <4> QED BY <1>0, <2>4, <2>5, <4>1
    <3> QED BY <3>1, <3>2
  <2>6. ASSUME NEW r \in Changes, rows'[r] # NoRow,
               \A e \in Clients : req'[e].at = "commit_mode" => req'[e].row # r
        PROVE  NewModeAgrees(r)
    <3>1. r # q /\ Active(r)
      BY <2>1, <2>3, <2>6
    <3>2. \A e \in Clients : req[e].at = "commit_mode" => req[e].row # r
      BY <2>1, <2>6
    <3>3. ModeAgrees(r)
      BY <1>0, <3>1, <3>2 DEF ModeSettled
    <3> QED BY <2>1, <2>4, <3>1, <3>3 DEF ModeAgrees, NewModeAgrees
  <2>7. \A t \in Places : NewFree(t) => told'[t].mode \in {"automatic", Left}
    BY <1>0, <2>1, <2>3 DEF Free
  <2> QED BY <2>5, <2>6, <2>7, NewState
<1>12. ASSUME NEW c \in Clients, CommitMode(c)
       PROVE  ModeInv'
  <2> DEFINE q == req[c].row
  <2>1. /\ req[c].at = "commit_mode" /\ q \in Changes /\ End(c) /\ Edited(q)
        /\ \A r \in Changes : r # q => rows'[r] = rows[r]
        /\ rows'[q].mode = req[c].body
        /\ UNCHANGED told
    BY <1>0, <1>12, CommitModeFacts DEF Edited
  <2>2. req'[c] = IdleReq /\ \A e \in Clients : e # c => req'[e] = req[e]
    BY <2>1, EndFacts
  <2>3. told[Spot(q)].mode = req[c].body /\ req[c].body # Left
    BY <1>0, <1>02, <2>1, RowFacts
  <2> HIDE DEF q
  <2>4. /\ \A r \in Changes : NewSpot(r) = Spot(r) /\ (rows'[r] # NoRow <=> Active(r))
        /\ \A t : NewFree(t) <=> Free(t)
    BY <2>1, SameFacts
  <2>5. ASSUME NEW e \in Clients, req'[e].at = "commit_mode"
        PROVE  told'[NewSpot(req'[e].row)].mode = req'[e].body
    <3>1. req'[e] = req[e] /\ req[e].row \in Changes
      BY <1>02, <2>2, <2>5, RowFacts
    <3> QED BY <1>0, <2>1, <2>4, <2>5, <3>1
  <2>6. ASSUME NEW r \in Changes, rows'[r] # NoRow,
               \A e \in Clients : req'[e].at = "commit_mode" => req'[e].row # r
        PROVE  NewModeAgrees(r)
    <3>1. CASE r = q
      BY <2>1, <2>3, <2>4, <3>1 DEF NewModeAgrees
    <3>2. CASE r # q
      <4>1. \A e \in Clients : req[e].at = "commit_mode" => req[e].row # r
        BY <2>2, <2>6, <3>2 DEF q
      <4>2. ModeAgrees(r)
        BY <1>0, <2>4, <2>6, <4>1 DEF ModeSettled
      <4> QED BY <2>1, <2>4, <3>2, <4>2 DEF ModeAgrees, NewModeAgrees
    <3> QED BY <3>1, <3>2
  <2>7. \A t \in Places : NewFree(t) => told'[t].mode \in {"automatic", Left}
    BY <1>0, <2>1, <2>4
  <2> QED BY <2>5, <2>6, <2>7, NewState
<1>13. ASSUME NEW r \in Changes, NEW n \in Names, Rename(r, n)
       PROVE  ModeInv'
  <2>1. UNCHANGED <<req, told>> /\ \A s \in Changes : Same(s) /\ rows'[s].mode = rows[s].mode
    BY <1>13, RenameFacts, SameFacts DEF Rename, Reachable, Edited
  <2> QED BY <1>1, <2>1
<1>14. CASE UNCHANGED <<req, told, rows>>
  BY <1>1, <1>14, SameFacts
<1>15. ASSUME Next
       PROVE  ModeInv'
  <2> QED BY <1>0, <1>3, <1>4, <1>5, <1>6, <1>7, <1>8, <1>9, <1>10, <1>11, <1>12, <1>13, <1>14, <1>15, Steps
     DEF Crash, DeleteDevice, Publish, PublishFails, MarkCompleted
<1> QED BY <1>14, <1>15 DEF vars, tableVars

(* One request at a time, and the others idle. *)
Alone(c) == \A e \in Clients : e # c => req[e] = IdleReq

(* No schedule is on its way. *)
AllScheduled ==
  /\ \A r \in Changes : Active(r) => ScheduleAgrees(r)
  /\ \A t \in Places : Free(t) => told[t].schedule \in {None, Left}

NewAllScheduled ==
  /\ \A r \in Changes : rows'[r] # NoRow => NewScheduleAgrees(r)
  /\ \A t \in Places : NewFree(t) => told'[t].schedule \in {None, Left}

ScheduleSettled(r) ==
  Active(r) /\ (\A c \in Clients : req[c].at = "publish_schedule" => req[c].row # r)
  => ScheduleAgrees(r)

LEMMA AloneFacts ==
  ASSUME PeripheralsInv, ScheduleInv, ~upset', Next
  PROVE  /\ ~upset /\ ~Error
         /\ \A c \in Clients : req[c] # IdleReq => Alone(c)
         /\ \A c \in Clients : \A at, r, id, body : Begin(c, at, r, id, body) => Alone(c)
         /\ \A c \in Clients : Alone(c) /\ req[c].at # "publish_schedule" => AllScheduled
         /\ \A r \in Changes : ScheduleSettled(r)
         /\ \A c \in Clients : req[c].at = "publish_schedule" =>
              Active(req[c].row) /\ rows[req[c].row].schedule = req[c].body
         /\ \A t \in Places : Free(t) => told[t].schedule \in {None, Left}
<1>1. ~upset /\ ~Error
  BY UpsetStays
<1>2. \A c \in Clients : \A at, r, id, body : Begin(c, at, r, id, body) => Alone(c)
  BY DEF Begin, Busy, Alone
<1>3. ASSUME NEW c \in Clients, Alone(c), req[c].at # "publish_schedule"
      PROVE  \A e \in Clients : req[e].at # "publish_schedule"
  BY <1>3, RowFacts DEF Alone
<1>4. /\ \A r \in Changes : ScheduleSettled(r)
      /\ \A t \in Places : Free(t) => told[t].schedule \in {None, Left}
  BY <1>1 DEF ScheduleInv, ScheduleSettled
<1>5. \A c \in Clients : Alone(c) /\ req[c].at # "publish_schedule" => AllScheduled
  BY <1>3, <1>4 DEF ScheduleSettled, AllScheduled
<1> QED BY <1>1, <1>2, <1>4, <1>5 DEF ScheduleInv, Alone

LEMMA ScheduleInductive ==
  ASSUME PeripheralsInv, ScheduleInv, [Next]_vars
  PROVE  ScheduleInv'
<1>1. CASE UNCHANGED vars
  BY <1>1 DEF vars, tableVars, ScheduleInv, ScheduleAgrees, Spot, Free, Active
<1>2. SUFFICES ASSUME Next, ~upset'
               PROVE  ScheduleInv'
  BY <1>1 DEF ScheduleInv
<1>0. /\ ~Error
      /\ \A c \in Clients : req[c] # IdleReq => Alone(c)
      /\ \A c \in Clients : \A at, r, id, body : Begin(c, at, r, id, body) => Alone(c)
      /\ \A c \in Clients : Alone(c) /\ req[c].at # "publish_schedule" => AllScheduled
      /\ \A r \in Changes : ScheduleSettled(r)
      /\ \A c \in Clients : req[c].at = "publish_schedule" =>
           Active(req[c].row) /\ rows[req[c].row].schedule = req[c].body
      /\ \A t \in Places : Free(t) => told[t].schedule \in {None, Left}
  BY <1>2, AloneFacts
(* A step of a request, or one that changes no request. *)
<1>3. ASSUME NEW c \in Clients, \A e \in Clients : e # c => req'[e] = IdleReq,
             req'[c].at = "publish_schedule" =>
               rows'[req'[c].row] # NoRow /\ rows'[req'[c].row].schedule = req'[c].body,
             \A r \in Changes :
               rows'[r] # NoRow /\ (req'[c].at = "publish_schedule" => req'[c].row # r)
               => NewScheduleAgrees(r),
             \A t \in Places : NewFree(t) => told'[t].schedule \in {None, Left}
      PROVE  ScheduleInv'
  <2>1. \A e \in Clients : req'[e].at = "publish_schedule" => e = c
    BY <1>3, RowFacts
  <2> QED BY <1>3, <2>1, NewState
<1>31. ASSUME \A t \in Places : told'[t].schedule = told[t].schedule,
              \A r \in Changes : Same(r) /\ rows'[r].schedule = rows[r].schedule
       PROVE  /\ \A r \in Changes : rows'[r] # NoRow <=> Active(r)
              /\ \A r \in Changes : Active(r) /\ ScheduleAgrees(r) => NewScheduleAgrees(r)
              /\ \A t \in Places : NewFree(t) => told'[t].schedule \in {None, Left}
  <2>1. /\ \A r \in Changes : NewSpot(r) = Spot(r) /\ (rows'[r] # NoRow <=> Active(r))
        /\ \A t : NewFree(t) <=> Free(t)
        /\ \A r \in Changes : Active(r) => Spot(r) \in Places
    BY <1>31, SameFacts, SpotFacts
  <2>2. \A r \in Changes : Active(r) /\ ScheduleAgrees(r) => NewScheduleAgrees(r)
    BY <1>31, <2>1 DEF ScheduleAgrees, NewScheduleAgrees
  <2> QED BY <1>0, <1>31, <2>1, <2>2
<1>4. ASSUME UNCHANGED <<req, told>>,
             \A r \in Changes : Same(r) /\ rows'[r].schedule = rows[r].schedule
      PROVE  ScheduleInv'
  <2>1. \A c \in Clients : Ready(c)
    BY RequestParts DEF PeripheralsInv
  <2>2. /\ \A r \in Changes : rows'[r] # NoRow <=> Active(r)
        /\ \A r \in Changes : Active(r) /\ ScheduleAgrees(r) => NewScheduleAgrees(r)
        /\ \A t \in Places : NewFree(t) => told'[t].schedule \in {None, Left}
    BY <1>31, <1>4
  <2>3. \A c \in Clients : req'[c].at = "publish_schedule" =>
          rows'[req'[c].row] # NoRow /\ rows'[req'[c].row].schedule = req'[c].body
    BY <1>0, <1>4, <2>1, <2>2 DEF Ready
  <2>4. \A c, d \in Clients : c # d /\ req'[c] # IdleReq => req'[d] = IdleReq
    BY <1>0, <1>4 DEF Alone
  <2>5. \A r \in Changes :
          rows'[r] # NoRow /\ (\A c \in Clients : req'[c].at = "publish_schedule" => req'[c].row # r)
          => NewScheduleAgrees(r)
    BY <1>0, <1>4, <2>2 DEF ScheduleSettled
  <2> QED BY <2>2, <2>3, <2>4, <2>5, NewState
(* A request that has nothing to publish. *)
<1>5. ASSUME NEW c \in Clients, Alone(c), req'[c].at # "publish_schedule",
             \A e \in Clients : e # c => req'[e] = req[e],
             NewAllScheduled
      PROVE  ScheduleInv'
  <2>1. \A e \in Clients : e # c => req'[e] = IdleReq
    BY <1>5 DEF Alone
  <2> QED BY <1>3, <1>5, <2>1 DEF NewAllScheduled
<1>51. ASSUME NEW c \in Clients, Alone(c),
              req[c].at # "publish_schedule", req'[c].at # "publish_schedule",
              \A e \in Clients : e # c => req'[e] = req[e],
              \A t \in Places : told'[t].schedule = told[t].schedule,
              \A r \in Changes : Same(r) /\ rows'[r].schedule = rows[r].schedule
       PROVE  ScheduleInv'
  <2>1. NewAllScheduled
    BY <1>0, <1>31, <1>51 DEF AllScheduled, NewAllScheduled
  <2> QED BY <1>5, <1>51, <2>1
<1>6. ASSUME NEW c \in Clients, NEW d \in Devices, BeginRegister(c, d)
      PROVE  ScheduleInv'
  <2>1. req[c] = IdleReq /\ UNCHANGED <<told, rows>> /\ Begin(c, "register", 0, stamps', d)
        /\ req' = [req EXCEPT ![c] = [at |-> "register", row |-> 0, id |-> stamps', body |-> d]]
    BY <1>6 DEF BeginRegister, Begin
  <2>2. req \in [Clients -> Req] /\ Alone(c)
    BY <1>0, <2>1 DEF PeripheralsInv, TypeOK
  <2> QED BY <1>51, <2>1, <2>2, RowFacts, SameFacts
<1>7. ASSUME NEW c \in Clients, NEW r \in Changes, BeginDelete(c, r)
      PROVE  ScheduleInv'
  <2>1. req[c] = IdleReq /\ UNCHANGED <<told, rows>> /\ Begin(c, "delete", r, stamps', None)
        /\ req' = [req EXCEPT ![c] = [at |-> "delete", row |-> r, id |-> stamps', body |-> None]]
    BY <1>7 DEF BeginDelete, Begin
  <2>2. req \in [Clients -> Req] /\ Alone(c)
    BY <1>0, <2>1 DEF PeripheralsInv, TypeOK
  <2> QED BY <1>51, <2>1, <2>2, RowFacts, SameFacts
<1>8. ASSUME NEW c \in Clients, NEW r \in Changes, NEW m \in Modes, UpdateMode(c, r, m)
      PROVE  ScheduleInv'
  <2>1. req[c] = IdleReq /\ UNCHANGED <<told, rows>> /\ Begin(c, "publish_mode", r, 0, m)
        /\ req' = [req EXCEPT ![c] = [at |-> "publish_mode", row |-> r, id |-> 0, body |-> m]]
    BY <1>8 DEF UpdateMode, Begin
  <2>2. req \in [Clients -> Req] /\ Alone(c)
    BY <1>0, <2>1 DEF PeripheralsInv, TypeOK
  <2> QED BY <1>51, <2>1, <2>2, RowFacts, SameFacts
<1>9. ASSUME NEW c \in Clients, NEW r \in Changes, NEW s \in Schedules, StoreSchedule(c, r, s)
      PROVE  ScheduleInv'
  <2>1. req[c] = IdleReq /\ UNCHANGED told /\ Begin(c, "publish_schedule", r, 0, s)
        /\ req' = [req EXCEPT ![c] = [at |-> "publish_schedule", row |-> r, id |-> 0, body |-> s]]
        /\ Active(r) /\ rows' = [rows EXCEPT ![r].schedule = s]
    BY <1>9 DEF StoreSchedule, Begin, Reachable
  <2>2. req \in [Clients -> Req] /\ Alone(c)
    BY <1>0, <2>1 DEF PeripheralsInv, TypeOK
  <2>3. /\ rows'[r].schedule = s /\ rows'[r] # NoRow
        /\ \A q \in Changes : q # r => rows'[q] = rows[q]
        /\ \A q \in Changes : NewSpot(q) = Spot(q) /\ (rows'[q] # NoRow <=> Active(q))
        /\ \A t : NewFree(t) <=> Free(t)
    BY <2>1, ScheduleFacts, SameFacts DEF Edited
  <2>4. /\ req'[c].at = "publish_schedule" /\ req'[c].row = r /\ req'[c].body = s
        /\ \A e \in Clients : e # c => req'[e] = IdleReq
    BY <2>1, <2>2 DEF Alone
  <2>5. \A q \in Changes : rows'[q] # NoRow /\ q # r => NewScheduleAgrees(q)
    BY <1>0, <2>1, <2>2, <2>3, RowFacts DEF AllScheduled, ScheduleAgrees, NewScheduleAgrees
  <2>6. \A t \in Places : NewFree(t) => told'[t].schedule \in {None, Left}
    BY <1>0, <2>1, <2>3
  <2> QED BY <1>3, <2>3, <2>4, <2>5, <2>6
<1>10. ASSUME NEW c \in Clients, NEW n \in Names, NEW p \in Ports, Register(c, n, p)
       PROVE  ScheduleInv'
  <2> DEFINE i == req[c].id
  <2>1. /\ req[c].at = "register" /\ i \in Changes /\ End(c)
        /\ rows'[i].schedule = None
        /\ \A r \in Changes : r # i => rows'[r] = rows[r]
        /\ UNCHANGED told
    BY <1>10, RegisterFacts
  <2>2. /\ NewSpot(i) \in Places /\ Free(NewSpot(i))
        /\ \A r \in Changes : r # i => NewSpot(r) = Spot(r) /\ (rows'[r] # NoRow <=> Active(r))
        /\ \A t \in Places : NewFree(t) => Free(t)
    BY <1>10, FreeFacts
  <2>3. Alone(c) /\ AllScheduled
    BY <1>0, <2>1, RowFacts
  <2> HIDE DEF i
  <2>4. ASSUME NEW r \in Changes, rows'[r] # NoRow
        PROVE  NewScheduleAgrees(r)
    <3>1. CASE r = i
      BY <2>1, <2>2, <2>3, <3>1 DEF AllScheduled, NewScheduleAgrees
    <3>2. CASE r # i
      BY <2>1, <2>2, <2>3, <2>4, <3>2 DEF AllScheduled, ScheduleAgrees, NewScheduleAgrees
    <3> QED BY <3>1, <3>2
  <2>5. NewAllScheduled
    BY <2>1, <2>2, <2>3, <2>4 DEF AllScheduled, NewAllScheduled
  <2> QED BY <1>5, <2>1, <2>3, <2>5, EndFacts, RowFacts
<1>11. ASSUME NEW c \in Clients, DeleteRow(c)
       PROVE  ScheduleInv'
  <2> DEFINE q == req[c].row
  <2>1. /\ req[c].at = "delete" /\ q \in Changes /\ Active(q) /\ End(c)
        /\ told'[Spot(q)].schedule = Left
        /\ \A t \in Places : t # Spot(q) => told'[t] = told[t]
        /\ \A r \in Changes : r # q => rows'[r] = rows[r]
    BY <1>11, DeleteFacts
  <2>2. /\ rows'[q] = NoRow
        /\ \A r \in Changes : r # q => NewSpot(r) = Spot(r) /\ (rows'[r] # NoRow <=> Active(r))
        /\ \A t \in Places : NewFree(t) /\ t # Spot(q) => Free(t)
    BY <1>11, FreeFacts
  <2>3. Alone(c) /\ AllScheduled
    BY <1>0, <2>1, RowFacts
  <2> HIDE DEF q
  <2>4. ASSUME NEW r \in Changes, rows'[r] # NoRow
        PROVE  NewScheduleAgrees(r)
    <3>1. r # q /\ Active(r) /\ NewSpot(r) = Spot(r) /\ rows'[r] = rows[r]
      BY <2>1, <2>2, <2>4
    <3>2. told'[Spot(r)] = told[Spot(r)]
      BY <2>1, <3>1, SpotFacts
    <3> QED BY <2>3, <3>1, <3>2 DEF AllScheduled, ScheduleAgrees, NewScheduleAgrees
  <2>5. NewAllScheduled
    BY <2>1, <2>2, <2>3, <2>4 DEF AllScheduled, NewAllScheduled
  <2> QED BY <1>5, <2>1, <2>3, <2>5, EndFacts, RowFacts
<1>12. ASSUME NEW c \in Clients, Refuse(c), req[c].at \in {"register", "delete"}
       PROVE  ScheduleInv'
  <2>1. req'[c] = IdleReq /\ (\A e \in Clients : e # c => req'[e] = req[e]) /\ UNCHANGED <<told, rows>>
    BY <1>12, EndFacts DEF Refuse
  <2>2. Alone(c)
    BY <1>0, <1>12, RowFacts
  <2> QED BY <1>51, <1>12, <2>1, <2>2, RowFacts, SameFacts
<1>13. ASSUME NEW c \in Clients, PublishSchedule(c)
       PROVE  ScheduleInv'
  <2> DEFINE q == req[c].row
  <2>1. /\ req[c].at = "publish_schedule" /\ q \in Changes /\ Active(q) /\ UNCHANGED rows
        /\ rows[q].schedule = req[c].body /\ req[c].body \in Schedules
        /\ req'[c] = IdleReq /\ \A e \in Clients : e # c => req'[e] = req[e]
        /\ \A t \in Places : t # Spot(q) => told'[t] = told[t]
        /\ told'[Spot(q)].schedule = req[c].body
    BY <1>0, <1>13, PublishScheduleFacts, EndFacts DEF PeripheralsInv, RequestInv
  <2>2. Alone(c)
    BY <1>0, <2>1, RowFacts
  <2>3. \A r \in Changes : r # q /\ Active(r) => ScheduleAgrees(r)
    BY <1>0, <2>2, RowFacts DEF ScheduleSettled, Alone
  <2> HIDE DEF q
  <2>4. /\ \A r \in Changes : NewSpot(r) = Spot(r) /\ (rows'[r] # NoRow <=> Active(r))
        /\ \A t : NewFree(t) <=> Free(t)
    BY <2>1, SameFacts
  <2>5. ASSUME NEW r \in Changes, rows'[r] # NoRow
        PROVE  NewScheduleAgrees(r)
    <3>1. CASE r = q
      BY <2>1, <2>4, <3>1, RowFacts DEF NewScheduleAgrees
    <3>2. CASE r # q
      <4>1. ScheduleAgrees(r) /\ Active(r) /\ told'[Spot(r)] = told[Spot(r)]
        BY <2>1, <2>3, <2>4, <2>5, <3>2, SpotFacts
      <4> QED BY <2>1, <2>4, <4>1 DEF ScheduleAgrees, NewScheduleAgrees
    <3> QED BY <3>1, <3>2
  <2>6. \A t \in Places : NewFree(t) => told'[t].schedule \in {None, Left}
    BY <1>0, <2>1, <2>4 DEF Free
  <2>7. NewAllScheduled
    BY <2>5, <2>6 DEF NewAllScheduled
  <2> QED BY <1>5, <2>1, <2>2, <2>7, RowFacts
<1>14. ASSUME NEW c \in Clients, PublishMode(c)
       PROVE  ScheduleInv'
  <2>1. /\ req[c].at = "publish_mode" /\ UNCHANGED rows
        /\ \A e \in Clients : e # c => req'[e] = req[e]
        /\ \A t \in Places : told'[t].schedule = told[t].schedule
        /\ req'[c].at = "commit_mode"
    BY <1>0, <1>14, PublishModeFacts
  <2>2. Alone(c)
    BY <1>0, <2>1, RowFacts
  <2> QED BY <1>51, <2>1, <2>2, SameFacts
<1>15. ASSUME NEW c \in Clients, CommitMode(c)
       PROVE  ScheduleInv'
  <2>1. /\ req[c].at = "commit_mode" /\ UNCHANGED told /\ End(c) /\ req[c].row \in Changes
        /\ Edited(req[c].row) /\ rows'[req[c].row].schedule = rows[req[c].row].schedule
    BY <1>0, <1>15, CommitModeFacts
  <2>2. Alone(c)
    BY <1>0, <2>1, RowFacts
  <2>3. \A s \in Changes : Same(s) /\ rows'[s].schedule = rows[s].schedule
    BY <2>1, SameFacts DEF Edited
  <2> QED BY <1>51, <2>1, <2>2, <2>3, EndFacts, RowFacts
<1>16. ASSUME NEW r \in Changes, NEW n \in Names, Rename(r, n)
       PROVE  ScheduleInv'
  <2>1. UNCHANGED <<req, told>>
        /\ \A s \in Changes : Same(s) /\ rows'[s].schedule = rows[s].schedule
    BY <1>16, RenameFacts, SameFacts DEF Rename, Reachable, Edited
  <2> QED BY <1>4, <2>1
<1>17. CASE UNCHANGED <<req, told, rows>>
  BY <1>4, <1>17, SameFacts
<1>18. ~Crash
  BY <1>0 DEF Crash
<1> QED BY <1>2, <1>6, <1>7, <1>8, <1>9, <1>10, <1>11, <1>12, <1>13, <1>14, <1>15, <1>16, <1>17, <1>18, Steps
  DEF DeleteDevice, Publish, PublishFails, MarkCompleted

-----------------------------------------------------------------------------
(* Events and topics *)

LEMMA OrderInductive ==
  ASSUME PeripheralsInv, ScheduleInv, OrderInv, [Next]_vars
  PROVE  OrderInv'
<1>1. CASE UNCHANGED vars
  BY <1>1 DEF vars, tableVars, eventVars, OrderInv, Posted
<1>2. SUFFICES ASSUME Next, ~upset'
               PROVE  OrderInv'
  BY <1>1 DEF OrderInv
<1>0. /\ ~Error /\ ~upset /\ stamps \in Nat
      /\ \A c \in Clients : req[c] # IdleReq => Alone(c)
      /\ \A c \in Clients : \A at, r, id, body : Begin(c, at, r, id, body) => Alone(c)
      /\ EventInv /\ TypeOK
  BY <1>2, AloneFacts, PeripheralsAssumption DEF PeripheralsInv, TypeOK
<1>00. /\ \A c \in Clients : req[c].at \in {"register", "delete"} =>
            \A i \in Changes : Posted(i) => i < req[c].id
       /\ \A i, j \in Changes :
            i < j /\ outcome[i] = "open" /\ i \notin effect => j \notin effect
       /\ \A i \in Changes : outcome[i] # "abandoned"
  BY <1>0 DEF OrderInv
<1>01. \A c \in Clients : Ready(c)
  BY RequestParts DEF PeripheralsInv
<1>3. ASSUME UNCHANGED <<outcome, effect>>,
             \A c \in Clients : req'[c].at \in {"register", "delete"} =>
               \/ req[c].at \in {"register", "delete"} /\ req'[c].id = req[c].id
               \/ req'[c].id = stamps + 1
      PROVE  OrderInv'
  <2>1. \A i \in Changes : Posted(i) => i <= stamps
    BY <1>0 DEF EventInv, Posted
  <2>2. \A c \in Clients : req'[c].at \in {"register", "delete"} =>
          \A i \in Changes : Posted(i)' => i < req'[c].id
    BY <1>0, <1>00, <1>3, <2>1 DEF Posted, Changes
  <2> QED BY <1>00, <1>3, <2>2 DEF OrderInv
<1>4. ASSUME NEW c \in Clients, NEW i \in Changes, i = req[c].id, req[c].at \in {"register", "delete"}, End(c),
             outcome'[i] = "open", \A j \in Changes : j # i => outcome'[j] = outcome[j],
             UNCHANGED effect
      PROVE  OrderInv'
  <2>1. \A e \in Clients : req'[e] = IdleReq
    BY <1>0, <1>4, EndFacts, RowFacts DEF Alone
  <2>2. \A j \in Changes : Posted(j) => j < i
    BY <1>00, <1>4
  <2>3. \A j \in effect : j \in Changes /\ Posted(j)
    BY <1>0 DEF EventInv, TypeOK, Posted
  <2>4. \A k, j \in Changes :
          k < j /\ outcome'[k] = "open" /\ k \notin effect' => j \notin effect'
    <3> SUFFICES ASSUME NEW k \in Changes, NEW j \in Changes, k < j, outcome'[k] = "open",
                        k \notin effect', j \in effect'
                 PROVE  FALSE
      OBVIOUS
    <3>1. j < i /\ j \in effect /\ k \notin effect
      BY <1>4, <2>2, <2>3
    <3>2. k # i
      BY <3>1, <1>4, PeripheralsAssumption DEF Changes
    <3> QED BY <1>00, <1>4, <3>1, <3>2
  <2> QED BY <1>00, <1>4, <2>1, <2>4, RowFacts DEF OrderInv
<1>5. ASSUME NEW c \in Clients, NEW d \in Devices, BeginRegister(c, d)
      PROVE  OrderInv'
  <2>1. UNCHANGED <<outcome, effect>> /\ stamps' = stamps + 1
        /\ req' = [req EXCEPT ![c] = [at |-> "register", row |-> 0, id |-> stamps', body |-> d]]
    BY <1>5 DEF BeginRegister, Begin, eventVars
  <2>2. req \in [Clients -> Req]
    BY <1>0 DEF TypeOK
  <2> QED BY <1>3, <2>1, <2>2
<1>6. ASSUME NEW c \in Clients, NEW r \in Changes, BeginDelete(c, r)
      PROVE  OrderInv'
  <2>1. UNCHANGED <<outcome, effect>> /\ stamps' = stamps + 1
        /\ req' = [req EXCEPT ![c] = [at |-> "delete", row |-> r, id |-> stamps', body |-> None]]
    BY <1>6 DEF BeginDelete, Begin, eventVars
  <2>2. req \in [Clients -> Req]
    BY <1>0 DEF TypeOK
  <2> QED BY <1>3, <2>1, <2>2
<1>7. ASSUME NEW c \in Clients, NEW r \in Changes, NEW m \in Modes, UpdateMode(c, r, m)
      PROVE  OrderInv'
  <2>1. UNCHANGED <<outcome, effect>>
        /\ req' = [req EXCEPT ![c] = [at |-> "publish_mode", row |-> r, id |-> 0, body |-> m]]
    BY <1>7 DEF UpdateMode, Begin, eventVars
  <2>2. req \in [Clients -> Req]
    BY <1>0 DEF TypeOK
  <2> QED BY <1>3, <2>1, <2>2
<1>8. ASSUME NEW c \in Clients, NEW r \in Changes, NEW s \in Schedules, StoreSchedule(c, r, s)
      PROVE  OrderInv'
  <2>1. UNCHANGED <<outcome, effect>>
        /\ req' = [req EXCEPT ![c] = [at |-> "publish_schedule", row |-> r, id |-> 0, body |-> s]]
    BY <1>8 DEF StoreSchedule, Begin, eventVars
  <2>2. req \in [Clients -> Req]
    BY <1>0 DEF TypeOK
  <2> QED BY <1>3, <2>1, <2>2
<1>9. ASSUME NEW c \in Clients, NEW n \in Names, NEW p \in Ports, Register(c, n, p)
      PROVE  OrderInv'
  <2>1. /\ req[c].at = "register" /\ req[c].id \in Changes /\ req[c].body \in Devices /\ End(c)
        /\ Announce(req[c].id, req[c].body, p, "create")
    BY <1>9, RegisterFacts
  <2>2. PICK i \in Changes : i = req[c].id
    BY <2>1
  <2>3. /\ outcome'[i] = "open" /\ \A j \in Changes : j # i => outcome'[j] = outcome[j]
        /\ UNCHANGED effect
    BY <2>1, <2>2, AnnounceFacts
  <2> QED BY <1>4, <2>1, <2>2, <2>3
<1>10. ASSUME NEW c \in Clients, DeleteRow(c)
       PROVE  OrderInv'
  <2> DEFINE r == req[c].row
  <2>1. /\ req[c].at = "delete" /\ req[c].id \in Changes /\ End(c)
        /\ rows[r].device \in Devices /\ rows[r].port \in Ports
        /\ Announce(req[c].id, rows[r].device, rows[r].port, "delete")
    BY <1>10, DeleteFacts
  <2> HIDE DEF r
  <2>2. PICK i \in Changes : i = req[c].id
    BY <2>1
  <2>3. /\ outcome'[i] = "open" /\ \A j \in Changes : j # i => outcome'[j] = outcome[j]
        /\ UNCHANGED effect
    BY <2>1, <2>2, AnnounceFacts
  <2> QED BY <1>4, <2>1, <2>2, <2>3
<1>11. ASSUME NEW c \in Clients, Refuse(c) \/ PublishSchedule(c) \/ PublishMode(c) \/ CommitMode(c)
       PROVE  OrderInv'
  <2>1. UNCHANGED <<outcome, effect>>
    BY <1>11 DEF Refuse, PublishSchedule, PublishMode, CommitMode, eventVars
  <2>2. /\ req'[c].at \notin {"register", "delete"}
        /\ \A e \in Clients : e # c => req'[e] = req[e]
    <3>1. CASE End(c)
      BY <3>1, EndFacts, RowFacts
    <3>2. CASE PublishMode(c)
      BY <1>0, <3>2, PublishModeFacts
    <3> QED BY <1>11, <3>1, <3>2 DEF Refuse, PublishSchedule, CommitMode
  <2> QED BY <1>3, <2>1, <2>2
<1>12. CASE UNCHANGED <<req, outcome, effect>>
  BY <1>3, <1>12
<1>13. ASSUME NEW i \in Changes, Publish(i)
       PROVE  OrderInv'
  <2>1. /\ outcome[i] = "open" /\ effect' = effect \cup {i} /\ UNCHANGED <<outcome, req>>
        /\ ~Overtakes(i)
    BY <1>0, <1>2, <1>13 DEF Publish, Box!Act
  <2>2. \A j \in Changes : j < i /\ outcome[j] = "open" => j \in effect
    BY <2>1 DEF Overtakes
  <2>3. \A k, j \in Changes :
          k < j /\ outcome'[k] = "open" /\ k \notin effect' => j \notin effect'
    BY <1>00, <2>1, <2>2
  <2> QED BY <1>00, <2>1, <2>3 DEF OrderInv, Posted
<1>14. ASSUME NEW i \in Changes, MarkCompleted(i)
       PROVE  OrderInv'
  <2>1. /\ outcome[i] = "open" /\ outcome' = [outcome EXCEPT ![i] = "done"] /\ UNCHANGED <<effect, req>>
    BY <1>14 DEF MarkCompleted, Box!Confirm
  <2>2. \A j \in Changes : outcome'[j] = IF j = i THEN "done" ELSE outcome[j]
    BY <1>0, <2>1 DEF TypeOK
  <2>3. \A j \in Changes : Posted(j)' => Posted(j)
    BY <2>1, <2>2 DEF Posted
  <2> QED BY <1>00, <2>1, <2>2, <2>3 DEF OrderInv
<1>15. ~Crash /\ \A i \in Changes : ~PublishFails(i)
  BY <1>0 DEF Crash, PublishFails
<1>16. ASSUME NEW r \in Changes, NEW n \in Names, Rename(r, n)
       PROVE  OrderInv'
  BY <1>12, <1>16 DEF Rename, eventVars
<1>17. ASSUME NEW d \in Devices, DeleteDevice(d)
       PROVE  OrderInv'
  BY <1>12, <1>17 DEF DeleteDevice, eventVars
<1> QED BY <1>2, <1>5, <1>6, <1>7, <1>8, <1>9, <1>10, <1>11, <1>13, <1>14, <1>15, <1>16, <1>17, Steps

LEMMA TopicInductive ==
  ASSUME PeripheralsInv, ScheduleInv, OrderInv, TopicInv, [Next]_vars
  PROVE  TopicInv'
<1>1. CASE UNCHANGED vars
  <2>1. UNCHANGED <<rows, push, outcome, effect, retained, upset>>
    BY <1>1 DEF vars, tableVars, eventVars
  <2>2. /\ \A i \in Changes : (Posted(i)' <=> Posted(i)) /\ push'[i] = push[i]
        /\ \A i, d, p : On(i, d, p)' <=> On(i, d, p)
        /\ \A d, p : HasRow(d, p)' <=> HasRow(d, p)
    BY <2>1 DEF Posted, On, HasRow, Active
  <2>3. \A d, p : NewestTells(d, p) => NewestTells(d, p)'
    BY <2>2 DEF NewestTells
  <2>4. \A d, p : TopicHolds(d, p) => TopicHolds(d, p)'
    <3> SUFFICES ASSUME NEW d, NEW p, TopicHolds(d, p)
                 PROVE  TopicHolds(d, p)'
      OBVIOUS
    <3> QED BY <2>1, <2>2 DEF TopicHolds
  <2> QED BY <2>1, <2>3, <2>4 DEF TopicInv
<1>2. SUFFICES ASSUME Next, ~upset'
               PROVE  TopicInv'
  BY <1>1 DEF TopicInv
<1>0. /\ ~Error /\ ~upset
      /\ EventInv /\ TypeOK
      /\ \A d \in Devices, p \in Ports : NewestTells(d, p) /\ TopicHolds(d, p)
  BY <1>2, AloneFacts DEF PeripheralsInv, TopicInv
<1>00. /\ \A c \in Clients : req[c].at \in {"register", "delete"} =>
            \A i \in Changes : Posted(i) => i < req[c].id
       /\ \A i, j \in Changes :
            i < j /\ outcome[i] = "open" /\ i \notin effect => j \notin effect
  BY <1>0 DEF OrderInv
<1>01. \A i \in effect : i \in Changes /\ Posted(i)
  BY <1>0 DEF EventInv, TypeOK, Posted
(* No event is posted and none takes effect. *)
<1>3. ASSUME UNCHANGED push, \A i \in Changes : Posted(i)' <=> Posted(i),
             \A d \in Devices, p \in Ports : HasRow(d, p)' <=> HasRow(d, p)
      PROVE  \A d \in Devices, p \in Ports : NewestTells(d, p)'
  BY <1>0, <1>3 DEF NewestTells, On
<1>4. ASSUME UNCHANGED <<effect, retained>>, \A i \in effect : push'[i] = push[i]
      PROVE  \A d \in Devices, p \in Ports : TopicHolds(d, p)'
  <2> SUFFICES ASSUME NEW d \in Devices, NEW p \in Ports
               PROVE  TopicHolds(d, p)'
    OBVIOUS
  <2>1. TopicHolds(d, p) /\ \A i \in effect : On(i, d, p)' <=> On(i, d, p)
    BY <1>0, <1>4 DEF On
  <2>2. effect' = effect /\ retained'[<<d, p>>] = retained[<<d, p>>]
    BY <1>4
  <2>3. CASE retained[<<d, p>>] = None /\ \A i \in effect : ~On(i, d, p)
    BY <2>1, <2>2, <2>3 DEF TopicHolds
  <2>4. CASE \E i \in effect : /\ On(i, d, p) /\ \A j \in effect : On(j, d, p) => j <= i
                               /\ retained[<<d, p>>] = push[i].op
    BY <1>4, <2>1, <2>2, <2>4 DEF TopicHolds
  <2> QED BY <2>1, <2>3, <2>4 DEF TopicHolds
(* A row is registered or deleted and its event becomes the newest one. *)
<1>5. ASSUME NEW c \in Clients, NEW i \in Changes, i = req[c].id, req[c].at \in {"register", "delete"},
             NEW e \in Devices, NEW q \in Ports, NEW op \in {"create", "delete"}, Announce(i, e, q, op),
             UNCHANGED retained, HasRow(e, q)' <=> op = "create",
             \A d \in Devices, p \in Ports : <<d, p>> # <<e, q>> => (HasRow(d, p)' <=> HasRow(d, p))
      PROVE  TopicInv'
  <2>1. /\ push'[i].device = e /\ push'[i].port = q /\ push'[i].op = op
        /\ \A j \in Changes : j # i => push'[j] = push[j] /\ outcome'[j] = outcome[j]
        /\ outcome[i] = "none" /\ outcome'[i] = "open" /\ UNCHANGED effect
    BY <1>5, AnnounceFacts
  <2>2. \A j \in Changes : Posted(j) => j < i
    BY <1>00, <1>5
  <2>3. \A d \in Devices, p \in Ports : TopicHolds(d, p)'
    <3>1. i \notin effect
      BY <2>1, <1>01 DEF Posted
    <3> QED BY <1>4, <1>5, <1>01, <2>1, <3>1
  <2>4. ASSUME NEW d \in Devices, NEW p \in Ports
        PROVE  NewestTells(d, p)'
    <3>1. CASE d = e /\ p = q
      <4>1. Posted(i)' /\ On(i, d, p)'
        BY <2>1, <3>1 DEF Posted, On
      <4>2. \A j \in Changes : Posted(j)' => j <= i
        BY <2>1, <2>2, PeripheralsAssumption DEF Posted, Changes
      <4>3. (push'[i].op = "create") <=> HasRow(d, p)'
        BY <1>5, <2>1, <3>1
      <4> QED BY <4>1, <4>2, <4>3 DEF NewestTells
    <3>2. CASE ~(d = e /\ p = q)
      <4>1. HasRow(d, p)' <=> HasRow(d, p)
        BY <1>5, <3>2
      <4>2. ~Posted(i) /\ ~On(i, d, p)'
        BY <2>1, <3>2 DEF Posted, On
      <4>3. \A j \in Changes : j # i => (Posted(j)' <=> Posted(j)) /\ (On(j, d, p)' <=> On(j, d, p))
                                        /\ push'[j].op = push[j].op
        BY <2>1 DEF Posted, On
      <4>4. NewestTells(d, p)
        BY <1>0
      <4> QED BY <4>1, <4>2, <4>3, <4>4 DEF NewestTells
    <3> QED BY <3>1, <3>2
  <2> QED BY <2>3, <2>4 DEF TopicInv
<1>6. ASSUME NEW c \in Clients, NEW n \in Names, NEW p \in Ports, Register(c, n, p)
      PROVE  TopicInv'
  <2>1. /\ req[c].at = "register" /\ req[c].id \in Changes /\ req[c].body \in Devices
        /\ rows[req[c].id] = NoRow /\ rows'[req[c].id] \in Row
        /\ rows'[req[c].id].device = req[c].body /\ rows'[req[c].id].port = p
        /\ \A r \in Changes : r # req[c].id => rows'[r] = rows[r]
        /\ Announce(req[c].id, req[c].body, p, "create") /\ UNCHANGED retained
    BY <1>6, RegisterFacts
  <2>2. PICK i \in Changes : i = req[c].id
    BY <2>1
  <2>3. PICK e \in Devices : e = req[c].body
    BY <2>1
  <2>4. HasRow(e, p)'
    BY <2>1, <2>2, <2>3, RowFacts DEF HasRow, Active
  <2>5. \A d \in Devices, q \in Ports : <<d, q>> # <<e, p>> => (HasRow(d, q)' <=> HasRow(d, q))
    BY <2>1, <2>2, <2>3 DEF HasRow, Active
  <2> QED BY <1>5, <2>1, <2>2, <2>3, <2>4, <2>5
<1>7. ASSUME NEW c \in Clients, DeleteRow(c)
      PROVE  TopicInv'
  <2>1. /\ req[c].at = "delete" /\ req[c].id \in Changes /\ req[c].row \in Changes
        /\ rows[req[c].row].device \in Devices /\ rows[req[c].row].port \in Ports
        /\ Active(req[c].row) /\ rows'[req[c].row] = NoRow
        /\ \A s \in Changes : s # req[c].row => rows'[s] = rows[s]
        /\ Announce(req[c].id, rows[req[c].row].device, rows[req[c].row].port, "delete")
        /\ UNCHANGED retained
    BY <1>7, DeleteFacts
  <2>2. PICK i \in Changes : i = req[c].id
    BY <2>1
  <2>3. PICK r \in Changes : r = req[c].row
    BY <2>1
  <2>4. PICK e \in Devices, p \in Ports : e = rows[r].device /\ p = rows[r].port
    BY <2>1, <2>3
  <2>5. ~HasRow(e, p)'
    <3>1. ASSUME NEW s \in Changes, s # r, Active(s), rows[s].device = e
          PROVE  rows[s].port # p
      BY <2>1, <2>3, <2>4, <3>1 DEF PeripheralsInv, ActiveUnique
    <3> QED BY <2>1, <2>3, <3>1 DEF HasRow, Active
  <2>6. \A d \in Devices, q \in Ports : <<d, q>> # <<e, p>> => (HasRow(d, q)' <=> HasRow(d, q))
    BY <2>1, <2>3, <2>4 DEF HasRow, Active
  <2> QED BY <1>5, <2>1, <2>2, <2>3, <2>4, <2>5, <2>6
(* An edited row stays on its device and port. *)
<1>8. ASSUME NEW r \in Changes, Edited(r), UNCHANGED <<push, outcome, effect, retained>>
      PROVE  TopicInv'
  <2>1. \A d \in Devices, p \in Ports : HasRow(d, p)' <=> HasRow(d, p)
    BY <1>8 DEF HasRow, Edited, Active
  <2> QED BY <1>3, <1>4, <1>8, <2>1 DEF TopicInv, Posted
<1>9. CASE UNCHANGED <<rows, push, outcome, effect, retained>>
  BY <1>3, <1>4, <1>9 DEF TopicInv, Posted, HasRow, Active
<1>10. ASSUME NEW c \in Clients, NEW r \in Changes, NEW s \in Schedules, StoreSchedule(c, r, s)
       PROVE  TopicInv'
  BY <1>8, <1>10, ScheduleFacts DEF StoreSchedule, Reachable, eventVars
<1>11. ASSUME NEW c \in Clients, CommitMode(c)
       PROVE  TopicInv'
  <2>1. Edited(req[c].row) /\ req[c].row \in Changes /\ UNCHANGED <<push, eventVars, retained>>
    BY <1>0, <1>11, CommitModeFacts DEF CommitMode
  <2> QED BY <1>8, <2>1 DEF eventVars
<1>12. ASSUME NEW r \in Changes, NEW n \in Names, Rename(r, n)
       PROVE  TopicInv'
  BY <1>8, <1>12, RenameFacts DEF Rename, Reachable, eventVars
(* The event that is published is newer than all that took effect. *)
<1>13. ASSUME NEW i \in Changes, Publish(i)
       PROVE  TopicInv'
  <2>1. /\ outcome[i] = "open" /\ i \notin effect /\ effect' = effect \cup {i}
        /\ UNCHANGED <<outcome, rows, push>>
        /\ retained' = [retained EXCEPT ![<<push[i].device, push[i].port>>] = push[i].op]
    BY <1>0, <1>13 DEF Publish, Box!Act, Topic
  <2>2. \A j \in effect : j < i
    BY <1>00, <1>01, <2>1, PeripheralsAssumption DEF Changes
  <2>3. push[i] \in Push /\ push[i].device \in Devices /\ push[i].port \in Ports
    BY <1>0, <2>1 DEF EventInv, Push
  <2>4. /\ retained'[<<push[i].device, push[i].port>>] = push[i].op
        /\ \A d \in Devices, p \in Ports : ~On(i, d, p) => retained'[<<d, p>>] = retained[<<d, p>>]
    BY <1>0, <2>1, <2>3 DEF TypeOK, On
  <2>5. ASSUME NEW d \in Devices, NEW p \in Ports
        PROVE  TopicHolds(d, p)'
    <3>1. CASE On(i, d, p)
      <4>1. i \in effect' /\ On(i, d, p)' /\ retained'[<<d, p>>] = push'[i].op
        BY <2>1, <2>4, <3>1 DEF On
      <4>2. \A j \in effect' : j <= i
        <5>1. i \in Nat /\ \A j \in effect : j \in Nat
          BY <1>01, PeripheralsAssumption DEF Changes
        <5> QED BY <2>1, <2>2, <5>1
      <4> QED BY <4>1, <4>2 DEF TopicHolds
    <3>2. CASE ~On(i, d, p)
      BY <1>0, <2>1, <2>4, <3>2 DEF TopicHolds, On
    <3> QED BY <3>1, <3>2
  <2>6. \A d \in Devices, p \in Ports : NewestTells(d, p)'
    BY <1>3, <2>1 DEF Posted, HasRow, Active
  <2> QED BY <2>5, <2>6 DEF TopicInv
<1>14. ASSUME NEW i \in Changes, MarkCompleted(i)
       PROVE  TopicInv'
  <2>1. /\ outcome[i] = "open" /\ outcome' = [outcome EXCEPT ![i] = "done"]
        /\ UNCHANGED <<rows, push, effect, retained>>
    BY <1>14 DEF MarkCompleted, Box!Confirm
  <2>2. \A j \in Changes : Posted(j)' <=> Posted(j)
    BY <1>0, <2>1 DEF TypeOK, Posted
  <2> QED BY <1>3, <1>4, <2>1, <2>2 DEF TopicInv, HasRow, Active
<1>15. ~Crash /\ \A i \in Changes : ~PublishFails(i)
  BY <1>0 DEF Crash, PublishFails
<1>16. ASSUME NEW c \in Clients, NEW d \in Devices, BeginRegister(c, d)
       PROVE  TopicInv'
  BY <1>9, <1>16 DEF BeginRegister, eventVars
<1>17. ASSUME NEW c \in Clients, NEW r \in Changes, BeginDelete(c, r)
       PROVE  TopicInv'
  BY <1>9, <1>17 DEF BeginDelete, eventVars
<1>18. ASSUME NEW c \in Clients, NEW r \in Changes, NEW m \in Modes, UpdateMode(c, r, m)
       PROVE  TopicInv'
  BY <1>9, <1>18 DEF UpdateMode, eventVars
<1>19. ASSUME NEW c \in Clients, Refuse(c) \/ PublishSchedule(c) \/ PublishMode(c)
       PROVE  TopicInv'
  BY <1>9, <1>19 DEF Refuse, PublishSchedule, PublishMode, eventVars
<1>20. ASSUME NEW d \in Devices, DeleteDevice(d)
       PROVE  TopicInv'
  BY <1>9, <1>20 DEF DeleteDevice, eventVars
<1> QED BY <1>2, <1>6, <1>7, <1>10, <1>11, <1>12, <1>13, <1>14, <1>15, <1>16, <1>17, <1>18, <1>19, <1>20, Steps

-----------------------------------------------------------------------------
(* The mirror *)

LEMMA LogType ==
  ASSUME TypeOK, EventInv, NEW i \in Changes
  PROVE  /\ outcome[i] # "none" => Topic(i) \in Topics /\ Log[i].topic = Topic(i)
                                   /\ Log[i] # Copy!Unwritten
                                   /\ Log[i].value = Seen(push[i].op)
         /\ outcome[i] = "none" => Log[i] = Copy!Unwritten
<1>1. CASE outcome[i] # "none"
  <2>1. push[i] \in Push
    BY <1>1 DEF EventInv
  <2>2. Topic(i) \in Topics
    BY <2>1 DEF Topic, Topics, Push
  <2>3. Topic(i) # NoTopic
    BY <2>1, PeripheralsAssumption DEF Topic, NoTopic, None, Push
  <2> QED BY <1>1, <2>2, <2>3 DEF Log, Copy!Unwritten
<1>2. CASE outcome[i] = "none"
  BY <1>2 DEF Log, Copy!Unwritten
<1> QED BY <1>1, <1>2

LEMMA WrittenFacts ==
  ASSUME TypeOK, EventInv, NEW t \in Topics
  PROVE  Copy!Written(t) = {i \in Changes : Posted(i) /\ Topic(i) = t}
BY LogType DEF Copy!Written, Posted

(* An event that is posted is logged. *)
LEMMA LogFacts ==
  ASSUME PeripheralsInv, NEW i \in Changes, NEW d \in Devices, NEW p \in Ports,
         NEW op \in {"create", "delete"}, Announce(i, d, p, op)
  PROVE  /\ Log[i] = Copy!Unwritten
         /\ Log' = [Log EXCEPT ![i] = [topic |-> <<d, p>>, value |-> Seen(op)]]
         /\ \A t \in Topics : LatestEffect(t)' = LatestEffect(t)
<1>1. /\ push'[i].device = d /\ push'[i].port = p /\ push'[i].op = op
      /\ outcome[i] = "none" /\ outcome'[i] = "open" /\ UNCHANGED effect
      /\ \A j \in Changes : j # i => push'[j] = push[j] /\ outcome'[j] = outcome[j]
  BY AnnounceFacts
<1>2. Log' = [Log EXCEPT ![i] = [topic |-> <<d, p>>, value |-> Seen(op)]]
  BY <1>1 DEF Log, Topic, Seen
<1>3. \A j \in effect : j \in Changes /\ j # i
  BY <1>1 DEF PeripheralsInv, TypeOK, EventInv
<1>4. \A j \in effect : Topic(j)' = Topic(j)
  BY <1>1, <1>3 DEF Topic
<1>5. \A t \in Topics : {j \in effect' : Topic(j)' = t} = {j \in effect : Topic(j) = t}
  BY <1>1, <1>4
<1> QED BY <1>1, <1>2, <1>5 DEF LatestEffect, Log, Copy!Unwritten

LEMMA MirrorInit == Init => Copy!Init
<1> SUFFICES ASSUME Init
             PROVE  Copy!Init
  OBVIOUS
<1>1. /\ \A r \in Changes : rows[r] = NoRow /\ outcome[r] = "none"
      /\ effect = {} /\ upset = FALSE /\ \A t \in Topics : retained[t] = None
  BY DEF Init, Box!Init, Topics
<1>2. \A t \in Topics : ~Occupied(t) /\ LatestEffect(t) = 0 /\ Seen(retained[t]) = "absent"
  BY <1>1 DEF Occupied, Active, LatestEffect, Seen, None
<1> QED BY <1>1, <1>2 DEF Copy!Init, Copy!Unwritten, Log

LEMMA MirrorStep ==
  ASSUME PeripheralsInv, ScheduleInv, OrderInv, TopicInv, [Next]_vars
  PROVE  [Copy!Next]_(Copy!mvars)
<1> DEFINE source == [t \in Topics |-> IF Occupied(t) THEN "present" ELSE "absent"]
           shown  == [t \in Topics |-> LatestEffect(t)]
           copy   == [t \in Topics |-> Seen(retained[t])]
<1>0. /\ upset \in BOOLEAN /\ upset' \in BOOLEAN /\ TypeOK /\ EventInv
      /\ upset => upset'
  BY TypeInductive, UpsetStays DEF PeripheralsInv, TypeOK
(* A step that changes neither table nor topic. *)
<1>1. ASSUME UNCHANGED <<source, Log, shown, copy>>
      PROVE  [Copy!Next]_(Copy!mvars)
  <2>1. CASE ~upset'
    BY <1>0, <1>1, <2>1 DEF Copy!mvars
  <2>2. CASE upset'
    BY <1>1, <2>2 DEF Copy!Next, Copy!Disturbed
  <2> QED BY <1>0, <2>1, <2>2
<1>2. ASSUME UNCHANGED <<push, outcome, effect, retained>>,
             \A t \in Topics : Occupied(t)' <=> Occupied(t)
      PROVE  [Copy!Next]_(Copy!mvars)
  <2>1. UNCHANGED <<Log, copy, shown>>
    BY <1>2 DEF Log, LatestEffect, Topic, Seen
  <2>2. UNCHANGED source
    BY <1>2
  <2> QED BY <1>1, <2>1, <2>2
<1>3. ASSUME UNCHANGED <<rows, push, outcome, effect, retained>>
      PROVE  [Copy!Next]_(Copy!mvars)
  BY <1>2, <1>3 DEF Occupied, Active
<1>4. ASSUME NEW i \in Changes, NEW d \in Devices, NEW p \in Ports, NEW op \in {"create", "delete"},
             Announce(i, d, p, op), UNCHANGED <<retained, upset>>,
             ~upset => \A j \in Changes : Posted(j) => j < i,
             Occupied(<<d, p>>)' <=> op = "create",
             \A t \in Topics : t # <<d, p>> => (Occupied(t)' <=> Occupied(t))
      PROVE  [Copy!Next]_(Copy!mvars)
  <2> DEFINE t == <<d, p>>
  <2>0. t \in Topics
    BY DEF Topics
  <2>1. source' = [source EXCEPT ![t] = Seen(op)]
    BY <1>4, <2>0 DEF Seen
  <2>2. Copy!Put(i, t, Seen(op)) /\ Seen(op) \in {"present", "absent"}
    BY <1>4, <2>1, LogFacts DEF Copy!Put, Seen
  <2>3. UNCHANGED <<shown, copy>>
    BY <1>4, LogFacts
  <2>4. CASE ~upset'
    <3>1. \A u \in Topics : \A j \in Copy!Written(u) : j < i
      BY <1>0, <1>4, <2>4, WrittenFacts
    <3>2. Copy!Write(i, t, Seen(op))
      BY <1>4, <2>2, <2>3, <3>1 DEF Copy!Write
    <3> QED BY <1>4, <2>0, <2>2, <2>4, <3>2 DEF Copy!Next
  <2>5. CASE upset'
    BY <2>0, <2>2, <2>3, <2>5 DEF Copy!Next, Copy!Disturbed
  <2> QED BY <1>0, <2>4, <2>5
<1>5. ASSUME NEW c \in Clients, NEW n \in Names, NEW p \in Ports, Register(c, n, p)
      PROVE  [Copy!Next]_(Copy!mvars)
  <2>1. /\ req[c].at = "register" /\ req[c].id \in Changes /\ req[c].body \in Devices
        /\ rows[req[c].id] = NoRow /\ rows'[req[c].id] \in Row
        /\ rows'[req[c].id].device = req[c].body /\ rows'[req[c].id].port = p
        /\ \A r \in Changes : r # req[c].id => rows'[r] = rows[r]
        /\ Announce(req[c].id, req[c].body, p, "create") /\ UNCHANGED <<retained, upset>>
    BY <1>5, RegisterFacts
  <2>2. PICK i \in Changes : i = req[c].id
    BY <2>1
  <2>3. PICK e \in Devices : e = req[c].body
    BY <2>1
  <2>4. Occupied(<<e, p>>)'
    BY <2>1, <2>2, <2>3, RowFacts DEF Occupied, Active
  <2>5. \A t \in Topics : t # <<e, p>> => (Occupied(t)' <=> Occupied(t))
    BY <2>1, <2>2, <2>3 DEF Occupied, Active
  <2>6. ~upset => \A j \in Changes : Posted(j) => j < i
    BY <2>1, <2>2 DEF OrderInv
  <2> QED BY <1>4, <2>1, <2>2, <2>3, <2>4, <2>5, <2>6
<1>6. ASSUME NEW c \in Clients, DeleteRow(c)
      PROVE  [Copy!Next]_(Copy!mvars)
  <2>1. /\ req[c].at = "delete" /\ req[c].id \in Changes /\ req[c].row \in Changes
        /\ rows[req[c].row].device \in Devices /\ rows[req[c].row].port \in Ports
        /\ Active(req[c].row) /\ rows'[req[c].row] = NoRow
        /\ \A s \in Changes : s # req[c].row => rows'[s] = rows[s]
        /\ Announce(req[c].id, rows[req[c].row].device, rows[req[c].row].port, "delete")
        /\ UNCHANGED <<retained, upset>>
    BY <1>6, DeleteFacts
  <2>2. PICK i \in Changes : i = req[c].id
    BY <2>1
  <2>3. PICK r \in Changes : r = req[c].row
    BY <2>1
  <2>4. PICK e \in Devices, p \in Ports : e = rows[r].device /\ p = rows[r].port
    BY <2>1, <2>3
  <2>5. ~Occupied(<<e, p>>)'
    <3>1. ASSUME NEW s \in Changes, s # r, Active(s), rows[s].device = e
          PROVE  rows[s].port # p
      BY <2>1, <2>3, <2>4, <3>1 DEF PeripheralsInv, ActiveUnique
    <3> QED BY <2>1, <2>3, <3>1 DEF Occupied, Active
  <2>6. \A t \in Topics : t # <<e, p>> => (Occupied(t)' <=> Occupied(t))
    BY <2>1, <2>3, <2>4 DEF Occupied, Active
  <2>7. ~upset => \A j \in Changes : Posted(j) => j < i
    BY <2>1, <2>2 DEF OrderInv
  <2> QED BY <1>4, <2>1, <2>2, <2>3, <2>4, <2>5, <2>6, <2>7
<1>7. ASSUME NEW r \in Changes, Edited(r), UNCHANGED <<push, eventVars, retained>>
      PROVE  [Copy!Next]_(Copy!mvars)
  <2>1. \A t \in Topics : Occupied(t)' <=> Occupied(t)
    BY <1>7 DEF Occupied, Edited, Active
  <2> QED BY <1>2, <1>7, <2>1 DEF eventVars
<1>8. ASSUME NEW r \in Changes, NEW n \in Names, Rename(r, n)
      PROVE  [Copy!Next]_(Copy!mvars)
  BY <1>7, <1>8, RenameFacts DEF Rename, Reachable
<1>9. ASSUME NEW c \in Clients, NEW r \in Changes, NEW s \in Schedules, StoreSchedule(c, r, s)
      PROVE  [Copy!Next]_(Copy!mvars)
  BY <1>7, <1>9, ScheduleFacts DEF StoreSchedule, Reachable
<1>10. ASSUME NEW c \in Clients, CommitMode(c)
       PROVE  [Copy!Next]_(Copy!mvars)
  <2>1. UNCHANGED <<push, eventVars, retained>> /\ req[c].row \in Changes
        /\ (Edited(req[c].row) \/ UNCHANGED rows)
    BY <1>10, CommitModeFacts
  <2>2. CASE UNCHANGED rows
    BY <1>3, <2>1, <2>2 DEF eventVars
  <2>3. CASE Edited(req[c].row)
    BY <1>7, <2>1, <2>3
  <2> QED BY <2>1, <2>2, <2>3
(* A publish that may have failed, or pass an older one. *)
<1>11. ASSUME NEW i \in Changes, outcome[i] = "open", UNCHANGED <<rows, push>>, upset',
              \A j \in Changes : outcome'[j] = "none" <=> outcome[j] = "none",
              retained' \in {retained, [retained EXCEPT ![Topic(i)] = push[i].op]}
       PROVE  [Copy!Next]_(Copy!mvars)
  <2>1. UNCHANGED <<source, Log>>
    BY <1>11 DEF Occupied, Active, Log, Topic, Seen
  <2>2. Log[i].value = Seen(push[i].op) /\ i \in Copy!Written(Topic(i)) /\ Topic(i) \in Topics
    BY <1>0, <1>11, LogType, WrittenFacts DEF Posted
  <2>3. \A t \in Topics :
          Seen(retained'[t]) = Seen(retained[t]) \/ (t = Topic(i) /\ Seen(retained'[t]) = Log[i].value)
    <3>1. CASE UNCHANGED retained
      BY <3>1
    <3>2. CASE retained' = [retained EXCEPT ![Topic(i)] = push[i].op]
      <4>1. \A t \in Topics : retained'[t] = IF t = Topic(i) THEN push[i].op ELSE retained[t]
        BY <1>0, <3>2 DEF TypeOK, Topics
      <4> QED BY <2>2, <4>1
    <3> QED BY <1>11, <3>1, <3>2
  <2>4. \A t \in Topics : copy'[t] = copy[t] \/ \E j \in Copy!Written(t) : copy'[t] = Log[j].value
    BY <2>2, <2>3
  <2> QED BY <1>11, <2>1, <2>4 DEF Copy!Next, Copy!Disturbed
<1>12. ASSUME NEW i \in Changes, Publish(i)
       PROVE  [Copy!Next]_(Copy!mvars)
  <2>1. /\ outcome[i] = "open" /\ effect' = effect \cup {i} /\ UNCHANGED <<outcome, rows, push>>
        /\ retained' = [retained EXCEPT ![Topic(i)] = push[i].op]
        /\ i \in effect => upset'
        /\ i \notin effect => upset' = (upset \/ Overtakes(i))
    BY <1>12 DEF Publish, Box!Act, Error
  <2>2. CASE upset'
    BY <1>11, <2>1, <2>2
  <2>3. CASE ~upset'
    <3>1. ~upset /\ i \notin effect /\ ~Overtakes(i)
      BY <2>1, <2>3
    <3>2. \A j \in effect : j \in Changes /\ j < i
      <4>1. \A j \in effect : j \in Changes /\ j # i /\ ~(i < j)
        BY <1>0, <2>1, <3>1 DEF OrderInv, TypeOK
      <4> QED BY <4>1, PeripheralsAssumption DEF Changes
    <3>3. /\ Topic(i) \in Topics /\ Log[i].value = Seen(push[i].op)
          /\ i \in Copy!Written(Topic(i)) /\ UNCHANGED <<source, Log>>
      BY <1>0, <2>1, LogType, WrittenFacts DEF Posted, Occupied, Active, Log, Topic, Seen
    <3>4. LatestEffect(Topic(i)) < i
      <4>1. Topic(i)[1] \in Devices /\ Topic(i)[2] \in Ports /\ Topic(i) = <<Topic(i)[1], Topic(i)[2]>>
        BY <3>3 DEF Topics
      <4>2. TopicHolds(Topic(i)[1], Topic(i)[2])
        BY <3>1, <4>1 DEF TopicInv
      <4>3. \E j \in {k \in effect : Topic(k) = Topic(i)} \cup {0} :
              \A k \in {k \in effect : Topic(k) = Topic(i)} : k <= j
        BY <4>1, <4>2 DEF TopicHolds, On, Topic
      <4>4. LatestEffect(Topic(i)) \in effect \cup {0}
        BY <4>3 DEF LatestEffect
      <4> QED BY <3>2, <4>4, PeripheralsAssumption DEF Changes
    <3>5. LatestEffect(Topic(i))' = i
      <4>1. /\ {k \in effect' : Topic(k)' = Topic(i)} = {k \in effect : Topic(k) = Topic(i)} \cup {i}
            /\ i \in Nat /\ i > 0
        BY <2>1, PeripheralsAssumption DEF Topic, Changes
      <4>2. \A k \in {k \in effect' : Topic(k)' = Topic(i)} : k <= i /\ k \in Nat
        BY <3>2, <4>1, PeripheralsAssumption DEF Changes
      <4>3. Topic(i)' = Topic(i)
        BY <2>1 DEF Topic
      <4>4. ASSUME NEW k \in {k \in effect' : Topic(k)' = Topic(i)} \cup {0},
                   \A j \in {j \in effect' : Topic(j)' = Topic(i)} : j <= k
            PROVE  k = i
        BY <4>1, <4>2, <4>4
      <4> QED BY <4>1, <4>2, <4>3, <4>4 DEF LatestEffect
    <3>6. \A t \in Topics : t # Topic(i) => LatestEffect(t)' = LatestEffect(t)
      <4>1. \A t \in Topics : t # Topic(i) =>
              {k \in effect' : Topic(k)' = t} = {k \in effect : Topic(k) = t}
        BY <2>1 DEF Topic
      <4> QED BY <4>1 DEF LatestEffect
    <3>7. /\ retained'[Topic(i)] = push[i].op
          /\ \A t \in Topics : t # Topic(i) => retained'[t] = retained[t]
      BY <1>0, <2>1, <3>3 DEF TypeOK, Topics
    <3>8. Topic(i)' = Topic(i)
      BY <2>1 DEF Topic
    <3>9. shown' = [shown EXCEPT ![Topic(i)] = i]
      BY <3>3, <3>5, <3>6, <3>8
    <3>10. copy' = [copy EXCEPT ![Topic(i)] = Log[i].value]
      BY <3>3, <3>7
    <3>11. Copy!Show(i, Topic(i))
      BY <2>3, <3>1, <3>3, <3>4, <3>9, <3>10 DEF Copy!Show
    <3> QED BY <3>1, <3>3, <3>11 DEF Copy!Next
  <2> QED BY <1>0, <2>2, <2>3
<1>13. ASSUME NEW i \in Changes, PublishFails(i)
       PROVE  [Copy!Next]_(Copy!mvars)
  <2>1. /\ outcome[i] = "open" /\ UNCHANGED <<rows, push>> /\ upset'
        /\ \E x \in {"open", "abandoned"} : outcome' = [outcome EXCEPT ![i] = x]
        /\ retained' \in {retained, [retained EXCEPT ![Topic(i)] = push[i].op]}
    BY <1>13 DEF PublishFails, Box!Fail, Error
  <2>2. \A j \in Changes : outcome'[j] = "none" <=> outcome[j] = "none"
    BY <1>0, <2>1 DEF TypeOK
  <2> QED BY <1>11, <2>1, <2>2
<1>14. ASSUME NEW i \in Changes, MarkCompleted(i)
       PROVE  [Copy!Next]_(Copy!mvars)
  <2>1. /\ outcome[i] = "open" /\ outcome' = [outcome EXCEPT ![i] = "done"]
        /\ UNCHANGED <<rows, push, effect, retained>>
    BY <1>14 DEF MarkCompleted, Box!Confirm
  <2>2. \A j \in Changes : outcome'[j] = "none" <=> outcome[j] = "none"
    BY <1>0, <2>1 DEF TypeOK
  <2>3. UNCHANGED <<source, Log>>
    BY <2>1, <2>2 DEF Occupied, Active, Log, Topic, Seen
  <2>4. UNCHANGED <<shown, copy>>
    BY <2>1 DEF LatestEffect, Topic, Seen
  <2> QED BY <1>1, <2>3, <2>4
<1>15. ASSUME NEW c \in Clients, Refuse(c) \/ PublishSchedule(c) \/ PublishMode(c)
       PROVE  [Copy!Next]_(Copy!mvars)
  BY <1>3, <1>15 DEF Refuse, PublishSchedule, PublishMode, eventVars
<1>16. ASSUME NEW c \in Clients, NEW d \in Devices, BeginRegister(c, d)
       PROVE  [Copy!Next]_(Copy!mvars)
  BY <1>3, <1>16 DEF BeginRegister, eventVars
<1>17. ASSUME NEW c \in Clients, NEW r \in Changes, BeginDelete(c, r)
       PROVE  [Copy!Next]_(Copy!mvars)
  BY <1>3, <1>17 DEF BeginDelete, eventVars
<1>18. ASSUME NEW c \in Clients, NEW r \in Changes, NEW m \in Modes, UpdateMode(c, r, m)
       PROVE  [Copy!Next]_(Copy!mvars)
  BY <1>3, <1>18 DEF UpdateMode, eventVars
<1>19. CASE Crash \/ UNCHANGED vars
  BY <1>3, <1>19 DEF Crash, vars, tableVars, eventVars
<1>20. ASSUME NEW d \in Devices, DeleteDevice(d)
       PROVE  [Copy!Next]_(Copy!mvars)
  BY <1>3, <1>20 DEF DeleteDevice, eventVars
<1> QED BY <1>5, <1>6, <1>8, <1>9, <1>10, <1>12, <1>13, <1>14, <1>15, <1>16, <1>17, <1>18, <1>19, <1>20, Steps

-----------------------------------------------------------------------------
(* The theorems *)

LEMMA InitInv ==
  ASSUME Init
  PROVE  PeripheralsInv /\ ModeInv /\ ScheduleInv /\ OrderInv /\ TopicInv
<1>0. /\ \A c \in Clients : req[c] = IdleReq
      /\ \A i \in Changes : rows[i] = NoRow /\ outcome[i] = "none" /\ failures[i] = 0
      /\ effect = {} /\ stamps = 0 /\ errors = 0 /\ upset = FALSE
      /\ \A d \in Devices, p \in Ports : retained[<<d, p>>] = None
      /\ \A t \in Places : told[t] = Unset
  BY DEF Init, Box!Init
<1>1. TypeOK
  <2>1. MaxChanges \in Nat /\ MaxErrors \in Nat /\ MaxFailures \in Nat
    BY PeripheralsAssumption
  <2>2. /\ Unset \in Told
        /\ alive \subseteq Devices /\ rows \in [Changes -> Row \cup {NoRow}]
        /\ push \in [Changes -> {NoPush} \cup Push]
    BY DEF Init, Unset, Told, Modes
  <2>3. told \in [Places -> Told]
    BY <2>2 DEF Init
  <2>4. req \in [Clients -> Req]
    BY RowFacts DEF Init
  <2>5. /\ outcome \in [Changes -> {"none", "open", "done", "abandoned"}]
        /\ failures \in [Changes -> 0..MaxFailures] /\ effect \subseteq Changes
        /\ stamps \in 0..MaxChanges /\ upset \in BOOLEAN /\ errors \in 0..MaxErrors
    <3>1. 0 \in 0..MaxFailures /\ 0 \in 0..MaxChanges /\ 0 \in 0..MaxErrors
      BY <2>1
    <3>2. /\ stamps = 0 /\ upset = FALSE /\ errors = 0 /\ effect = {}
          /\ outcome = [i \in Changes |-> "none"] /\ failures = [i \in Changes |-> 0]
      BY DEF Init, Box!Init
    <3> QED BY <3>1, <3>2
  <2>6. retained \in [Devices \X Ports -> {None, "create", "delete"}]
    BY DEF Init
  <2> QED BY <2>2, <2>3, <2>4, <2>5, <2>6 DEF TypeOK
<1>2. EventInv
  BY <1>0 DEF EventInv
<1>3. RequestInv
  BY <1>0, RowFacts DEF RequestInv
<1>4. ActiveUnique /\ PlaceInv
  BY <1>0 DEF ActiveUnique, PlaceInv, Active
<1>5. ModeInv /\ ScheduleInv
  BY <1>0, RowFacts DEF ModeInv, ScheduleInv, Active
<1>6. OrderInv /\ TopicInv
  BY <1>0, RowFacts DEF OrderInv, TopicInv, NewestTells, TopicHolds, HasRow, Active, Posted
<1> QED BY <1>1, <1>2, <1>3, <1>4, <1>5, <1>6 DEF PeripheralsInv

(* Whatever the requests, the runner and crashes do, the inductive         *)
(* invariant holds.                                                        *)
THEOREM InvCorrect ==
  Spec => [](PeripheralsInv /\ ModeInv /\ ScheduleInv /\ OrderInv /\ TopicInv)
<1>1. ASSUME PeripheralsInv, ModeInv, ScheduleInv, OrderInv, TopicInv, [Next]_vars
      PROVE  (PeripheralsInv /\ ModeInv /\ ScheduleInv /\ OrderInv /\ TopicInv)'
  BY <1>1, TypeInductive, EventInductive, RequestInductive, UniqueInductive, PlaceInductive,
     ModeInductive, ScheduleInductive, OrderInductive, TopicInductive DEF PeripheralsInv
<1> QED BY <1>1, InitInv, PTL DEF Spec

(* Rows, requests and events keep their shape. *)
THEOREM TypeCorrect == Spec => []TypeOK
<1>1. PeripheralsInv => TypeOK
  BY DEF PeripheralsInv
<1> QED BY <1>1, InvCorrect, PTL

(* The unique indexes of the migrations keep names and pins of a device    *)
(* apart, for any number of racing registrations, renames and deletions.   *)
THEOREM UniqueCorrect == Spec => []ActiveUnique
<1>1. PeripheralsInv => ActiveUnique
  BY DEF PeripheralsInv
<1> QED BY <1>1, InvCorrect, PTL

(* SetControlMode's row lock keeps a device in the mode that is stored,    *)
(* and SetSchedule the schedule as long as requests do not overlap.        *)
THEOREM DeviceCorrect == Spec => []DeviceMatchesRow
<1>1. ASSUME PlaceInv, ModeInv, ScheduleInv
      PROVE  DeviceMatchesRow
  <2>1. ASSUME NEW r \in Changes, Active(r), errors = 0, ~Locked(r)
        PROVE  ModeAgrees(r)
    <3>1. \A c \in Clients : req[c].at = "commit_mode" => req[c].row # r
      BY <2>1 DEF Locked
    <3> QED BY <1>1, <2>1, <3>1 DEF ModeInv
  <2>2. ASSUME NEW r \in Changes, Active(r), ~upset, \A c \in Clients : req[c] = IdleReq
        PROVE  ScheduleAgrees(r)
    BY <1>1, <2>2, RowFacts DEF ScheduleInv
  <2>3. \A r \in Changes : Active(r) => Place(r) = Spot(r)
    BY <1>1 DEF PlaceInv
  <2> QED BY <2>1, <2>2, <2>3 DEF DeviceMatchesRow, ModeAgrees, ScheduleAgrees
<1>2. PeripheralsInv /\ ModeInv /\ ScheduleInv /\ OrderInv /\ TopicInv => DeviceMatchesRow
  BY <1>1 DEF PeripheralsInv
<1> QED BY <1>2, InvCorrect, PTL

(* The events that registrations and deletions commit leave the topic of   *)
(* every port as the table has it once they are settled.                   *)
THEOREM TopicCorrect == Spec => []TopicMatchesRows
<1>1. ASSUME TypeOK, EventInv, OrderInv, TopicInv
      PROVE  TopicMatchesRows
  <2>1. SUFFICES ASSUME ~upset, \A i \in Changes : outcome[i] # "open",
                        NEW d \in Devices, NEW p \in Ports
                 PROVE  (retained[<<d, p>>] = "create") <=> HasRow(d, p)
    BY DEF TopicMatchesRows, HasRow
  <2>2. \A i \in Changes : Posted(i) <=> i \in effect
    BY <1>1, <2>1 DEF TypeOK, EventInv, OrderInv, Posted
  <2>3. effect \subseteq Changes /\ NewestTells(d, p) /\ TopicHolds(d, p)
    BY <1>1, <2>1 DEF TypeOK, TopicInv
  <2>4. CASE \A i \in Changes : Posted(i) => ~On(i, d, p)
    BY <2>2, <2>3, <2>4 DEF NewestTells, TopicHolds, None
  <2>5. CASE \E i \in Changes : Posted(i) /\ On(i, d, p)
    <3>1. PICK i \in Changes : /\ Posted(i) /\ On(i, d, p)
                               /\ \A j \in Changes : Posted(j) /\ On(j, d, p) => j <= i
                               /\ push[i].op = "create" <=> HasRow(d, p)
      BY <2>3, <2>5 DEF NewestTells
    <3>2. PICK j \in effect : /\ On(j, d, p) /\ \A k \in effect : On(k, d, p) => k <= j
                              /\ retained[<<d, p>>] = push[j].op
      BY <2>2, <2>3, <3>1 DEF TopicHolds
    <3>3. i = j
      BY <2>2, <2>3, <3>1, <3>2, PeripheralsAssumption DEF Changes
    <3> QED BY <3>1, <3>2, <3>3
  <2> QED BY <2>4, <2>5
<1>2. PeripheralsInv /\ ModeInv /\ ScheduleInv /\ OrderInv /\ TopicInv => TopicMatchesRows
  BY <1>1 DEF PeripheralsInv
<1> QED BY <1>2, InvCorrect, PTL

(* Registrations, deletions and their pushes implement Mirror: the log     *)
(* says of every port what the table says, and a topic shows what was      *)
(* logged for it, in order unless requests or events overlap or a call     *)
(* fails.                                                                  *)
THEOREM MirrorCorrect == Spec => ImplementsMirror
<1>1. Init => Copy!Init
  BY MirrorInit
<1>2. PeripheralsInv /\ ModeInv /\ ScheduleInv /\ OrderInv /\ TopicInv /\ [Next]_vars
      => [Copy!Next]_(Copy!mvars)
  BY MirrorStep
<1> QED BY <1>1, <1>2, InvCorrect, PTL DEF Spec, ImplementsMirror, Copy!Spec
=============================================================================
