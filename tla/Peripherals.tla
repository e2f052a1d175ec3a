---------------------------- MODULE Peripherals ----------------------------
(***************************************************************************)
(* Peripherals of devices (internal/peripheral): registration on a port of *)
(* the device's model, renaming, schedules, control modes and deletion,    *)
(* and what the device is told over MQTT.                                  *)
(*                                                                         *)
(* Registration and deletion commit with a peripheral.push event; the      *)
(* outbox is used through its contract Delivery and the push is retained   *)
(* on the topic of the kind and pin.  A control mode is published before   *)
(* its transaction commits, a schedule after.  Deleting a device leaves    *)
(* its peripherals as they are.  Every row is an actuator: a sensor has no *)
(* mode, and only SetControlMode, which refuses it, tells the difference.  *)
(* SendCommand publishes what a client sends, stores nothing and is left   *)
(* out: told is what the server says of its own rows.  Modes and schedules *)
(* go to the address of the kind and pin too: a row that takes the place   *)
(* of a deleted one finds there what was sent for that one.                *)
(*                                                                         *)
(* Operators named after another one with a suffix (ConflictNoPin, ...)    *)
(* are wrong variants, not in Next, to test that the properties notice.    *)
(***************************************************************************)
EXTENDS Integers

CONSTANTS
  Clients,      \* concurrent requests
  Devices,      \* devices of one model
  Ports,        \* device_model_ports of the model; each has its own kind-pin
  PinOf,        \* the pin of a port; two kinds may share one
  Names,        \* peripheral names
  Schedules,    \* schedules
  MaxChanges,   \* bound of the model: registrations and deletions begun
  MaxFailures,  \* maxAttempts of the outbox runner
  MaxErrors     \* bound of the model: failed publishes and writes, crashes

ASSUME PeripheralsAssumption ==
  /\ DOMAIN PinOf = Ports
  /\ "none" \notin Devices /\ "left" \notin Schedules
  /\ MaxChanges \in Nat /\ MaxErrors \in Nat /\ MaxFailures \in Nat \ {0}

Changes == 1..MaxChanges

VARIABLES
  alive,     \* devices: deleted_at is null
  rows,      \* peripherals: the rows that are not deleted, by created_at
  told,      \* device: mode and schedule it was last sent for each kind and
             \* pin; Left: a value sent for a row that is deleted
  req,       \* the state of each request
  stamps,    \* the created_at handed out so far
  push,      \* outbox_events: device, port and op of each event
  outcome, failures, effect,  \* the events, by Delivery
  retained,  \* broker: the op retained for each device and port
  upset,     \* history: requests overlapped, an event overtook an older
             \* one, or a call failed
  errors     \* bound: errors so far

Box == INSTANCE Delivery WITH Items <- Changes

eventVars  == <<outcome, failures, effect>>
tableVars  == <<alive, rows>>
vars == <<tableVars, told, req, stamps, push, eventVars, retained, upset, errors>>

None      == "none"
Places    == Devices \X Ports
Left      == "left"
Unset     == [mode |-> "automatic", schedule |-> None]
NoPush    == [device |-> None, port |-> None, op |-> None]
IdleReq   == [at |-> "idle", row |-> 0, id |-> 0, body |-> None]
Modes     == {"automatic", "manual"}

NoRow == [device |-> None, name |-> None, port |-> None,
          mode |-> "automatic", schedule |-> None]
Row   == [device: Devices, name: Names, port: Ports,
          mode: Modes, schedule: Schedules \cup {None}]
Push  == [device: Devices, port: Ports, op: {"create", "delete"}]
Told  == [mode: Modes \cup {Left}, schedule: Schedules \cup {None, Left}]
Req   == [at: {"idle", "register", "delete", "publish_mode", "commit_mode", "publish_schedule"},
          row: 0..MaxChanges, id: 0..MaxChanges,
          body: Devices \cup Schedules \cup Modes \cup {None}]

TypeOK ==
  /\ alive \subseteq Devices
  /\ rows \in [Changes -> Row \cup {NoRow}]
  /\ told \in [Places -> Told]
  /\ req \in [Clients -> Req]
  /\ stamps \in 0..MaxChanges
  /\ push \in [Changes -> {NoPush} \cup Push]
  /\ outcome \in [Changes -> {"none", "open", "done", "abandoned"}]
  /\ failures \in [Changes -> 0..MaxFailures] /\ effect \subseteq Changes
  /\ retained \in [Devices \X Ports -> {None, "create", "delete"}]
  /\ upset \in BOOLEAN
  /\ errors \in 0..MaxErrors

Init ==
  /\ alive = Devices
  /\ rows = [r \in Changes |-> NoRow] /\ told = [t \in Places |-> Unset]
  /\ req = [c \in Clients |-> IdleReq]
  /\ stamps = 0
  /\ push = [i \in Changes |-> NoPush]
  /\ Box!Init
  /\ retained = [t \in Devices \X Ports |-> None]
  /\ upset = FALSE
  /\ errors = 0

Error   == errors < MaxErrors /\ errors' = errors + 1 /\ upset' = TRUE
NoError == UNCHANGED <<upset, errors>>

-----------------------------------------------------------------------------
(* The table *)

(* Every statement filters on deleted_at, so a deleted row is left out. *)
Active(r) == rows[r] # NoRow

(* WHERE p.deleted_at IS NULL AND d.deleted_at IS NULL *)
Reachable(r) == Active(r) /\ rows[r].device \in alive

(* A row shares its stamp with the event of its registration, which keeps  *)
(* its device and port when the row is deleted.                            *)
Place(r) == <<push[r].device, push[r].port>>

(* The row lock that an open SetControlMode transaction holds. *)
Locked(r) == \E c \in Clients :
  req[c].row = r /\ req[c].at \in {"publish_mode", "commit_mode"}

(* The three partial unique indexes. *)
NameTaken(d, n) == \E r \in Changes : Active(r) /\ rows[r].device = d /\ rows[r].name = n
PinTaken(d, p) ==
  \E r \in Changes : Active(r) /\ rows[r].device = d /\ PinOf[rows[r].port] = PinOf[p]
PortTaken(p) == \E r \in Changes : Active(r) /\ rows[r].port = p

ConflictNoPin(d, n, p) == NameTaken(d, n) \/ PortTaken(p)
Conflict(d, n, p) == NameTaken(d, n) \/ PinTaken(d, p) \/ PortTaken(p)

-----------------------------------------------------------------------------
(* Requests *)

Busy(c) == \E d \in Clients \ {c} : req[d] # IdleReq

Begin(c, at, row, id, body) ==
  /\ req[c] = IdleReq
  /\ req' = [req EXCEPT ![c] = [at |-> at, row |-> row, id |-> id, body |-> body]]
  /\ upset' = (upset \/ Busy(c))

End(c) == req' = [req EXCEPT ![c] = IdleReq]

AnnounceCreate(i, d, p, op) ==
  /\ push' = [push EXCEPT ![i] = [device |-> d, port |-> p, op |-> "create"]]
  /\ Box!Post(i)

Announce(i, d, p, op) ==
  /\ push' = [push EXCEPT ![i] = [device |-> d, port |-> p, op |-> op]]
  /\ Box!Post(i)

(* The transaction begins and finds the device; it does not lock it. *)
BeginRegister(c, d) ==
  /\ d \in alive
  /\ stamps < MaxChanges
  /\ stamps' = stamps + 1
  /\ Begin(c, "register", 0, stamps', d)
  /\ UNCHANGED <<alive, rows, told, push, eventVars, retained, errors>>

(* The INSERT passes the indexes and commits with the event; what the      *)
(* request asks for is read only here.                                     *)
Register(c, n, p) ==
  /\ req[c].at = "register"
  /\ LET d == req[c].body
     IN  /\ ~Conflict(d, n, p)
         /\ rows' = [rows EXCEPT ![req[c].id] =
              [device |-> d, name |-> n, port |-> p, mode |-> "automatic", schedule |-> None]]
         /\ Announce(req[c].id, d, p, "create")
  /\ End(c)
  /\ UNCHANGED <<alive, told, stamps, retained, upset, errors>>

BeginDelete(c, r) ==
  /\ Reachable(r)
  /\ stamps < MaxChanges
  /\ stamps' = stamps + 1
  /\ Begin(c, "delete", r, stamps', None)
  /\ UNCHANGED <<alive, rows, told, push, eventVars, retained, errors>>

(* Soft delete and event in one transaction.  Nothing is sent: the device  *)
(* keeps what it has, but no row says any more what that should be.        *)
DeleteRow(c) ==
  /\ req[c].at = "delete"
  /\ LET r == req[c].row
     IN  /\ Reachable(r) /\ ~Locked(r)
         /\ rows' = [rows EXCEPT ![r] = NoRow]
         /\ told' = [told EXCEPT ![Place(r)] = [mode |-> Left, schedule |-> Left]]
         /\ Announce(req[c].id, rows[r].device, rows[r].port, "delete")
  /\ End(c)
  /\ UNCHANGED <<alive, stamps, retained, upset, errors>>

(* A conflict, a row that is gone, or a database error before the commit. *)
Refuse(c) ==
  /\ End(c)
  /\ UNCHANGED <<alive, rows, told, stamps, push, eventVars, retained, upset, errors>>

(* UpdatePeripheral: one statement; the port never changes. *)
Rename(r, n) ==
  /\ Reachable(r) /\ ~Locked(r)
  /\ ~NameTaken(rows[r].device, n)
  /\ rows' = [rows EXCEPT ![r].name = n]
  /\ UNCHANGED <<alive, told, req, stamps, push, eventVars, retained, upset, errors>>

(* SetSchedule: the UPDATE commits, the publish follows. *)
StoreSchedule(c, r, s) ==
  /\ Reachable(r) /\ ~Locked(r)
  /\ rows' = [rows EXCEPT ![r].schedule = s]
  /\ Begin(c, "publish_schedule", r, 0, s)
  /\ UNCHANGED <<alive, told, stamps, push, eventVars, retained, errors>>

(* The error of the publish is logged; the request succeeds. *)
PublishSchedule(c) ==
  /\ req[c].at = "publish_schedule"
  /\ LET new == [told EXCEPT ![Place(req[c].row)].schedule = req[c].body]
     IN  \/ told' = new /\ NoError
         \/ told' \in {told, new} /\ Error
  /\ End(c)
  /\ UNCHANGED <<alive, rows, stamps, push, eventVars, retained>>

UpdateModeUnlocked(c, r, m) ==
  /\ Reachable(r)
  /\ Begin(c, "publish_mode", r, 0, m)
  /\ UNCHANGED <<alive, rows, told, stamps, push, eventVars, retained, errors>>

(* SetControlMode: the UPDATE takes the row's lock. *)
UpdateMode(c, r, m) ==
  /\ Reachable(r) /\ ~Locked(r)
  /\ Begin(c, "publish_mode", r, 0, m)
  /\ UNCHANGED <<alive, rows, told, stamps, push, eventVars, retained, errors>>

(* A publish that fails may have been sent; the transaction rolls back. *)
PublishMode(c) ==
  /\ req[c].at = "publish_mode"
  /\ LET new == [told EXCEPT ![Place(req[c].row)].mode = req[c].body]
     IN  \/ told' = new /\ req' = [req EXCEPT ![c].at = "commit_mode"] /\ NoError
         \/ told' \in {told, new} /\ End(c) /\ Error
  /\ UNCHANGED <<alive, rows, stamps, push, eventVars, retained>>

CommitMode(c) ==
  /\ req[c].at = "commit_mode"
  /\ \/ rows' = [rows EXCEPT ![req[c].row].mode = req[c].body] /\ NoError
     \/ Error /\ UNCHANGED rows
  /\ End(c)
  /\ UNCHANGED <<alive, told, stamps, push, eventVars, retained>>

(* The server stops; open transactions roll back. *)
Crash ==
  /\ Error
  /\ req' = [c \in Clients |-> IdleReq]
  /\ UNCHANGED <<alive, rows, told, stamps, push, eventVars, retained>>

(* device.Service.Delete: the peripherals stay. *)
DeleteDevice(d) ==
  /\ d \in alive
  /\ alive' = alive \ {d}
  /\ UNCHANGED <<rows, told, req, stamps, push, eventVars, retained, upset, errors>>

-----------------------------------------------------------------------------
(* The outbox runner and PeripheralPushProcessor.Process *)

TopicByPin(i) ==
  <<push[i].device, CHOOSE p \in Ports : PinOf[p] = PinOf[push[i].port]>>
Topic(i) == <<push[i].device, push[i].port>>

Overtakes(i) == \E j \in Changes : j < i /\ outcome[j] = "open" /\ j \notin effect

(* PublishRetained.  A second publish of an event means that its result    *)
(* was not written.                                                        *)
Publish(i) ==
  /\ Box!Act(i)
  /\ IF i \in effect THEN Error ELSE upset' = (upset \/ Overtakes(i)) /\ UNCHANGED errors
  /\ retained' = [retained EXCEPT ![Topic(i)] = push[i].op]
  /\ UNCHANGED <<alive, rows, told, req, stamps, push>>

PublishFails(i) ==
  /\ Box!Fail(i)
  /\ Error
  /\ retained' \in {retained, [retained EXCEPT ![Topic(i)] = push[i].op]}
  /\ UNCHANGED <<alive, rows, told, req, stamps, push>>

MarkCompleted(i) ==
  /\ Box!Confirm(i)
  /\ UNCHANGED <<alive, rows, told, req, stamps, push, retained, upset, errors>>

-----------------------------------------------------------------------------
(* The handlers *)

CreatePeripheralHandler(c) ==
  \/ \E d \in Devices : BeginRegister(c, d)
  \/ \E n \in Names, p \in Ports : Register(c, n, p)
  \/ req[c].at = "register" /\ Refuse(c)

SetPeripheralScheduleHandler(c) ==
  \/ \E r \in Changes, s \in Schedules : StoreSchedule(c, r, s)
  \/ PublishSchedule(c)

DeletePeripheralHandler(c) ==
  \/ \E r \in Changes : BeginDelete(c, r)
  \/ DeleteRow(c)
  \/ req[c].at = "delete" /\ Refuse(c)

PatchPeripheralHandler == \E r \in Changes, n \in Names : Rename(r, n)

SetControlModeHandler(c) ==
  \/ \E r \in Changes, m \in Modes : UpdateMode(c, r, m)
  \/ PublishMode(c) \/ CommitMode(c)

Next ==
  \/ \E c \in Clients :
       \/ CreatePeripheralHandler(c) \/ DeletePeripheralHandler(c)
       \/ SetPeripheralScheduleHandler(c) \/ SetControlModeHandler(c)
  \/ PatchPeripheralHandler
  \/ \E d \in Devices : DeleteDevice(d)
  \/ \E i \in Changes : Publish(i) \/ PublishFails(i) \/ MarkCompleted(i)
  \/ Crash

Spec == Init /\ [][Next]_vars

-----------------------------------------------------------------------------
(* Properties *)

(* Registrations race with each other, with renames and with deletions     *)
(* that free a name or a pin: active peripherals of a device never share a *)
(* name or a pin, not even two kinds that the model puts on one pin.       *)
ActiveUnique ==
  \A r, s \in Changes :
    r # s /\ Active(r) /\ Active(s) /\ rows[r].device = rows[s].device
    => rows[r].name # rows[s].name /\ PinOf[rows[r].port] # PinOf[rows[s].port]

(* The row lock is held across the publish of a mode, so however requests  *)
(* race, the device was last sent the mode the table holds, unless a       *)
(* publish or a commit failed.  A schedule is published after its commit   *)
(* without a lock: between requests the device has the stored schedule     *)
(* unless requests overlapped or a call failed.  A registration sends      *)
(* neither: until the device is sent the values of a new peripheral, it    *)
(* may hold those of a deleted one, and the row has those of its creation. *)
DeviceMatchesRow ==
  \A r \in Changes : Active(r) =>
    LET now == told[Place(r)]
    IN  /\ errors = 0 /\ ~Locked(r)
           => rows[r].mode = IF now.mode = Left THEN "automatic" ELSE now.mode
        /\ ~upset /\ (\A c \in Clients : req[c] = IdleReq)
           => rows[r].schedule = IF now.schedule = Left THEN None ELSE now.schedule

(* Once the events are settled the topic of a port says create exactly if  *)
(* the device has an active peripheral there, although a new peripheral    *)
(* reuses the topic of a deleted one, unless requests overlapped, an event *)
(* overtook an older one or a call failed.                                 *)
TopicMatchesRows ==
  /\ ~upset
  /\ \A i \in Changes : outcome[i] # "open"
  => \A d \in Devices, p \in Ports :
       (retained[<<d, p>>] = "create")
       <=> \E r \in Changes : Active(r) /\ rows[r].device = d /\ rows[r].port = p

(* The topics of a device's ports mirror the table: "create" where it has  *)
(* an active peripheral, nothing or "delete" where it has none.            *)
Topics  == Devices \X Ports
NoTopic == <<None, None>>

Seen(op) == IF op = "create" THEN "present" ELSE "absent"

Occupied(t) == \E r \in Changes : Active(r) /\ <<rows[r].device, rows[r].port>> = t

LatestEffect(t) ==
  LET shownFor == {i \in effect : Topic(i) = t}
  IN  CHOOSE i \in shownFor \cup {0} : \A j \in shownFor : j <= i

Log == [i \in Changes |->
  IF outcome[i] = "none" THEN [topic |-> NoTopic, value |-> "absent"]
  ELSE [topic |-> Topic(i), value |-> Seen(push[i].op)]]

Copy == INSTANCE Mirror WITH
  Values <- {"present", "absent"}, Blank <- "absent", Versions <- Changes,
  source <- [t \in Topics |-> IF Occupied(t) THEN "present" ELSE "absent"], log <- Log,
  shown <- [t \in Topics |-> LatestEffect(t)],
  copy <- [t \in Topics |-> Seen(retained[t])], calm <- ~upset

(* Whatever overlaps, overtakes or fails, a topic only shows what an event *)
(* of its port said, and every registration and deletion posts the event   *)
(* that says what it did; otherwise the events are shown in their order.   *)
ImplementsMirror == Copy!Spec

-----------------------------------------------------------------------------
(* What the documentation says, see the README *)

(* docs/api.md: a registration is refused because an "active peripheral    *)
(* with the same pin already exists", docs/database.md: the row is a       *)
(* "physical peripheral attached to a device" and a deleted one's "port    *)
(* slot is released": a pin that no active peripheral of the device uses   *)
(* can be registered.                                                      *)
FreePinCanBeUsed ==
  \A d \in alive, n \in Names, p \in Ports :
    ~NameTaken(d, n) /\ ~PinTaken(d, p) => ~Conflict(d, n, p)
=============================================================================
