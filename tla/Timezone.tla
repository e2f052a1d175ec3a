------------------------------ MODULE Timezone ------------------------------
(***************************************************************************)
(* The timezone of an account and the configuration of its devices         *)
(* (internal/account, internal/provisioning/activation.go).                *)
(*                                                                         *)
(* A change lists the user's devices, then begins a transaction that       *)
(* updates the account and inserts one device.config_push event for every  *)
(* listed device.  An activation reads the timezone, then begins the       *)
(* transaction that stores the credentials and inserts the device's first  *)
(* config push.  created_at of an event is the time its transaction began: *)
(* a change or activation that begins later may commit earlier.  The       *)
(* outbox is used through its contract Delivery; an event retains the      *)
(* POSIX rule of its timezone on the device's config topic.                *)
(*                                                                         *)
(* Operators named after another one with a suffix (SignInResets, ...) are *)
(* wrong variants, not in Next, to test that the properties notice.        *)
(***************************************************************************)
EXTENDS Integers

CONSTANTS
  Clients,      \* concurrent PATCH /api/me requests
  Devices,      \* devices of the user
  Zones,        \* IANA names time.LoadLocation accepts
  Default,      \* UTC, the column's default and the fallback of Activate
  Table,        \* ianaToPostfix: the POSIX rule of the zones it lists
  FallbackRule, \* UTC0
  MaxChanges,   \* bound of the model: transactions begun
  MaxFailures,  \* maxAttempts of the outbox runner
  MaxErrors,    \* bound of the model: failed reads and publishes, lost results
  None

ASSUME TimezoneAssumption ==
  /\ Default \in Zones /\ None \notin Zones
  /\ DOMAIN Table \subseteq Zones
  /\ MaxChanges \in Nat /\ MaxErrors \in Nat /\ MaxFailures \in Nat \ {0}

Changes == 1..MaxChanges
Events  == Changes \X Devices

VARIABLES
  zone,      \* accounts.timezone, None without a row
  dev,       \* devices: "bare" before the activation transaction commits
  req,       \* the state of each change request
  act,       \* the state of each device's activation
  stamps,    \* the created_at handed out so far
  payload,   \* outbox_events: the timezone in the events of a transaction
  outcome, failures, effect,  \* the events, by Delivery
  retained,  \* broker: the rule retained on fishhub/<device>/config
  missed,    \* history: devices whose newest event need not be right
  late,      \* history: devices with a failed or an out of order publish
  errors     \* bound: errors so far

Box == INSTANCE Delivery WITH Items <- Events

eventVars == <<outcome, failures, effect>>
vars == <<zone, dev, req, act, stamps, payload, eventVars, retained, missed, late, errors>>

Idle     == [at |-> "idle", list |-> {}, id |-> 0]
Inactive == [at |-> "none", zone |-> None, id |-> 0, stale |-> FALSE]

posixTZ(z) == IF z \in DOMAIN Table THEN Table[z] ELSE FallbackRule
Rules == {posixTZ(z) : z \in Zones}

TypeOK ==
  /\ zone \in Zones \cup {None}
  /\ dev \in [Devices -> {"absent", "bare", "active", "deleted"}]
  /\ req \in [Clients -> [at: {"idle", "listed", "begun"}, list: SUBSET Devices,
                          id: 0..MaxChanges]]
  /\ act \in [Devices -> [at: {"none", "claimed", "read", "begun"}, zone: Zones \cup {None},
                          id: 0..MaxChanges, stale: BOOLEAN]]
  /\ \A d \in Devices : act[d].at \in {"read", "begun"} => act[d].zone \in Zones
  /\ stamps \in 0..MaxChanges
  /\ payload \in [Changes -> Zones \cup {None}]
  /\ \A e \in Events : outcome[e] # "none" => payload[e[1]] \in Zones
  /\ outcome \in [Events -> {"none", "open", "done", "abandoned"}]
  /\ failures \in [Events -> 0..MaxFailures] /\ effect \subseteq Events
  /\ retained \in [Devices -> Rules \cup {None}]
  /\ missed \subseteq Devices /\ late \subseteq Devices
  /\ errors \in 0..MaxErrors

Init ==
  /\ zone \in {None, Default}
  /\ dev = [d \in Devices |-> "absent"]
  /\ req = [c \in Clients |-> Idle] /\ act = [d \in Devices |-> Inactive]
  /\ stamps = 0 /\ payload = [i \in Changes |-> None]
  /\ Box!Init
  /\ retained = [d \in Devices |-> None]
  /\ missed = {} /\ late = {}
  /\ errors = 0

Error == errors < MaxErrors /\ errors' = errors + 1

Posted(d) == {i \in Changes : outcome[<<i, d>>] # "none"}

(* No event of the device has a later created_at than i. *)
Newest(i, d) == \A j \in Posted(d) : j <= i

(* The INSERTs of a transaction, all with the created_at i: Box!Post of    *)
(* several events at once.                                                 *)
Insert(i, ds, z) ==
  /\ payload' = [payload EXCEPT ![i] = z]
  /\ outcome' = [e \in Events |-> IF e[1] = i /\ e[2] \in ds THEN "open" ELSE outcome[e]]
  /\ UNCHANGED <<failures, effect>>

BeginTx ==
  /\ stamps < MaxChanges
  /\ stamps' = stamps + 1

-----------------------------------------------------------------------------
(* Sign-in: OnUserVerified, the Upsert of the account *)

SignInResets ==
  /\ zone' = Default
  /\ UNCHANGED <<dev, req, act, stamps, payload, eventVars, retained, missed, late, errors>>

(* A conflict updates email and name and leaves the timezone alone. *)
SignIn ==
  /\ zone' = IF zone = None THEN Default ELSE zone
  /\ UNCHANGED <<dev, req, act, stamps, payload, eventVars, retained, missed, late, errors>>

-----------------------------------------------------------------------------
(* PATCH /api/me: AccountService.UpdateTimezone *)

(* ListIDsByUserID, before the transaction: every row that is not deleted. *)
ListDevices(c) ==
  /\ req[c] = Idle
  /\ req' = [req EXCEPT ![c] = [at |-> "listed", id |-> 0,
       list |-> {d \in Devices : dev[d] \in {"bare", "active"}}]]
  /\ UNCHANGED <<zone, dev, act, stamps, payload, eventVars, retained, missed, late, errors>>

BeginChange(c) ==
  /\ req[c].at = "listed"
  /\ BeginTx
  /\ req' = [req EXCEPT ![c].at = "begun", ![c].id = stamps']
  /\ UNCHANGED <<zone, dev, act, payload, eventVars, retained, missed, late, errors>>

(* The change misses a device with events that was not in its list, and    *)
(* one for which a transaction that began later has committed.             *)
MissedBy(c) ==
  {d \in Devices : IF d \in req[c].list THEN ~Newest(req[c].id, d)
                   ELSE Posted(d) # {}}

(* The UPDATE holds the row of the account until the commit; which zone    *)
(* the request asks for is read only here.                                 *)
CommitChange(c, z) ==
  /\ req[c].at = "begun"
  /\ zone # None
  /\ zone' = z
  /\ Insert(req[c].id, req[c].list, z)
  /\ missed' = MissedBy(c)
  /\ act' = [d \in Devices |->
       IF act[d].at \in {"read", "begun"} THEN [act[d] EXCEPT !.stale = TRUE] ELSE act[d]]
  /\ req' = [req EXCEPT ![c] = Idle]
  /\ UNCHANGED <<dev, stamps, retained, late, errors>>

(* No account (404), a failed statement or commit, or the server stops. *)
ChangeFails(c) ==
  /\ req[c] # Idle
  /\ req' = [req EXCEPT ![c] = Idle]
  /\ UNCHANGED <<zone, dev, act, stamps, payload, eventVars, retained, missed, late, errors>>

-----------------------------------------------------------------------------
(* POST /devices/activate: ActivationService.Activate *)

(* ClaimCode commits the device's row; Provisioning has its steps. *)
ClaimCode(d) ==
  /\ dev[d] = "absent"
  /\ dev' = [dev EXCEPT ![d] = "bare"]
  /\ act' = [act EXCEPT ![d].at = "claimed"]
  /\ UNCHANGED <<zone, req, stamps, payload, eventVars, retained, missed, late, errors>>

Read(d, z, failed) ==
  act' = [act EXCEPT ![d] = [at |-> "read", zone |-> z, id |-> 0, stale |-> failed]]

(* Without an account, or when the lookup fails, the zone is UTC. *)
GetTimezone(d) ==
  /\ act[d].at = "claimed"
  /\ \/ Read(d, IF zone = None THEN Default ELSE zone, FALSE) /\ UNCHANGED errors
     \/ Read(d, Default, TRUE) /\ Error
  /\ UNCHANGED <<zone, dev, req, stamps, payload, eventVars, retained, missed, late>>

BeginActivation(d) ==
  /\ act[d].at = "read"
  /\ BeginTx
  /\ act' = [act EXCEPT ![d].at = "begun", ![d].id = stamps']
  /\ UNCHANGED <<zone, dev, req, payload, eventVars, retained, missed, late, errors>>

(* Credentials and events in one transaction; deleted_at is not looked at. *)
CommitActivation(d) ==
  /\ act[d].at = "begun"
  /\ dev' = [dev EXCEPT ![d] = IF @ = "bare" THEN "active" ELSE @]
  /\ Insert(act[d].id, {d}, act[d].zone)
  /\ missed' = IF ~Newest(act[d].id, d) THEN missed
               ELSE IF act[d].stale THEN missed \cup {d} ELSE missed \ {d}
  /\ act' = [act EXCEPT ![d] = Inactive]
  /\ UNCHANGED <<zone, req, stamps, retained, late, errors>>

ActivationFails(d) ==
  /\ act[d] # Inactive
  /\ act' = [act EXCEPT ![d] = Inactive]
  /\ UNCHANGED <<zone, dev, req, stamps, payload, eventVars, retained, missed, late, errors>>

DeleteDevice(d) ==
  /\ dev[d] \in {"bare", "active"}
  /\ dev' = [dev EXCEPT ![d] = "deleted"]
  /\ UNCHANGED <<zone, req, act, stamps, payload, eventVars, retained, missed, late, errors>>

-----------------------------------------------------------------------------
(* The outbox runner and ConfigPushProcessor.Process *)

Rule(e) == posixTZ(payload[e[1]])

(* A newer event of the device was published before. *)
Behind(e) == \E i \in Changes : i > e[1] /\ <<i, e[2]>> \in effect

PublishUnretained(e) ==
  /\ Box!Act(e)
  /\ IF e \in effect THEN Error ELSE UNCHANGED errors
  /\ late' = IF Behind(e) THEN late \cup {e[2]}
             ELSE IF Newest(e[1], e[2]) THEN late \ {e[2]} ELSE late
  /\ UNCHANGED <<retained, zone, dev, req, act, stamps, payload, missed>>

(* PublishRetained; events may be taken up in any order.  A second publish *)
(* of an event means that its result was not written.                      *)
Publish(e) ==
  /\ Box!Act(e)
  /\ IF e \in effect THEN Error ELSE UNCHANGED errors
  /\ retained' = [retained EXCEPT ![e[2]] = Rule(e)]
  /\ late' = IF Behind(e) THEN late \cup {e[2]}
             ELSE IF Newest(e[1], e[2]) THEN late \ {e[2]} ELSE late
  /\ UNCHANGED <<zone, dev, req, act, stamps, payload, missed>>

(* A publish that fails may have been sent. *)
PublishFails(e) ==
  /\ Box!Fail(e)
  /\ Error
  /\ retained' \in {retained, [retained EXCEPT ![e[2]] = Rule(e)]}
  /\ late' = late \cup {e[2]}
  /\ UNCHANGED <<zone, dev, req, act, stamps, payload, missed>>

MarkCompleted(e) ==
  /\ Box!Confirm(e)
  /\ UNCHANGED <<zone, dev, req, act, stamps, payload, retained, missed, late, errors>>

-----------------------------------------------------------------------------

PatchMeHandler(c) ==
  \/ ListDevices(c) \/ BeginChange(c) \/ ChangeFails(c)
  \/ \E z \in Zones : CommitChange(c, z)

Activate(d) ==
  ClaimCode(d) \/ GetTimezone(d) \/ BeginActivation(d) \/ CommitActivation(d) \/ ActivationFails(d)

Process(e) == Publish(e) \/ MarkCompleted(e)

Next ==
  \/ SignIn
  \/ \E c \in Clients : PatchMeHandler(c)
  \/ \E d \in Devices : Activate(d) \/ DeleteDevice(d)
  \/ \E e \in Events : Process(e) \/ PublishFails(e)

Spec == Init /\ [][Next]_vars

(* The runner takes up every open event again until it is settled, and a   *)
(* publish returns after at most 10 s.                                     *)
FairSpec == Spec /\ \A e \in Events : WF_vars(Process(e))

-----------------------------------------------------------------------------
(* Properties *)

AccountZone == IF zone = None THEN Default ELSE zone

(* UpdateTimezone lists devices outside its transaction and Activate reads *)
(* the timezone outside its own.  The newest event of every active device  *)
(* carries the timezone of the account, whatever statement or commit       *)
(* failed, unless the device's activation or another change overlapped the *)
(* last change; the next change that is not overlapped makes up for it.    *)
AllDevicesTold ==
  \A d \in Devices \ missed : dev[d] = "active" =>
    \E i \in Posted(d) : Newest(i, d) /\ payload[i] = AccountZone

(* Events are taken up in any order, fail and are repeated.  Once those of *)
(* a device are settled its retained configuration is the rule of the      *)
(* account's timezone, unless its newest event was not the right one, or   *)
(* failed, or an older one was published after it.                         *)
ConfigMatchesAccount ==
  \A d \in Devices \ (missed \cup late) :
    dev[d] = "active" /\ (\A i \in Posted(d) : outcome[<<i, d>>] # "open")
    => retained[d] = posixTZ(AccountZone)

(* After the last change every device gets the account's timezone, with    *)
(* the same exceptions: nothing else keeps an event from being published.  *)
DevicesCatchUp ==
  \A d \in Devices : <>[](dev[d] = "active" =>
    retained[d] = posixTZ(AccountZone) \/ d \in missed \cup late)
(* A transaction that announces a zone to many devices posts events that   *)
(* nobody posted before, whichever transactions overlap, and the runner    *)
(* settles each of them once.                                              *)
KeepsDelivery == Box!Spec
=============================================================================
