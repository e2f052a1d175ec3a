------------------------------- MODULE Alerts -------------------------------
(***************************************************************************)
(* From a trigger that fires on the device to the alert of its owner       *)
(* (internal/trigger_events, internal/queue, internal/actions/alert,       *)
(* cmd/worker).  The server's MQTT handler stores the event and enqueues a *)
(* job for the trigger's alert action; the worker, another process, turns  *)
(* the job into a row of alerts.  One trigger of one device, with at most  *)
(* one alert action at a time.                                             *)
(*                                                                         *)
(* The broker delivers with QoS 1 to a session that survives restarts, one *)
(* message after the other, and the client acknowledges when the handler   *)
(* has returned.  The job queue (asynq on Redis) is external: it hands a   *)
(* job out again when its handler failed or its worker stopped, MaxRetry   *)
(* times.                                                                  *)
(*                                                                         *)
(* Operators named after another one with a suffix are wrong variants, not *)
(* in Next, to test that the properties notice.                            *)
(***************************************************************************)
EXTENDS Integers, FiniteSets

CONSTANTS
  Events,         \* trigger_event_ids the device generates
  MaxDeliveries,  \* bound of the model: messages the broker accepts
  MaxPatches,     \* bound of the model: patches of the trigger
  MaxRetry,       \* asynq's retries of a job
  MaxErrors,      \* bound of the model: failed calls and crashes
  Unrendered      \* pairs of action and event whose message renderAlert cannot make

ASSUME AlertsAssumption ==
  /\ "none" \notin Events
  /\ MaxDeliveries \in Nat /\ MaxPatches \in Nat
  /\ MaxRetry \in Nat /\ MaxErrors \in Nat
  /\ Unrendered \subseteq (1..MaxPatches + 1) \X Events

Jobs    == 1..MaxDeliveries + MaxErrors
Actions == 1..MaxPatches + 1

VARIABLES
  deleted,   \* which of "trigger" and "device" have deleted_at set
  action,    \* actions: the id of the alert action, 0 if it has none
  patches,   \* patches so far
  inbox,     \* broker: messages to deliver, by event
  copies,    \* history: messages of each event
  sent,      \* bound: messages so far
  handling,  \* server: the message in Handle
  ingested,  \* trigger_events
  jobs,      \* the queue, and the worker's state of each job
  alerts,    \* alerts: number of rows for each event
  lost,      \* history: a message was given up or found no handler
  errors     \* bound: errors so far

triggerVars == <<deleted, action, patches>>
serverVars  == <<inbox, copies, sent, handling, ingested, lost>>
vars == <<triggerVars, serverVars, jobs, alerts, errors>>

None   == "none"
NoMsg  == [event |-> None, at |-> "idle", action |-> 0]
NoJob  == [event |-> None, action |-> 0, at |-> "absent", retried |-> 0, late |-> FALSE]
Active == {"found", "create", "ack"}

TypeOK ==
  /\ deleted \subseteq {"trigger", "device"} /\ lost \in BOOLEAN
  /\ action \in Actions \cup {0} /\ patches \in 0..MaxPatches
  /\ inbox \in [Events -> 0..MaxDeliveries] /\ copies \in [Events -> 0..MaxDeliveries]
  /\ sent \in 0..MaxDeliveries
  /\ handling \in [event: Events \cup {None}, at: {"idle", "ingest", "actions", "enqueue", "ack"},
                   action: Actions \cup {0}]
  /\ ingested \subseteq Events
  /\ jobs \in [Jobs -> [event: Events \cup {None}, action: Actions \cup {0}, late: BOOLEAN,
                        at: {"absent", "queued", "done", "archived"} \cup Active,
                        retried: 0..MaxRetry]]
  /\ alerts \in [Events -> 0..MaxDeliveries + MaxErrors]
  /\ errors \in 0..MaxErrors

Init ==
  /\ deleted = {} /\ action = 1 /\ patches = 0
  /\ inbox = [e \in Events |-> 0] /\ copies = [e \in Events |-> 0] /\ sent = 0
  /\ handling = NoMsg
  /\ ingested = {} /\ lost = FALSE
  /\ jobs = [j \in Jobs |-> NoJob]
  /\ alerts = [e \in Events |-> 0]
  /\ errors = 0

Error == errors < MaxErrors /\ errors' = errors + 1

-----------------------------------------------------------------------------
(* The owner and the device *)

(* Update replaces the action rows even if the patch keeps the actions, so *)
(* the alert action gets a new id; or the patch removes it.  Neither the    *)
(* trigger nor its device may be deleted.                                  *)
Patch(new) ==
  /\ deleted = {} /\ patches < MaxPatches
  /\ patches' = patches + 1
  /\ new \in {0, patches' + 1}
  /\ action' = new
  /\ UNCHANGED <<deleted, serverVars, jobs, alerts, errors>>

(* Soft delete; the action rows stay. *)
Delete ==
  /\ deleted = {}
  /\ deleted' = {"trigger"}
  /\ UNCHANGED <<action, patches, serverVars, jobs, alerts, errors>>

(* The device's own soft delete leaves its triggers alone. *)
DeleteDevice ==
  /\ "device" \notin deleted
  /\ deleted' = deleted \cup {"device"}
  /\ UNCHANGED <<action, patches, serverVars, jobs, alerts, errors>>

(* The device publishes a well-formed event, maybe again when it got no    *)
(* answer; the broker may deliver it twice.                                *)
Deliver(e) ==
  /\ sent < MaxDeliveries
  /\ sent' = sent + 1
  /\ copies' = [copies EXCEPT ![e] = @ + 1]
  /\ inbox' = [inbox EXCEPT ![e] = @ + 1]
  /\ UNCHANGED <<triggerVars, handling, ingested, lost, jobs, alerts, errors>>

-----------------------------------------------------------------------------
(* MQTTHandler.Handle in the server *)

Return == handling' = NoMsg

(* TriggerBelongsToDevice: a message of a deleted trigger is dropped; the  *)
(* device's deletion is not looked at.                                     *)
CheckTrigger(e) ==
  /\ handling = NoMsg
  /\ inbox[e] > 0
  /\ inbox' = [inbox EXCEPT ![e] = @ - 1]
  /\ handling' = IF "trigger" \in deleted THEN NoMsg
                 ELSE [event |-> e, at |-> "ingest", action |-> 0]
  /\ UNCHANGED <<triggerVars, copies, sent, ingested, lost, jobs, alerts, errors>>

IngestOnce ==
  /\ handling.at = "ingest"
  /\ ingested' = ingested \cup {handling.event}
  /\ IF handling.event \in ingested THEN Return
     ELSE handling' = [handling EXCEPT !.at = "actions"]
  /\ UNCHANGED <<triggerVars, inbox, copies, sent, lost, jobs, alerts, errors>>

(* The upsert returns the row of an event that is already stored. *)
Ingest ==
  /\ handling.at = "ingest"
  /\ ingested' = ingested \cup {handling.event}
  /\ handling' = [handling EXCEPT !.at = "actions"]
  /\ UNCHANGED <<triggerVars, inbox, copies, sent, lost, jobs, alerts, errors>>

GetActions ==
  /\ handling.at = "actions"
  /\ handling' = [handling EXCEPT !.at = IF action = 0 THEN "ack" ELSE "enqueue", !.action = action]
  /\ UNCHANGED <<triggerVars, inbox, copies, sent, ingested, lost, jobs, alerts, errors>>

(* Each delivery enqueues a job of its own: the job id is random. *)
Enqueue(j) ==
  /\ handling.at = "enqueue"
  /\ jobs[j] = NoJob /\ \A i \in 1..j-1 : jobs[i] # NoJob
  /\ jobs' = [jobs EXCEPT ![j] =
       [event |-> handling.event, action |-> handling.action, at |-> "queued",
        retried |-> 0, late |-> FALSE]]
  /\ handling' = [handling EXCEPT !.at = "ack"]
  /\ UNCHANGED <<triggerVars, inbox, copies, sent, ingested, lost, alerts, errors>>

(* Handle returns and the client acknowledges the message. *)
Acknowledge ==
  /\ handling.at = "ack"
  /\ Return
  /\ UNCHANGED <<triggerVars, inbox, copies, sent, ingested, lost, jobs, alerts, errors>>

(* A call fails: Handle logs it and returns, and the message is            *)
(* acknowledged all the same.                                              *)
HandleFails ==
  /\ handling.at \in {"ingest", "actions", "enqueue"}
  /\ Error
  /\ Return
  /\ lost' = TRUE
  /\ UNCHANGED <<triggerVars, inbox, copies, sent, ingested, jobs, alerts>>

(* The server stops, maybe before an acknowledgement: the broker keeps     *)
(* what is not acknowledged and sends it when NewSubscriber connects again.*)
(* A message that arrives before Subscribe has registered the handler is   *)
(* handled by nobody.                                                      *)
CrashServer ==
  LET pending(e) == inbox[e] + (IF handling.event = e THEN 1 ELSE 0) IN
  /\ Error
  /\ Return
  /\ \E early \in SUBSET {e \in Events : pending(e) > 0} :
       /\ inbox' = [e \in Events |-> IF e \in early THEN 0 ELSE pending(e)]
       /\ lost' = (lost \/ early # {})
  /\ UNCHANGED <<triggerVars, copies, sent, ingested, jobs, alerts>>

-----------------------------------------------------------------------------
(* alert.Processor.Process in the worker *)

(* Process returned an error, or the worker stopped. *)
Retry(j) ==
  LET tried == jobs[j].retried
  IN  jobs' = [jobs EXCEPT
        ![j].at = IF tried < MaxRetry THEN "queued" ELSE "archived",
        ![j].retried = IF tried < MaxRetry THEN tried + 1 ELSE tried]

Step(j, at) == jobs' = [jobs EXCEPT ![j].at = at]

(* GetActionConfig does not find the row once a patch has replaced it. *)
GetActionConfig(j) ==
  /\ jobs[j].at = "queued"
  /\ IF jobs[j].action = action
     THEN jobs' = [jobs EXCEPT ![j].at = "found", ![j].late = deleted # {}]
     ELSE Retry(j)
  /\ UNCHANGED <<triggerVars, serverVars, alerts, errors>>

GetByIDUnfiltered(j) ==
  /\ jobs[j].at = "found"
  /\ IF <<jobs[j].action, jobs[j].event>> \in Unrendered THEN Retry(j) ELSE Step(j, "create")
  /\ UNCHANGED <<triggerVars, serverVars, alerts, errors>>

(* GetByID finds neither a deleted trigger nor one of a deleted device.    *)
(* Then renderAlert: a template that does not parse, or not execute on the *)
(* readings, was accepted with the action (validateActions only asks that  *)
(* it is not empty) and fails on each try.                                 *)
GetByID(j) ==
  /\ jobs[j].at = "found"
  /\ IF deleted # {} \/ <<jobs[j].action, jobs[j].event>> \in Unrendered
     THEN Retry(j) ELSE Step(j, "create")
  /\ UNCHANGED <<triggerVars, serverVars, alerts, errors>>

(* alerts.Create: an INSERT that no index keeps from running twice. *)
Create(j) ==
  /\ jobs[j].at = "create"
  /\ alerts' = [alerts EXCEPT ![jobs[j].event] = @ + 1]
  /\ Step(j, "ack")
  /\ UNCHANGED <<triggerVars, serverVars, errors>>

AckFails(j) ==
  /\ jobs[j].at = "ack"
  /\ Retry(j)
  /\ UNCHANGED <<triggerVars, serverVars, alerts, errors>>

Ack(j) ==
  /\ jobs[j].at = "ack"
  /\ Step(j, "done")
  /\ UNCHANGED <<triggerVars, serverVars, alerts, errors>>

ProcessFailsAcked(j) ==
  /\ jobs[j].at \in Active
  /\ Error
  /\ Step(j, "done")
  /\ UNCHANGED <<triggerVars, serverVars, alerts>>

(* A database call fails, an answer is lost, or the worker stops: also     *)
(* between the INSERT and the acknowledgement.                             *)
ProcessFails(j) ==
  /\ jobs[j].at \in Active
  /\ Error
  /\ Retry(j)
  /\ UNCHANGED <<triggerVars, serverVars, alerts>>

Handle  == \/ \E e \in Events : CheckTrigger(e)
           \/ Ingest \/ GetActions
           \/ \E j \in Jobs : Enqueue(j)
           \/ Acknowledge
Work(j) == GetActionConfig(j) \/ GetByID(j) \/ Create(j) \/ Ack(j)

Next ==
  \/ \E new \in Actions \cup {0} : Patch(new)
  \/ Delete \/ DeleteDevice
  \/ \E e \in Events : Deliver(e)
  \/ Handle \/ HandleFails \/ CrashServer
  \/ \E j \in Jobs : Work(j) \/ ProcessFails(j)

Spec == Init /\ [][Next]_vars

(* Handle runs for every delivered message, the database and Redis answer  *)
(* in the end, and the worker takes up every job.                          *)
FairSpec == Spec /\ WF_vars(Handle) /\ \A j \in Jobs : WF_vars(Work(j))

-----------------------------------------------------------------------------
(* Properties *)

(* Neither the stored event nor the job has a key that would stop a second *)
(* alert: the alert action makes at most as many as there are deliveries   *)
(* of the event, plus one for every call or process that failed.  A job    *)
(* taken up after the trigger or its device was deleted gives none,        *)
(* although its action is still found.                                     *)
AlertsJustified ==
  /\ \A e \in Events : alerts[e] <= copies[e] + errors
  /\ \A j \in Jobs : jobs[j].late => jobs[j].at \notin {"create", "ack", "done"}

InFlight(e) ==
  \/ inbox[e] > 0
  \/ handling.event = e /\ handling.at # "ack"
  \/ \E j \in Jobs : jobs[j].event = e /\ jobs[j].at \in {"queued", "found", "create"}

(* What loses a firing: a call that fails in Handle or a message sent      *)
(* again before Subscribe (lost), the deletion of the trigger or of its    *)
(* device, any patch of the trigger, even one that leaves its actions      *)
(* alone, more failures than asynq retries, and a template that gives no   *)
(* message for the event.                                                  *)
Disturbed == lost \/ deleted # {} \/ patches > 0 \/ errors > MaxRetry
Excused(e) == Disturbed \/ <<action, e>> \in Unrendered

(* No event vanishes on its way: until it is an alert, a message, the      *)
(* handler before it has enqueued, or a job that is still tried carries    *)
(* it, whichever calls fail and whoever stops, with the exceptions above.  *)
(* FiringIsAlerted adds that what carries it moves on.                     *)
FiringTracked ==
  \A e \in Events : copies[e] > 0 => alerts[e] > 0 \/ InFlight(e) \/ Excused(e)

(* An event that reaches the server ends in an alert, whatever the order   *)
(* of messages, jobs and worker crashes and although the server may stop   *)
(* while it handles the message; only what Excused lists loses it.         *)
FiringIsAlerted ==
  \A e \in Events : copies[e] > 0 ~> alerts[e] > 0 \/ Excused(e)
=============================================================================
