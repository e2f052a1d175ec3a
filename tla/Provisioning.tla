---------------------------- MODULE Provisioning ----------------------------
(***************************************************************************)
(* Pairing a device: provisioning codes, activation, the broker credential *)
(* and the deletion of the device (internal/provisioning, internal/device, *)
(* internal/hivemq, internal/emqx).                                        *)
(*                                                                         *)
(* Requests of one user's web client and of devices run concurrently; each *)
(* of their database statements or transactions is a step.  Activation     *)
(* posts a provision event to the outbox, which is used through its        *)
(* contract Delivery (module Outbox implements it).  The outbox worker and *)
(* the delete request talk to the broker API one HTTP call at a time.      *)
(*                                                                         *)
(* Operators named after another one with a suffix (LookupCodeUnfiltered,  *)
(* CompleteActivationInTwo, ...) are wrong variants of it: they are not in *)
(* Next and serve to test that the properties would notice such a bug.     *)
(***************************************************************************)
EXTENDS Integers, FiniteSets

CONSTANTS
  Codes,        \* the codes generateCode may produce
  Devices,      \* ids of device rows
  Requests,     \* concurrent requests: POST provision or POST activate
  RoleStep,     \* TRUE: HiveMQ (credential and role), FALSE: EMQX
  MaxFailures,  \* maxAttempts of the outbox runner
  MaxErrors,    \* bound of the model: failed calls, lost answers, crashes
  None

ASSUME ProvisioningAssumption ==
  /\ RoleStep \in BOOLEAN
  /\ MaxFailures \in Nat \ {0}
  /\ MaxErrors \in Nat
  /\ None \notin Codes \cup Devices

VARIABLES
  code,      \* provisioning_codes: used_at of each code, "absent" if no row
  codeOf,    \* devices: the code whose claim created the row
  device,    \* devices: "bare" without, "active" with MQTT credentials
  deleted,   \* devices: rows with deleted_at set
  push,      \* devices with another outbox event (config, trigger) open
  req,       \* the state of each request
  answered,  \* history: devices that got their token (202)
  outcome, failures, effect,  \* the provision event of each device, by Delivery
  work,      \* the outbox worker's progress on a provision event
  revoke,    \* the progress of a delete request with the broker
  cred, role,  \* broker: credentials, and those with the device role
  stranded,  \* history: credentials that an attempt left without the role
  misread,   \* history: devices whose last attempt failed and counted as success
  errors     \* bound: errors so far

Box == INSTANCE Delivery WITH Items <- Devices

codeVars   == <<code, codeOf>>
apiVars    == <<code, codeOf, device, deleted, push, req, answered>>
eventVars  == <<outcome, failures, effect>>
brokerVars == <<cred, role, stranded, misread>>
vars == <<apiVars, eventVars, work, revoke, brokerVars, errors>>

Idle == [at |-> "idle", code |-> None, dev |-> None]

WorkSteps   == {"idle", "post", "attach", "rollback", "ok", "failed"}
RevokeSteps == {"none", "detach", "delete", "revoked", "raced", "stopped"}

TypeOK ==
  /\ code \in [Codes -> {"absent", "unused", "used"}]
  /\ codeOf \in [Devices -> Codes \cup {None}]
  /\ device \in [Devices -> {"absent", "bare", "active"}]
  /\ deleted \subseteq Devices /\ push \subseteq Devices /\ answered \subseteq Devices
  /\ req \in [Requests -> [at: {"idle", "creating", "checked", "claimed"},
                           code: Codes \cup {None}, dev: Devices \cup {None}]]
  /\ outcome \in [Devices -> {"none", "open", "done", "abandoned"}]
  /\ failures \in [Devices -> 0..MaxFailures]
  /\ effect \subseteq Devices
  /\ work \in [Devices -> WorkSteps]
  /\ revoke \in [Devices -> RevokeSteps]
  /\ cred \subseteq Devices /\ role \subseteq Devices
  /\ stranded \subseteq Devices /\ misread \subseteq Devices
  /\ errors \in 0..MaxErrors

Init ==
  /\ code = [c \in Codes |-> "absent"]
  /\ codeOf = [d \in Devices |-> None]
  /\ device = [d \in Devices |-> "absent"]
  /\ deleted = {} /\ push = {} /\ answered = {}
  /\ req = [q \in Requests |-> Idle]
  /\ Box!Init
  /\ work = [d \in Devices |-> "idle"]
  /\ revoke = [d \in Devices |-> "none"]
  /\ cred = {} /\ role = {} /\ stranded = {} /\ misread = {}
  /\ errors = 0

Error == errors < MaxErrors /\ errors' = errors + 1

-----------------------------------------------------------------------------
(* POST /api/devices/provision: GetOrCreateCode *)

Unused == {c \in Codes : code[c] = "unused"}

LookupCodeUnfiltered(q) ==
  /\ req[q] = Idle
  /\ req' = [req EXCEPT ![q].at = "creating"]
  /\ UNCHANGED <<codeVars, device, deleted, push, answered, eventVars, work, revoke, brokerVars, errors>>

(* The SELECT finds no unused code.  When it finds one, the request ends   *)
(* and nothing changes.                                                    *)
LookupCode(q) ==
  /\ req[q] = Idle
  /\ Unused = {}
  /\ req' = [req EXCEPT ![q].at = "creating"]
  /\ UNCHANGED <<codeVars, device, deleted, push, answered, eventVars, work, revoke, brokerVars, errors>>

(* The INSERT of a code nobody has yet, and the commit. *)
CreateCode(q, c) ==
  /\ req[q].at = "creating"
  /\ code[c] = "absent"
  /\ code' = [code EXCEPT ![c] = "unused"]
  /\ req' = [req EXCEPT ![q] = Idle]
  /\ UNCHANGED <<codeOf, device, deleted, push, answered, eventVars, work, revoke, brokerVars, errors>>

-----------------------------------------------------------------------------
(* POST /devices/activate: ClaimCode, then the activation transaction *)

(* The first SELECT of ClaimCode, outside any transaction. *)
CheckCode(q, c) ==
  /\ req[q] = Idle
  /\ code[c] = "unused"
  /\ req' = [req EXCEPT ![q].at = "checked", ![q].code = c]
  /\ UNCHANGED <<codeVars, device, deleted, push, answered, eventVars, work, revoke, brokerVars, errors>>

UnlessUsedSkipped(c) == c \in Codes
UnlessUsed(c) == code[c] = "unused"

(* The transaction of ClaimCode: lock and check again, insert the device,  *)
(* mark the code.  Otherwise the answer is 409.                            *)
ClaimCode(q) ==
  /\ req[q].at = "checked"
  /\ LET c == req[q].code
     IN  \/ /\ UnlessUsed(c)
            /\ \E d \in Devices :
                 /\ device[d] = "absent"
                 /\ device' = [device EXCEPT ![d] = "bare"]
                 /\ codeOf' = [codeOf EXCEPT ![d] = c]
                 /\ req' = [req EXCEPT ![q] = [at |-> "claimed", code |-> c, dev |-> d]]
            /\ code' = [code EXCEPT ![c] = "used"]
         \/ /\ ~UnlessUsed(c)
            /\ req' = [req EXCEPT ![q] = Idle]
            /\ UNCHANGED <<codeVars, device>>
  /\ UNCHANGED <<deleted, push, answered, eventVars, work, revoke, brokerVars, errors>>

CompleteActivationInTwo(q) ==
  /\ req[q].at = "claimed"
  /\ LET d == req[q].dev
     IN  /\ device' = [device EXCEPT ![d] = "active"]
         /\ Box!Post(d) \/ UNCHANGED eventVars
         /\ push' = push \cup {d}
         /\ answered' \in {answered, answered \cup {d}}
  /\ req' = [req EXCEPT ![q] = Idle]
  /\ UNCHANGED <<codeVars, deleted, work, revoke, brokerVars, errors>>

(* One transaction stores the credentials and inserts the provision event  *)
(* and the config push.  It does not look at deleted_at.  The token may    *)
(* not reach the device: Sign fails or the answer is lost.                 *)
CompleteActivation(q) ==
  /\ req[q].at = "claimed"
  /\ LET d == req[q].dev
     IN  /\ device' = [device EXCEPT ![d] = "active"]
         /\ Box!Post(d)
         /\ push' = push \cup {d}
         /\ answered' \in {answered, answered \cup {d}}
  /\ req' = [req EXCEPT ![q] = Idle]
  /\ UNCHANGED <<codeVars, deleted, work, revoke, brokerVars, errors>>

(* A database error ends the request between its transactions. *)
RequestFails(q) ==
  /\ req[q].at # "idle"
  /\ req' = [req EXCEPT ![q] = Idle]
  /\ Error
  /\ UNCHANGED <<codeVars, device, deleted, push, answered, eventVars, work, revoke, brokerVars>>

-----------------------------------------------------------------------------
(* The outbox worker: MQTTProvisionProcessor.Process, ProvisionDevice *)

WorkerFree == \A d \in Devices : work[d] = "idle"

TakeEventOnce(d) ==
  /\ outcome[d] = "open" /\ failures[d] = 0
  /\ WorkerFree
  /\ work' = [work EXCEPT ![d] = "post"]
  /\ misread' = misread \ {d}
  /\ UNCHANGED <<apiVars, eventVars, revoke, cred, role, stranded, errors>>

TakeEventAgain(d) ==
  /\ outcome[d] # "none"
  /\ WorkerFree
  /\ work' = [work EXCEPT ![d] = "post"]
  /\ UNCHANGED <<apiVars, eventVars, revoke, brokerVars, errors>>

(* One goroutine handles the provision events, one at a time. *)
TakeEvent(d) ==
  /\ outcome[d] = "open"
  /\ WorkerFree
  /\ work' = [work EXCEPT ![d] = "post"]
  /\ misread' = misread \ {d}
  /\ UNCHANGED <<apiVars, eventVars, revoke, cred, role, stranded, errors>>

AfterPost == IF RoleStep THEN "attach" ELSE "ok"

(* Process returns nil or an error. *)
Return(d, result) ==
  /\ work' = [work EXCEPT ![d] = result]
  /\ IF result = "ok"
     THEN effect' = effect \cup {d} /\ UNCHANGED <<outcome, failures>>
     ELSE UNCHANGED eventVars

(* A call failed.  isAlreadyExists looks for "409" anywhere in the text of *)
(* the error, whichever call it is of: the status 409 of the attach, or a  *)
(* transport error that quotes an address, a port or a path with these     *)
(* digits.  Process then returns nil.                                      *)
ReturnError(d) ==
  \E result \in {"ok", "failed"} :
    /\ Return(d, result)
    /\ misread' = IF result = "ok" THEN misread \cup {d} ELSE misread

(* POST of the credential: created, 409 taken for success, or an error     *)
(* that may hide that the credential was created.                          *)
PostCredential(d) ==
  /\ work[d] = "post"
  /\ \/ /\ d \notin cred
        /\ cred' = cred \cup {d} /\ Return(d, AfterPost)
        /\ UNCHANGED <<stranded, misread, errors>>
     \/ d \in cred /\ Return(d, "ok") /\ UNCHANGED <<cred, stranded, misread, errors>>
     \/ /\ Error /\ ReturnError(d)
        /\ cred' \in {cred, cred \cup {d}} /\ stranded' = stranded \cup (cred' \ cred)
  /\ UNCHANGED <<apiVars, revoke, role>>

AttachRoleUnchecked(d) ==
  /\ work[d] = "attach"
  /\ \/ d \in cred /\ role' = role \cup {d} /\ UNCHANGED errors
     \/ d \notin cred /\ UNCHANGED <<role, errors>>
     \/ Error /\ role' \in {role, role \cup ({d} \cap cred)}
  /\ Return(d, "ok")
  /\ UNCHANGED <<apiVars, revoke, cred, stranded, misread>>

(* PUT .../attach, HiveMQ only.  It fails if the credential is gone, with  *)
(* any status from 300, or without an answer: then the credential is       *)
(* rolled back.                                                            *)
AttachRole(d) ==
  /\ work[d] = "attach"
  /\ \/ d \in cred /\ role' = role \cup {d} /\ Return(d, "ok") /\ UNCHANGED errors
     \/ d \notin cred /\ Return(d, "rollback") /\ UNCHANGED <<role, errors>>
     \/ Error /\ role' \in {role, role \cup ({d} \cap cred)} /\ Return(d, "rollback")
  /\ UNCHANGED <<apiVars, revoke, cred, stranded, misread>>

(* DELETE of the credential after a failed attach.  Its error is ignored;  *)
(* Process gets the error of the attach.                                   *)
Rollback(d) ==
  /\ work[d] = "rollback"
  /\ \/ /\ cred' = cred \ {d} /\ role' = role \ {d}
        /\ stranded' = stranded \ {d} /\ UNCHANGED errors
     \/ Error /\ stranded' = stranded \cup {d} /\ UNCHANGED <<cred, role>>
  /\ ReturnError(d)
  /\ UNCHANGED <<apiVars, revoke>>

(* MarkCompleted or RecordFailure; if that statement fails, the event      *)
(* stays open and is handled again.                                        *)
SettleEvent(d) ==
  /\ \/ work[d] = "ok" /\ Box!Confirm(d) /\ UNCHANGED errors
     \/ work[d] = "failed" /\ Box!Fail(d) /\ UNCHANGED errors
     \/ work[d] \in {"ok", "failed"} /\ Error /\ UNCHANGED eventVars
  /\ work' = [work EXCEPT ![d] = "idle"]
  /\ UNCHANGED <<apiVars, revoke, brokerVars>>

-----------------------------------------------------------------------------
(* Other outbox events of the device: config and trigger pushes *)

PostPush(d) ==
  /\ device[d] # "absent"
  /\ d \notin deleted
  /\ push' = push \cup {d}
  /\ UNCHANGED <<codeVars, device, deleted, req, answered, eventVars, work, revoke, brokerVars, errors>>

SettlePush(d) ==
  /\ d \in push
  /\ push' = push \ {d}
  /\ UNCHANGED <<codeVars, device, deleted, req, answered, eventVars, work, revoke, brokerVars, errors>>

-----------------------------------------------------------------------------
(* DELETE /api/devices/{id}: Service.Delete, then the broker's DeleteDevice *)

(* RETURNING mqtt_username: no broker call for a row without credentials. *)
DeleteDevice(d) ==
  /\ device[d] # "absent"
  /\ d \notin deleted
  /\ deleted' = deleted \cup {d}
  /\ revoke' = [revoke EXCEPT ![d] =
       IF device[d] = "bare" THEN "stopped" ELSE IF RoleStep THEN "detach" ELSE "delete"]
  /\ UNCHANGED <<codeVars, device, push, req, answered, eventVars, work, brokerVars, errors>>

(* HiveMQ only: a failed detach ends DeleteDevice before the credential is *)
(* deleted.  Whether detaching a role that is not attached fails is up to  *)
(* the broker.                                                             *)
DetachRole(d) ==
  /\ revoke[d] = "detach"
  /\ \/ role' = role \ {d} /\ revoke' = [revoke EXCEPT ![d] = "delete"] /\ UNCHANGED errors
     \/ /\ d \notin role \/ d \notin cred
        /\ revoke' = [revoke EXCEPT ![d] = "stopped"]
        /\ UNCHANGED <<role, errors>>
     \/ Error /\ role' \in {role, role \ {d}} /\ revoke' = [revoke EXCEPT ![d] = "stopped"]
  /\ UNCHANGED <<apiVars, eventVars, work, cred, stranded, misread>>

(* A DELETE of a credential that is not there revokes nothing; one that    *)
(* meets an open provision event races with its next attempt.              *)
DeleteCredential(d) ==
  /\ revoke[d] = "delete"
  /\ cred' = cred \ {d} /\ role' = role \ {d}
  /\ revoke' = [revoke EXCEPT ![d] = 
       IF d \notin cred THEN "stopped" ELSE IF outcome[d] = "open" THEN "raced" ELSE "revoked"]
  /\ UNCHANGED <<apiVars, eventVars, work, stranded, misread, errors>>

(* The error is only logged: the credential stays. *)
DeleteCredentialFails(d) ==
  /\ revoke[d] = "delete"
  /\ Error
  /\ revoke' = [revoke EXCEPT ![d] = "stopped"]
  /\ UNCHANGED <<apiVars, eventVars, work, brokerVars>>

-----------------------------------------------------------------------------
(* The server stops and starts again: requests and the worker are gone. *)
Crash ==
  /\ Error
  /\ req' = [q \in Requests |-> Idle]
  /\ work' = [d \in Devices |-> "idle"]
  /\ revoke' = [d \in Devices |->
       IF revoke[d] \in {"detach", "delete"} THEN "stopped" ELSE revoke[d]]
  /\ stranded' = stranded \cup {d \in Devices : work[d] \in {"attach", "rollback"}}
  /\ UNCHANGED <<codeVars, device, deleted, push, answered, eventVars, cred, role, misread>>

(* The handlers of the API and the worker *)

ProvisionHandler(q) == LookupCode(q) \/ \E c \in Codes : CreateCode(q, c)

ActivateHandler(q) ==
  (\E c \in Codes : CheckCode(q, c)) \/ ClaimCode(q) \/ CompleteActivation(q)

Worker(d) ==
  TakeEvent(d) \/ PostCredential(d) \/ AttachRole(d) \/ Rollback(d) \/ SettleEvent(d)

Revoke(d) == DetachRole(d) \/ DeleteCredential(d) \/ DeleteCredentialFails(d)

DeleteDeviceHandler(d) == DeleteDevice(d) \/ Revoke(d)

Next ==
  \/ \E q \in Requests : ProvisionHandler(q) \/ ActivateHandler(q) \/ RequestFails(q)
  \/ \E d \in Devices : Worker(d) \/ PostPush(d) \/ SettlePush(d) \/ DeleteDeviceHandler(d)
  \/ Crash

Spec == Init /\ [][Next]_vars

(* The outbox runner keeps working and open pushes settle.  This includes  *)
(* that the broker's HTTP API answers in the end: the clients wait without *)
(* a timeout.                                                              *)
Fairness ==
  \A d \in Devices : WF_vars(Worker(d)) /\ WF_vars(SettlePush(d))

FairSpec == Spec /\ Fairness

-----------------------------------------------------------------------------
(* Properties *)

(* Two requests that race with the same code, both past the first check of *)
(* ClaimCode, never create two devices, and a claimed code is used.        *)
OneDevicePerCode ==
  \A d \in Devices : device[d] # "absent" =>
    /\ codeOf[d] \in Codes
    /\ code[codeOf[d]] = "used"
    /\ \A e \in Devices \ {d} : codeOf[e] # codeOf[d]

(* Credentials and the provision event are stored together, and a device   *)
(* that got its token has both: it may poll its status.                    *)
CredentialsWithEvent ==
  \A d \in Devices :
    /\ device[d] = "active" <=> outcome[d] # "none"
    /\ d \in answered => device[d] = "active"

(* Concurrent GetOrCreateCode calls may each insert a code, but never more *)
(* codes than there are requests pile up unused.                           *)
Creating == {q \in Requests : req[q].at = "creating"}

UnusedCodesBounded ==
  Cardinality(Unused) + Cardinality(Creating) <= Cardinality(Requests)

(* A completed provision event left a credential behind, and on HiveMQ one *)
(* with the device role: taking 409 for success, rolling back after a      *)
(* failed attach and retrying never cancel out.  Two things break it: the  *)
(* attempt that completed the event had failed with an error that          *)
(* isAlreadyExists misreads, and an attempt that left the credential       *)
(* without the role (its POST lost the answer, its rollback failed, or the *)
(* server stopped), for the retry then meets 409.                          *)
DoneLeftUsable ==
  \A d \in Devices : d \notin deleted /\ outcome[d] = "done" =>
    \/ d \in misread
    \/ d \in cred /\ (RoleStep => d \in role \cup stranded)

(* GetActivationStatus: no event of the device is open. *)
StatusReady(d) ==
  device[d] = "active" /\ d \notin deleted /\ outcome[d] # "open" /\ d \notin push

(* A device that got its token is told "ready" in the end, although other  *)
(* outbox events of the device hide the answer for a while.                *)
AnsweredBecomesReady ==
  \A d \in Devices : d \in answered ~> StatusReady(d) \/ d \in deleted

(* Deleting a device that still has attempts to provision it: a credential *)
(* that the delete request deleted stays deleted, unless the provision     *)
(* event was open at that moment; its next attempt creates it again.       *)
RevokedStaysRevoked == \A d \in Devices : revoke[d] = "revoked" => d \notin cred
(* MQTTProvisionProcessor keeps to the claims of the outbox: an event is   *)
(* worked on and settled only while the worker has it in hand, and taken   *)
(* up only when it is open and nobody has it.  A stop or a failed write    *)
(* leaves it claimed until the claim expires, which is one step here.      *)
InHand == {d \in Devices : work[d] # "idle"}

Protocol == INSTANCE Claims WITH Items <- Devices, hand <- InHand, stuck <- {}

KeepsClaims == Protocol!ClaimsSpec
=============================================================================
