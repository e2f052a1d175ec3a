------------------------ MODULE ProvisioningProofs ------------------------
(***************************************************************************)
(* Theorems about Provisioning for every set of codes, devices and         *)
(* overlapping requests, for both brokers and any number of failures.      *)
(***************************************************************************)
EXTENDS Provisioning, FiniteSetTheorems, TLAPS

(* The outbox contract: an open event has an attempt left. *)
BoxInv ==
  \A d \in Devices :
    /\ outcome[d] = "none" => failures[d] = 0
    /\ outcome[d] = "open" => failures[d] < MaxFailures

(* What an activation relies on between its transactions: the device row   *)
(* it inserted has no credentials yet and belongs to no other request.     *)
ClaimInv ==
  /\ \A q \in Requests : req[q].at = "checked" => req[q].code \in Codes
  /\ \A q \in Requests : req[q].at = "claimed" =>
       req[q].dev \in Devices /\ device[req[q].dev] = "bare"
  /\ \A q, r \in Requests :
       /\ req[q].at = "claimed" /\ req[r].at = "claimed" /\ req[q].dev = req[r].dev
       => q = r

(* No code of a device that does not exist, and one device of each code.   *)
CodesInv ==
  /\ \A d \in Devices : device[d] = "absent" => codeOf[d] = None
  /\ OneDevicePerCode

(* The inductive strengthening of the invariants about rows and requests.  *)
PairingInv ==
  /\ TypeOK /\ BoxInv /\ ClaimInv
  /\ CredentialsWithEvent
  /\ CodesInv

-----------------------------------------------------------------------------
(* Codes, devices and their credentials *)

(* Every step of requests, worker and broker keeps the types and the       *)
(* contract of the outbox.                                                 *)
LEMMA TypeInductive ==
  ASSUME TypeOK, BoxInv, ClaimInv, [Next]_vars
  PROVE  (TypeOK /\ BoxInv)'
<1> USE ProvisioningAssumption DEF TypeOK, BoxInv, ClaimInv, WorkSteps, RevokeSteps, apiVars, codeVars, eventVars, brokerVars, Error, Idle
<1>1. CASE UNCHANGED vars
  BY <1>1 DEF vars
<1>2. ASSUME NEW q \in Requests, LookupCode(q)
      PROVE  (TypeOK /\ BoxInv)'
  BY <1>2 DEF LookupCode
<1>3. ASSUME NEW q \in Requests, NEW c \in Codes, CreateCode(q, c)
      PROVE  (TypeOK /\ BoxInv)'
  BY <1>3 DEF CreateCode
<1>4. ASSUME NEW q \in Requests, NEW c \in Codes, CheckCode(q, c)
      PROVE  (TypeOK /\ BoxInv)'
  BY <1>4 DEF CheckCode
<1>5. ASSUME NEW q \in Requests, ClaimCode(q)
      PROVE  (TypeOK /\ BoxInv)'
  <2> DEFINE c == req[q].code
  <2>1. CASE ~UnlessUsed(c)
    BY <1>5, <2>1 DEF ClaimCode
  <2>2. CASE UnlessUsed(c)
    <3>1. PICK d \in Devices :
            /\ device' = [device EXCEPT ![d] = "bare"]
            /\ codeOf' = [codeOf EXCEPT ![d] = c]
            /\ req' = [req EXCEPT ![q] = [at |-> "claimed", code |-> c, dev |-> d]]
      BY <1>5, <2>2 DEF ClaimCode
    <3>2. /\ code' = [code EXCEPT ![c] = "used"]
          /\ UNCHANGED <<deleted, push, answered, eventVars, work, revoke, brokerVars, errors>>
      BY <1>5, <2>2 DEF ClaimCode
    <3>3. c \in Codes
      BY <1>5 DEF ClaimCode
    <3> QED BY <3>1, <3>2, <3>3
  <2> QED BY <2>1, <2>2
<1>6. ASSUME NEW q \in Requests, CompleteActivation(q)
      PROVE  (TypeOK /\ BoxInv)'
  BY <1>6 DEF CompleteActivation, Box!Post
<1>7. ASSUME NEW q \in Requests, RequestFails(q)
      PROVE  (TypeOK /\ BoxInv)'
  BY <1>7 DEF RequestFails
<1>8. ASSUME NEW d \in Devices, TakeEvent(d)
      PROVE  (TypeOK /\ BoxInv)'
  BY <1>8 DEF TakeEvent, WorkerFree
<1>9. ASSUME NEW d \in Devices, PostCredential(d)
      PROVE  (TypeOK /\ BoxInv)'
  <2>1. /\ work' \in [Devices -> WorkSteps] /\ UNCHANGED <<apiVars, revoke, role>>
        /\ effect' \in {effect, effect \cup {d}} /\ UNCHANGED <<outcome, failures>>
    BY <1>9 DEF PostCredential, ReturnError, Return, AfterPost
  <2>2. /\ cred' \subseteq Devices /\ stranded' \subseteq Devices
        /\ misread' \subseteq Devices /\ errors' \in 0..MaxErrors
    BY <1>9 DEF PostCredential, ReturnError
  <2> QED BY <2>1, <2>2
<1>10. ASSUME NEW d \in Devices, AttachRole(d)
      PROVE  (TypeOK /\ BoxInv)'
  BY <1>10 DEF AttachRole, Return
<1>11. ASSUME NEW d \in Devices, Rollback(d)
      PROVE  (TypeOK /\ BoxInv)'
  BY <1>11 DEF Rollback, ReturnError, Return
<1>12. ASSUME NEW d \in Devices, SettleEvent(d)
      PROVE  (TypeOK /\ BoxInv)'
  <2>1. /\ work' = [work EXCEPT ![d] = "idle"] /\ UNCHANGED <<apiVars, revoke, brokerVars>>
        /\ errors' \in 0..MaxErrors /\ UNCHANGED effect
    BY <1>12 DEF SettleEvent, Box!Confirm, Box!Fail
  <2>2. /\ outcome' \in [Devices -> {"none", "open", "done", "abandoned"}]
        /\ failures' \in [Devices -> 0..MaxFailures] /\ BoxInv'
    <3>1. CASE Box!Confirm(d)
      BY <3>1 DEF Box!Confirm
    <3>2. CASE Box!Fail(d)
      <4>1. failures[d] + 1 \in 0..MaxFailures
        BY <3>2 DEF Box!Fail
      <4>2. /\ outcome' = [outcome EXCEPT ![d] =
                 IF failures[d] + 1 = MaxFailures THEN "abandoned" ELSE "open"]
            /\ failures' = [failures EXCEPT ![d] = failures[d] + 1]
        BY <3>2 DEF Box!Fail
      <4>3. /\ outcome' \in [Devices -> {"none", "open", "done", "abandoned"}]
            /\ failures' \in [Devices -> 0..MaxFailures]
        BY <4>1, <4>2
      <4>4. /\ \A e \in Devices : e # d => outcome'[e] = outcome[e] /\ failures'[e] = failures[e]
            /\ outcome'[d] = IF failures[d] + 1 = MaxFailures THEN "abandoned" ELSE "open"
            /\ failures'[d] = failures[d] + 1
        BY <4>2
      <4>5. BoxInv'
        BY ONLY <4>1, <4>4, BoxInv, MaxFailures \in Nat DEF BoxInv
      <4> QED BY <4>3, <4>5
    <3>3. CASE UNCHANGED eventVars
      BY <3>3
    <3> QED BY <1>12, <3>1, <3>2, <3>3 DEF SettleEvent
  <2> QED BY <2>1, <2>2
<1>13. ASSUME NEW d \in Devices, PostPush(d) \/ SettlePush(d)
      PROVE  (TypeOK /\ BoxInv)'
  BY <1>13 DEF PostPush, SettlePush
<1>14. ASSUME NEW d \in Devices, DeleteDevice(d)
      PROVE  (TypeOK /\ BoxInv)'
  BY <1>14 DEF DeleteDevice
<1>15. ASSUME NEW d \in Devices, Revoke(d)
      PROVE  (TypeOK /\ BoxInv)'
  <2>1. CASE DetachRole(d)
    BY <2>1 DEF DetachRole
  <2>2. CASE DeleteCredential(d)
    BY <2>2 DEF DeleteCredential
  <2>3. CASE DeleteCredentialFails(d)
    BY <2>3 DEF DeleteCredentialFails
  <2> QED BY <1>15, <2>1, <2>2, <2>3 DEF Revoke
<1>16. CASE Crash
  <2>1. /\ req' = [q \in Requests |-> Idle] /\ work' = [d \in Devices |-> "idle"]
        /\ errors' \in 0..MaxErrors
        /\ UNCHANGED <<codeVars, device, deleted, push, answered, eventVars, cred, role, misread>>
    BY <1>16 DEF Crash
  <2>2. revoke' \in [Devices -> RevokeSteps] /\ stranded' \subseteq Devices
    BY <1>16 DEF Crash
  <2> QED BY <2>1, <2>2
<1> QED
  BY <1>1, <1>2, <1>3, <1>4, <1>5, <1>6, <1>7, <1>8, <1>9, <1>10, <1>11, <1>12, <1>13, <1>14, <1>15, <1>16
  DEF Next, ProvisionHandler, ActivateHandler, Worker, DeleteDeviceHandler

(* The transaction of ClaimCode inserts a row nobody else has; the one of  *)
(* the activation is the only one that gives it credentials.               *)
LEMMA ClaimInductive ==
  ASSUME TypeOK, ClaimInv, [Next]_vars
  PROVE  ClaimInv'
<1> USE ProvisioningAssumption DEF TypeOK, ClaimInv, WorkSteps, RevokeSteps, apiVars, codeVars, eventVars, brokerVars, Error, Idle
<1>1. CASE UNCHANGED vars
  BY <1>1 DEF vars
<1>2. ASSUME NEW q \in Requests, LookupCode(q)
      PROVE  ClaimInv'
  BY <1>2 DEF LookupCode
<1>3. ASSUME NEW q \in Requests, NEW c \in Codes, CreateCode(q, c)
      PROVE  ClaimInv'
  BY <1>3 DEF CreateCode
<1>4. ASSUME NEW q \in Requests, NEW c \in Codes, CheckCode(q, c)
      PROVE  ClaimInv'
  BY <1>4 DEF CheckCode
<1>5. ASSUME NEW q \in Requests, ClaimCode(q)
      PROVE  ClaimInv'
  <2> DEFINE c == req[q].code
  <2>1. CASE ~UnlessUsed(c)
    <3>1. UNCHANGED device /\ req'[q] = Idle /\ \A r \in Requests : r # q => req'[r] = req[r]
      BY <1>5, <2>1 DEF ClaimCode
    <3> QED BY ONLY <3>1, ClaimInv DEF ClaimInv, Idle
  <2>2. CASE UnlessUsed(c)
    <3>1. PICK d \in Devices :
            /\ device[d] = "absent"
            /\ device' = [device EXCEPT ![d] = "bare"]
            /\ req' = [req EXCEPT ![q] = [at |-> "claimed", code |-> c, dev |-> d]]
      BY <1>5, <2>2 DEF ClaimCode
    <3>2. /\ req'[q] = [at |-> "claimed", code |-> c, dev |-> d]
          /\ \A r \in Requests \ {q} : req'[r] = req[r]
      BY <3>1
    <3>3. device'[d] = "bare" /\ \A e \in Devices \ {d} : device'[e] = device[e]
      BY <3>1
    <3>4. \A r \in Requests : req[r].at = "claimed" => req[r].dev # d
      BY <3>1
    <3>5. c \in Codes
      BY <1>5 DEF ClaimCode
    <3> QED BY ONLY <3>2, <3>3, <3>4, <3>5, ClaimInv DEF ClaimInv
  <2> QED BY <2>1, <2>2
<1>6. ASSUME NEW q \in Requests, CompleteActivation(q)
      PROVE  ClaimInv'
  BY <1>6 DEF CompleteActivation, Box!Post
<1>7. ASSUME NEW q \in Requests, RequestFails(q)
      PROVE  ClaimInv'
  BY <1>7 DEF RequestFails
<1>8. ASSUME NEW d \in Devices, TakeEvent(d)
      PROVE  ClaimInv'
  BY <1>8 DEF TakeEvent, WorkerFree
<1>9. ASSUME NEW d \in Devices, PostCredential(d)
      PROVE  ClaimInv'
  BY <1>9 DEF PostCredential, ReturnError, Return, AfterPost
<1>10. ASSUME NEW d \in Devices, AttachRole(d)
      PROVE  ClaimInv'
  BY <1>10 DEF AttachRole, Return
<1>11. ASSUME NEW d \in Devices, Rollback(d)
      PROVE  ClaimInv'
  BY <1>11 DEF Rollback, ReturnError, Return
<1>12. ASSUME NEW d \in Devices, SettleEvent(d)
      PROVE  ClaimInv'
  BY <1>12 DEF SettleEvent, Box!Confirm, Box!Fail
<1>13. ASSUME NEW d \in Devices, PostPush(d) \/ SettlePush(d)
      PROVE  ClaimInv'
  BY <1>13 DEF PostPush, SettlePush
<1>14. ASSUME NEW d \in Devices, DeleteDevice(d)
      PROVE  ClaimInv'
  BY <1>14 DEF DeleteDevice
<1>15. ASSUME NEW d \in Devices, Revoke(d)
      PROVE  ClaimInv'
  BY <1>15 DEF Revoke, DetachRole, DeleteCredential, DeleteCredentialFails
<1>16. CASE Crash
  BY <1>16 DEF Crash
<1> QED
  BY <1>1, <1>2, <1>3, <1>4, <1>5, <1>6, <1>7, <1>8, <1>9, <1>10, <1>11, <1>12, <1>13, <1>14, <1>15, <1>16
  DEF Next, ProvisionHandler, ActivateHandler, Worker, DeleteDeviceHandler

(* Credentials come with their event. *)
LEMMA CredentialsInductive ==
  ASSUME TypeOK, ClaimInv, CredentialsWithEvent, [Next]_vars
  PROVE  CredentialsWithEvent'
<1> USE ProvisioningAssumption DEF TypeOK, ClaimInv, CredentialsWithEvent, WorkSteps, RevokeSteps, apiVars, codeVars, eventVars, brokerVars, Error, Idle
<1>1. CASE UNCHANGED vars
  BY <1>1 DEF vars
<1>2. ASSUME NEW q \in Requests, LookupCode(q)
      PROVE  CredentialsWithEvent'
  BY <1>2 DEF LookupCode
<1>3. ASSUME NEW q \in Requests, NEW c \in Codes, CreateCode(q, c)
      PROVE  CredentialsWithEvent'
  BY <1>3 DEF CreateCode
<1>4. ASSUME NEW q \in Requests, NEW c \in Codes, CheckCode(q, c)
      PROVE  CredentialsWithEvent'
  BY <1>4 DEF CheckCode
<1>5. ASSUME NEW q \in Requests, ClaimCode(q)
      PROVE  CredentialsWithEvent'
  BY <1>5 DEF ClaimCode, UnlessUsed
<1>6. ASSUME NEW q \in Requests, CompleteActivation(q)
      PROVE  CredentialsWithEvent'
  BY <1>6 DEF CompleteActivation, Box!Post
<1>7. ASSUME NEW q \in Requests, RequestFails(q)
      PROVE  CredentialsWithEvent'
  BY <1>7 DEF RequestFails
<1>8. ASSUME NEW d \in Devices, TakeEvent(d)
      PROVE  CredentialsWithEvent'
  BY <1>8 DEF TakeEvent, WorkerFree
<1>9. ASSUME NEW d \in Devices, PostCredential(d)
      PROVE  CredentialsWithEvent'
  BY <1>9 DEF PostCredential, ReturnError, Return, AfterPost
<1>10. ASSUME NEW d \in Devices, AttachRole(d)
      PROVE  CredentialsWithEvent'
  BY <1>10 DEF AttachRole, Return
<1>11. ASSUME NEW d \in Devices, Rollback(d)
      PROVE  CredentialsWithEvent'
  BY <1>11 DEF Rollback, ReturnError, Return
<1>12. ASSUME NEW d \in Devices, SettleEvent(d)
      PROVE  CredentialsWithEvent'
  BY <1>12 DEF SettleEvent, Box!Confirm, Box!Fail
<1>13. ASSUME NEW d \in Devices, PostPush(d) \/ SettlePush(d)
      PROVE  CredentialsWithEvent'
  BY <1>13 DEF PostPush, SettlePush
<1>14. ASSUME NEW d \in Devices, DeleteDevice(d)
      PROVE  CredentialsWithEvent'
  BY <1>14 DEF DeleteDevice
<1>15. ASSUME NEW d \in Devices, Revoke(d)
      PROVE  CredentialsWithEvent'
  BY <1>15 DEF Revoke, DetachRole, DeleteCredential, DeleteCredentialFails
<1>16. CASE Crash
  BY <1>16 DEF Crash
<1> QED
  BY <1>1, <1>2, <1>3, <1>4, <1>5, <1>6, <1>7, <1>8, <1>9, <1>10, <1>11, <1>12, <1>13, <1>14, <1>15, <1>16
  DEF Next, ProvisionHandler, ActivateHandler, Worker, DeleteDeviceHandler

(* The second check of ClaimCode, under the lock, decides. *)
LEMMA CodesInductive ==
  ASSUME PairingInv, [Next]_vars
  PROVE  CodesInv'
<1> USE ProvisioningAssumption DEF PairingInv, CodesInv, TypeOK, ClaimInv, OneDevicePerCode, WorkSteps, RevokeSteps, apiVars, codeVars, eventVars, brokerVars, Error, Idle
<1>1. CASE UNCHANGED vars
  BY <1>1 DEF vars
<1>2. ASSUME NEW q \in Requests, LookupCode(q)
      PROVE  CodesInv'
  BY <1>2 DEF LookupCode
<1>3. ASSUME NEW q \in Requests, NEW c \in Codes, CreateCode(q, c)
      PROVE  CodesInv'
  BY <1>3 DEF CreateCode
<1>4. ASSUME NEW q \in Requests, NEW c \in Codes, CheckCode(q, c)
      PROVE  CodesInv'
  BY <1>4 DEF CheckCode
<1>5. ASSUME NEW q \in Requests, ClaimCode(q)
      PROVE  CodesInv'
  BY <1>5 DEF ClaimCode, UnlessUsed
<1>6. ASSUME NEW q \in Requests, CompleteActivation(q)
      PROVE  CodesInv'
  BY <1>6 DEF CompleteActivation, Box!Post
<1>7. ASSUME NEW q \in Requests, RequestFails(q)
      PROVE  CodesInv'
  BY <1>7 DEF RequestFails
<1>8. ASSUME NEW d \in Devices, TakeEvent(d)
      PROVE  CodesInv'
  BY <1>8 DEF TakeEvent, WorkerFree
<1>9. ASSUME NEW d \in Devices, PostCredential(d)
      PROVE  CodesInv'
  BY <1>9 DEF PostCredential, ReturnError, Return, AfterPost
<1>10. ASSUME NEW d \in Devices, AttachRole(d)
      PROVE  CodesInv'
  BY <1>10 DEF AttachRole, Return
<1>11. ASSUME NEW d \in Devices, Rollback(d)
      PROVE  CodesInv'
  BY <1>11 DEF Rollback, ReturnError, Return
<1>12. ASSUME NEW d \in Devices, SettleEvent(d)
      PROVE  CodesInv'
  BY <1>12 DEF SettleEvent, Box!Confirm, Box!Fail
<1>13. ASSUME NEW d \in Devices, PostPush(d) \/ SettlePush(d)
      PROVE  CodesInv'
  BY <1>13 DEF PostPush, SettlePush
<1>14. ASSUME NEW d \in Devices, DeleteDevice(d)
      PROVE  CodesInv'
  BY <1>14 DEF DeleteDevice
<1>15. ASSUME NEW d \in Devices, Revoke(d)
      PROVE  CodesInv'
  BY <1>15 DEF Revoke, DetachRole, DeleteCredential, DeleteCredentialFails
<1>16. CASE Crash
  BY <1>16 DEF Crash
<1> QED
  BY <1>1, <1>2, <1>3, <1>4, <1>5, <1>6, <1>7, <1>8, <1>9, <1>10, <1>11, <1>12, <1>13, <1>14, <1>15, <1>16
  DEF Next, ProvisionHandler, ActivateHandler, Worker, DeleteDeviceHandler

(* No code yet. *)
LEMMA PairingInitially == Init => PairingInv
BY ProvisioningAssumption
DEF Init, Box!Init, Idle, PairingInv, TypeOK, WorkSteps, RevokeSteps, BoxInv, ClaimInv,
    CredentialsWithEvent, CodesInv, OneDevicePerCode

(* The parts together are inductive. *)
LEMMA PairingAlways == Spec => []PairingInv
<1>1. PairingInv /\ [Next]_vars => PairingInv'
  BY TypeInductive, ClaimInductive, CredentialsInductive, CodesInductive DEF PairingInv
<1> QED BY <1>1, PairingInitially, PTL DEF Spec

(* The rows, the requests and the worker keep their types. *)
THEOREM TypeCorrect == Spec => []TypeOK
<1>1. PairingInv => TypeOK
  BY DEF PairingInv
<1> QED BY <1>1, PairingAlways, PTL

(* However many activations race with one code, one device comes of it     *)
(* (ClaimCode's second check).                                             *)
THEOREM OneDeviceCorrect == Spec => []OneDevicePerCode
<1>1. PairingInv => OneDevicePerCode
  BY DEF PairingInv, CodesInv
<1> QED BY <1>1, PairingAlways, PTL

(* Credentials and provision event are stored together, and before the     *)
(* device gets its token.                                                  *)
THEOREM CredentialsCorrect == Spec => []CredentialsWithEvent
<1>1. PairingInv => CredentialsWithEvent
  BY DEF PairingInv
<1> QED BY <1>1, PairingAlways, PTL

-----------------------------------------------------------------------------
(* The broker *)

(* From its POST to the completed event a device keeps its credential:     *)
(* only a delete request and the rollback of a failed attach take it away, *)
(* and after the rollback the event fails or is misread.  On HiveMQ a credential without *)
(* the role belongs to an attempt that is not over or did not end.  A      *)
(* revoked credential has no event that could create it again.             *)
BrokerInv ==
  /\ \A d \in Devices : work[d] # "idle" => outcome[d] = "open"
  /\ \A d \in Devices : revoke[d] # "none" => d \in deleted
  /\ ~RoleStep => \A d \in Devices : work[d] \notin {"attach", "rollback"}
  /\ \A d \in Devices \ deleted : work[d] = "attach" => d \in cred
  /\ \A d \in Devices \ (deleted \cup misread) :
       work[d] = "ok" \/ outcome[d] = "done" => d \in cred
  /\ RoleStep => \A d \in Devices \ deleted :
       d \in cred => d \in role \cup stranded \/ work[d] \in {"attach", "rollback"}
  /\ \A d \in Devices : revoke[d] \in {"detach", "delete"} => outcome[d] # "none"
  /\ \A d \in Devices : revoke[d] = "revoked" =>
       d \notin cred /\ outcome[d] \in {"done", "abandoned"}

(* Delete requests start with the row; the worker settles what it did. *)
LEMMA BrokerInductive ==
  ASSUME TypeOK, CredentialsWithEvent, BrokerInv, [Next]_vars
  PROVE  BrokerInv'
<1> USE ProvisioningAssumption DEF TypeOK, BrokerInv, WorkSteps, RevokeSteps, apiVars, codeVars, eventVars, brokerVars, Error, Idle
<1>1. CASE UNCHANGED vars
  BY <1>1 DEF vars
<1>2. ASSUME NEW q \in Requests, LookupCode(q)
      PROVE  BrokerInv'
  BY <1>2 DEF LookupCode
<1>3. ASSUME NEW q \in Requests, NEW c \in Codes, CreateCode(q, c)
      PROVE  BrokerInv'
  BY <1>3 DEF CreateCode
<1>4. ASSUME NEW q \in Requests, NEW c \in Codes, CheckCode(q, c)
      PROVE  BrokerInv'
  BY <1>4 DEF CheckCode
<1>5. ASSUME NEW q \in Requests, ClaimCode(q)
      PROVE  BrokerInv'
  BY <1>5 DEF ClaimCode, UnlessUsed
<1>6. ASSUME NEW q \in Requests, CompleteActivation(q)
      PROVE  BrokerInv'
  BY <1>6 DEF CompleteActivation, Box!Post
<1>7. ASSUME NEW q \in Requests, RequestFails(q)
      PROVE  BrokerInv'
  BY <1>7 DEF RequestFails
<1>8. ASSUME NEW d \in Devices, TakeEvent(d)
      PROVE  BrokerInv'
  BY <1>8 DEF TakeEvent, WorkerFree
<1>9. ASSUME NEW d \in Devices, PostCredential(d)
      PROVE  BrokerInv'
  BY <1>9 DEF PostCredential, ReturnError, Return, AfterPost
<1>10. ASSUME NEW d \in Devices, AttachRole(d)
      PROVE  BrokerInv'
  BY <1>10 DEF AttachRole, Return
<1>11. ASSUME NEW d \in Devices, Rollback(d)
      PROVE  BrokerInv'
  BY <1>11 DEF Rollback, ReturnError, Return
<1>12. ASSUME NEW d \in Devices, SettleEvent(d)
      PROVE  BrokerInv'
  BY <1>12 DEF SettleEvent, Box!Confirm, Box!Fail
<1>13. ASSUME NEW d \in Devices, PostPush(d) \/ SettlePush(d)
      PROVE  BrokerInv'
  BY <1>13 DEF PostPush, SettlePush
<1>14. ASSUME NEW d \in Devices, DeleteDevice(d)
      PROVE  BrokerInv'
  BY <1>14 DEF DeleteDevice, CredentialsWithEvent
<1>15. ASSUME NEW d \in Devices, Revoke(d)
      PROVE  BrokerInv'
  BY <1>15 DEF Revoke, DetachRole, DeleteCredential, DeleteCredentialFails
<1>16. CASE Crash
  BY <1>16 DEF Crash
<1> QED
  BY <1>1, <1>2, <1>3, <1>4, <1>5, <1>6, <1>7, <1>8, <1>9, <1>10, <1>11, <1>12, <1>13, <1>14, <1>15, <1>16
  DEF Next, ProvisionHandler, ActivateHandler, Worker, DeleteDeviceHandler

(* No credential yet, and nothing done. *)
LEMMA BrokerAlways == Spec => []BrokerInv
<1>1. Init => BrokerInv
  BY DEF Init, Box!Init, BrokerInv
<1>2. TypeOK /\ CredentialsWithEvent /\ BrokerInv /\ [Next]_vars => BrokerInv'
  BY BrokerInductive
<1> QED BY <1>1, <1>2, TypeCorrect, CredentialsCorrect, PTL DEF Spec

(* A completed provision event left a usable credential behind, on either  *)
(* broker, unless it was completed by a misread error, and except for the  *)
(* role where an attempt stranded the credential.                          *)
THEOREM UsableCorrect == Spec => []DoneLeftUsable
<1>1. TypeOK /\ BrokerInv => DoneLeftUsable
  <2> SUFFICES ASSUME TypeOK, BrokerInv,
                      NEW d \in Devices \ misread, d \notin deleted, outcome[d] = "done"
               PROVE  d \in cred /\ (RoleStep => d \in role \cup stranded)
    BY DEF DoneLeftUsable
  <2>1. d \in cred
    BY DEF BrokerInv
  <2>2. work[d] = "idle"
    BY DEF BrokerInv
  <2> QED BY <2>1, <2>2 DEF BrokerInv
<1> QED BY <1>1, BrokerAlways, TypeCorrect, PTL

(* No attempt to provision a device outlives the settled event.            *)
THEOREM RevokedCorrect == Spec => []RevokedStaysRevoked
<1>1. BrokerInv => RevokedStaysRevoked
  BY DEF BrokerInv, RevokedStaysRevoked
<1> QED BY <1>1, BrokerAlways, PTL

-----------------------------------------------------------------------------
(* Unused codes *)

UnusedInv == IsFiniteSet(Unused) /\ UnusedCodesBounded

(* Requests that give up and codes that get used only help. *)
LEMMA FewerIsBounded ==
  ASSUME IsFiniteSet(Requests), UnusedInv, Unused' \subseteq Unused, Creating' \subseteq Creating
  PROVE  UnusedInv'
<1>1. IsFiniteSet(Creating)
  BY FS_Subset DEF Creating
<1>2. /\ IsFiniteSet(Unused') /\ Cardinality(Unused') <= Cardinality(Unused)
      /\ IsFiniteSet(Creating') /\ Cardinality(Creating') <= Cardinality(Creating)
  BY <1>1, FS_Subset DEF UnusedInv
<1>3. /\ Cardinality(Unused) \in Nat /\ Cardinality(Unused') \in Nat
      /\ Cardinality(Creating) \in Nat /\ Cardinality(Creating') \in Nat
      /\ Cardinality(Requests) \in Nat
  BY <1>1, <1>2, FS_CardinalityType DEF UnusedInv
<1> QED BY <1>2, <1>3 DEF UnusedInv, UnusedCodesBounded

(* GetOrCreateCode: when the SELECT finds no unused code, at most all      *)
(* requests are about to create one; a created code replaces its request.  *)
LEMMA UnusedInductive ==
  ASSUME IsFiniteSet(Requests), TypeOK, UnusedInv, [Next]_vars
  PROVE  UnusedInv'
<1>1. ASSUME NEW q \in Requests, LookupCode(q)
      PROVE  UnusedInv'
  <2>1. Unused' = {}
    BY <1>1 DEF LookupCode, Unused, codeVars
  <2>2. Cardinality(Unused') = 0 /\ IsFiniteSet(Unused')
    BY <2>1, FS_EmptySet
  <2>3. IsFiniteSet(Creating') /\ Cardinality(Creating') <= Cardinality(Requests)
    BY FS_Subset DEF Creating
  <2>4. Cardinality(Creating') \in Nat /\ Cardinality(Requests) \in Nat
    BY <2>3, FS_CardinalityType
  <2>5. Cardinality(Requests)' = Cardinality(Requests)
    OBVIOUS
  <2> QED BY <2>2, <2>3, <2>4, <2>5 DEF UnusedInv, UnusedCodesBounded
<1>2. ASSUME NEW q \in Requests, NEW c \in Codes, CreateCode(q, c)
      PROVE  UnusedInv'
  <2>1. Unused' = Unused \cup {c} /\ c \notin Unused
    BY <1>2 DEF CreateCode, Unused, TypeOK
  <2>2. Creating' = Creating \ {q} /\ q \in Creating
    BY <1>2 DEF CreateCode, Creating, TypeOK, Idle
  <2>3. IsFiniteSet(Creating) /\ IsFiniteSet(Unused)
    BY FS_Subset DEF Creating, UnusedInv
  <2>4. IsFiniteSet(Unused') /\ Cardinality(Unused') = Cardinality(Unused) + 1
    BY <2>1, <2>3, FS_AddElement
  <2>5. Cardinality(Creating') = Cardinality(Creating) - 1
    BY <2>2, <2>3, FS_RemoveElement
  <2>6. Cardinality(Unused) \in Nat /\ Cardinality(Creating) \in Nat
    BY <2>3, FS_CardinalityType
  <2> QED BY <2>4, <2>5, <2>6 DEF UnusedInv, UnusedCodesBounded
<1>3. ASSUME \/ UNCHANGED vars \/ Crash
             \/ \E q \in Requests : ClaimCode(q) \/ CompleteActivation(q) \/ RequestFails(q)
             \/ \E q \in Requests, c \in Codes : CheckCode(q, c)
             \/ \E d \in Devices : \/ Worker(d) \/ PostPush(d) \/ SettlePush(d)
                                   \/ DeleteDevice(d) \/ Revoke(d)
      PROVE  UnusedInv'
  <2> USE DEF vars, apiVars, codeVars, Unused, Creating, TypeOK, Idle
  <2>1. CASE UNCHANGED vars \/ Crash
    <3>1. Unused' \subseteq Unused /\ Creating' \subseteq Creating
      BY <2>1 DEF Crash
    <3> QED BY <3>1, FewerIsBounded
  <2>2. ASSUME NEW q \in Requests, ClaimCode(q) \/ CompleteActivation(q) \/ RequestFails(q)
        PROVE  UnusedInv'
    <3>1. Unused' \subseteq Unused
      BY <2>2 DEF ClaimCode, CompleteActivation, RequestFails
    <3>2. Creating' \subseteq Creating
      BY <2>2 DEF ClaimCode, CompleteActivation, RequestFails
    <3> QED BY <3>1, <3>2, FewerIsBounded
  <2>3. ASSUME NEW q \in Requests, NEW c \in Codes, CheckCode(q, c)
        PROVE  UnusedInv'
    <3>1. Unused' \subseteq Unused /\ Creating' \subseteq Creating
      BY <2>3 DEF CheckCode
    <3> QED BY <3>1, FewerIsBounded
  <2>4. ASSUME NEW d \in Devices,
               Worker(d) \/ PostPush(d) \/ SettlePush(d) \/ DeleteDevice(d) \/ Revoke(d)
        PROVE  UnusedInv'
    <3>1. UNCHANGED <<code, req>>
      BY <2>4 DEF Worker, TakeEvent, PostCredential, AttachRole, Rollback, SettleEvent,
         PostPush, SettlePush, DeleteDevice, Revoke, DetachRole, DeleteCredential,
         DeleteCredentialFails
    <3>2. Unused' \subseteq Unused /\ Creating' \subseteq Creating
      BY <3>1
    <3> QED BY <3>2, FewerIsBounded
  <2> QED BY <1>3, <2>1, <2>2, <2>3, <2>4
<1> QED BY <1>1, <1>2, <1>3 DEF Next, ProvisionHandler, ActivateHandler, DeleteDeviceHandler

(* Concurrent GetOrCreateCode calls never pile up more codes than there    *)
(* are requests.                                                           *)
THEOREM UnusedCorrect ==
  ASSUME IsFiniteSet(Requests)
  PROVE  Spec => []UnusedCodesBounded
<1>1. Init => UnusedInv
  <2> SUFFICES ASSUME Init
               PROVE  UnusedInv
    OBVIOUS
  <2>1. Unused = {} /\ Creating = {}
    BY DEF Init, Unused, Creating, Idle
  <2>2. Cardinality(Requests) \in Nat
    BY FS_CardinalityType
  <2> QED BY <2>1, <2>2, FS_EmptySet DEF UnusedInv, UnusedCodesBounded
<1>2. TypeOK /\ UnusedInv /\ [Next]_vars => UnusedInv'
  BY UnusedInductive
<1>3. UnusedInv => UnusedCodesBounded
  BY DEF UnusedInv
<1> QED BY <1>1, <1>2, <1>3, TypeCorrect, PTL DEF Spec
-----------------------------------------------------------------------------
(* The outbox as its contract promises it *)

(* Requests post, the worker acts and settles; whoever else takes a step   *)
(* leaves the events alone.                                                *)
LEMMA StepKeepsClaims ==
  ASSUME TypeOK, ClaimInv, CredentialsWithEvent, BrokerInv, [Next]_vars
  PROVE  [Protocol!ClaimsNext]_Protocol!cvars
<1> USE DEF TypeOK, eventVars, apiVars, codeVars, brokerVars
<1>1. CASE UNCHANGED <<eventVars, work>>
  BY <1>1 DEF InHand, Protocol!cvars
<1>2. ASSUME NEW q \in Requests, CompleteActivation(q)
      PROVE  Protocol!Commit
  <2>1. \E d \in Devices : Protocol!Post(d)
    BY <1>2 DEF CompleteActivation, Box!Post, Protocol!Post, ClaimInv
  <2>2. InHand' = InHand
    BY <1>2 DEF CompleteActivation, InHand
  <2> QED BY <2>1, <2>2 DEF Protocol!Commit
<1>3. ASSUME NEW d \in Devices, TakeEvent(d)
      PROVE  Protocol!Claim({d}, {})
  <2>1. InHand = {} /\ InHand' = {d}
    BY <1>3 DEF TakeEvent, WorkerFree, InHand
  <2> QED BY <1>3, <2>1 DEF TakeEvent, Protocol!Claim, Protocol!dvars
<1>4. ASSUME NEW d \in Devices, PostCredential(d) \/ AttachRole(d) \/ Rollback(d)
      PROVE  Protocol!Work(d) \/ UNCHANGED Protocol!cvars
  <2>1. work[d] # "idle" /\ \E result \in WorkSteps \ {"idle"} : Return(d, result)
    BY <1>4 DEF PostCredential, AttachRole, Rollback, ReturnError, AfterPost, WorkSteps
  <2>2. PICK result \in WorkSteps \ {"idle"} : Return(d, result)
    BY <2>1
  <2>3. d \in InHand /\ InHand' = InHand
    BY <2>1, <2>2 DEF Return, InHand
  <2>4. outcome[d] = "open"
    BY <2>1 DEF BrokerInv
  <2> QED BY <2>2, <2>3, <2>4 DEF Return, Protocol!Work, Protocol!Act, Protocol!cvars
<1>5. ASSUME NEW d \in Devices, SettleEvent(d)
      PROVE  Protocol!Settle(d) \/ Protocol!Drop({d}, {})
  <2>1. d \in InHand /\ InHand' = InHand \ {d}
    BY <1>5 DEF SettleEvent, InHand
  <2>2. \/ Protocol!Confirm(d) \/ Protocol!Fail(d)
        \/ UNCHANGED eventVars
    BY <1>5 DEF SettleEvent, Box!Confirm, Box!Fail, Protocol!Confirm, Protocol!Fail
  <2> QED BY <2>1, <2>2 DEF Protocol!Settle, Protocol!Drop, Protocol!dvars
<1>6. CASE Crash
  <2>1. InHand' = {} /\ UNCHANGED eventVars
    BY <1>6 DEF Crash, InHand
  <2>2. Protocol!Drop(InHand, {})
    BY <2>1 DEF Protocol!Drop, Protocol!dvars
  <2>3. InHand \in SUBSET Devices
    BY DEF InHand
  <2> QED BY <2>2, <2>3 DEF Protocol!ClaimsNext
<1>7. ASSUME NEW q \in Requests, NEW c \in Codes,
             \/ LookupCode(q) \/ CreateCode(q, c) \/ CheckCode(q, c) \/ ClaimCode(q)
             \/ RequestFails(q)
      PROVE  UNCHANGED <<eventVars, work>>
  BY <1>7 DEF LookupCode, CreateCode, CheckCode, ClaimCode, RequestFails
<1>8. ASSUME NEW d \in Devices, PostPush(d) \/ SettlePush(d) \/ DeleteDevice(d) \/ Revoke(d)
      PROVE  UNCHANGED <<eventVars, work>>
  BY <1>8 DEF PostPush, SettlePush, DeleteDevice, Revoke, DetachRole, DeleteCredential,
     DeleteCredentialFails
<1>9. CASE Next
  <2>1. ASSUME NEW q \in Requests, ProvisionHandler(q) \/ ActivateHandler(q) \/ RequestFails(q)
        PROVE  [Protocol!ClaimsNext]_Protocol!cvars
    <3>1. CASE LookupCode(q) \/ ClaimCode(q) \/ RequestFails(q)
      <4>1. UNCHANGED <<eventVars, work>>
        BY <3>1 DEF LookupCode, ClaimCode, RequestFails
      <4> QED BY <4>1, <1>1
    <3>2. ASSUME NEW c \in Codes, CreateCode(q, c) \/ CheckCode(q, c)
          PROVE  [Protocol!ClaimsNext]_Protocol!cvars
      BY <3>2, <1>1, <1>7
    <3>3. CASE CompleteActivation(q)
      BY <3>3, <1>2 DEF Protocol!ClaimsNext
    <3> QED BY <2>1, <3>1, <3>2, <3>3 DEF ProvisionHandler, ActivateHandler
  <2>2. ASSUME NEW d \in Devices,
               Worker(d) \/ PostPush(d) \/ SettlePush(d) \/ DeleteDeviceHandler(d)
        PROVE  [Protocol!ClaimsNext]_Protocol!cvars
    <3>1. CASE PostPush(d) \/ SettlePush(d) \/ DeleteDeviceHandler(d)
      BY <3>1, <1>1, <1>8 DEF DeleteDeviceHandler
    <3>2. CASE TakeEvent(d)
      <4>1. {d} \in SUBSET Devices /\ {} \in SUBSET Devices
        OBVIOUS
      <4> QED BY <3>2, <4>1, <1>3 DEF Protocol!ClaimsNext
    <3>3. CASE PostCredential(d) \/ AttachRole(d) \/ Rollback(d)
      BY <3>3, <1>4 DEF Protocol!ClaimsNext
    <3>4. CASE SettleEvent(d)
      <4>1. {d} \in SUBSET Devices /\ {} \in SUBSET Devices
        OBVIOUS
      <4> QED BY <3>4, <4>1, <1>5 DEF Protocol!ClaimsNext
    <3> QED BY <2>2, <3>1, <3>2, <3>3, <3>4 DEF Worker
  <2> QED BY <1>6, <1>9, <2>1, <2>2 DEF Next
<1> QED BY <1>1, <1>9 DEF vars

(* The processor, its retries and a stop of the server between any two     *)
(* steps keep to the claims of the outbox.                                 *)
THEOREM ClaimsCorrect == Spec => KeepsClaims
<1>1. Init => Protocol!ClaimsInit
  BY DEF Init, Box!Init, Protocol!ClaimsInit, Protocol!Init, InHand
<1>2. TypeOK /\ ClaimInv /\ CredentialsWithEvent /\ BrokerInv /\ [Next]_vars
      => [Protocol!ClaimsNext]_Protocol!cvars
  BY StepKeepsClaims
<1>3. PairingInv => TypeOK /\ ClaimInv /\ CredentialsWithEvent
  BY DEF PairingInv
<1> QED BY <1>1, <1>2, <1>3, PairingAlways, BrokerAlways, PTL
        DEF Spec, KeepsClaims, Protocol!ClaimsSpec
=============================================================================
