--------------------------- MODULE TimezoneProofs ---------------------------
(***************************************************************************)
(* Theorems about Timezone for every set of devices and zones, any number  *)
(* of overlapping changes and activations and any number of failures.      *)
(***************************************************************************)
EXTENDS Timezone, TLAPS

(* The outbox contract: an open event has an attempt left. *)
BoxInv ==
  \A e \in Events :
    /\ outcome[e] = "none" => failures[e] = 0
    /\ outcome[e] = "open" => failures[e] < MaxFailures

(* A created_at of a pending change, or activation, has no event yet. *)
ChangeStamps ==
  \A c \in Clients : req[c].at = "begun" =>
    req[c].id \in 1..stamps /\ \A d \in Devices : outcome[<<req[c].id, d>>] = "none"
ActivationStamps ==
  \A d \in Devices : act[d].at = "begun" =>
    act[d].id \in 1..stamps /\ \A d2 \in Devices : outcome[<<act[d].id, d2>>] = "none"

(* It belongs to one transaction. *)
OwnStamps ==
  /\ \A c, c2 \in Clients :
       req[c].at = "begun" /\ req[c2].at = "begun" /\ req[c].id = req[c2].id => c = c2
  /\ \A d, d2 \in Devices :
       act[d].at = "begun" /\ act[d2].at = "begun" /\ act[d].id = act[d2].id => d = d2
  /\ \A c \in Clients, d \in Devices :
       req[c].at = "begun" /\ act[d].at = "begun" => req[c].id # act[d].id

(* No event is stamped in the future. *)
PostedStamps == \A i \in Changes, d \in Devices : outcome[<<i, d>>] # "none" => i <= stamps

StampInv == ChangeStamps /\ ActivationStamps /\ OwnStamps /\ PostedStamps

(* What a pending activation read is still the account's timezone, and the *)
(* newest event of a device carries it, unless the history says otherwise. *)
ReadsCurrent ==
  \A d \in Devices : act[d].at \in {"read", "begun"} /\ ~act[d].stale =>
    act[d].zone = AccountZone
ActivePosted == \A d \in Devices : dev[d] = "active" => Posted(d) # {}
NewestTold ==
  \A d \in Devices \ missed : Posted(d) # {} =>
    \E i \in Posted(d) : Newest(i, d) /\ payload[i] = AccountZone

ToldInv == ReadsCurrent /\ ActivePosted /\ NewestTold

(* Only posted events are published, and only published ones are done. *)
EffectPosted == \A e \in effect : outcome[e] # "none"
DoneInEffect == \A e \in Events : outcome[e] = "done" => e \in effect

(* Of a device without a failed or late publish, the newest event is not   *)
(* abandoned and its rule is retained once it is published.                *)
NewestRetained ==
  \A d \in Devices \ late : \A i \in Posted(d) : Newest(i, d) =>
    /\ outcome[<<i, d>>] # "abandoned"
    /\ <<i, d>> \in effect => retained[d] = posixTZ(payload[i])

DeliveryInv == EffectPosted /\ DoneInEffect /\ NewestRetained

(* The inductive strengthening of the invariants. *)
TimezoneInv == TypeOK /\ BoxInv /\ StampInv /\ ToldInv /\ DeliveryInv

-----------------------------------------------------------------------------
(* Inserts and stamps *)

(* The events of a transaction, one by one. *)
LEMMA InsertFacts ==
  ASSUME TypeOK, NEW i \in Changes, NEW ds \in SUBSET Devices, NEW z \in Zones, Insert(i, ds, z)
  PROVE  /\ \A j \in Changes, d \in Devices :
              outcome'[<<j, d>>] = IF j = i /\ d \in ds THEN "open" ELSE outcome[<<j, d>>]
         /\ \A j \in Changes : payload'[j] = IF j = i THEN z ELSE payload[j]
         /\ outcome' \in [Events -> {"none", "open", "done", "abandoned"}]
         /\ payload' \in [Changes -> Zones \cup {None}]
         /\ \A e \in Events : outcome'[e] # "none" => payload'[e[1]] \in Zones
         /\ UNCHANGED <<failures, effect>>
<1>1. \A j \in Changes, d \in Devices : <<j, d>> \in Events
  BY DEF Events
<1>2. \A e \in Events : outcome'[e] = IF e[1] = i /\ e[2] \in ds THEN "open" ELSE outcome[e]
  BY DEF Insert
<1>3. \A j \in Changes : payload'[j] = IF j = i THEN z ELSE payload[j]
  BY DEF Insert, TypeOK
<1>4. outcome' \in [Events -> {"none", "open", "done", "abandoned"}]
  BY DEF Insert, TypeOK
<1>5. payload' \in [Changes -> Zones \cup {None}]
  BY DEF Insert, TypeOK
<1>6. \A e \in Events : outcome'[e] # "none" => payload'[e[1]] \in Zones
  BY <1>2, <1>3 DEF TypeOK, Events
<1>7. UNCHANGED <<failures, effect>>
  BY DEF Insert
<1> QED BY ONLY <1>1, <1>2, <1>3, <1>4, <1>5, <1>6, <1>7

(* A transaction with a fresh created_at only opens events.                *)
LEMMA InsertOpens ==
  ASSUME NEW i \in Changes, NEW ds \in SUBSET Devices, NEW z \in Zones, Insert(i, ds, z),
         \A d \in Devices : outcome[<<i, d>>] = "none"
  PROVE  \A e \in Events :
           outcome'[e] = outcome[e] \/ (outcome[e] = "none" /\ outcome'[e] = "open")
<1> SUFFICES ASSUME NEW e \in Events
             PROVE  outcome'[e] = outcome[e] \/ (outcome[e] = "none" /\ outcome'[e] = "open")
  OBVIOUS
<1>1. PICK j \in Changes, d \in Devices : e = <<j, d>>
  BY DEF Events
<1>2. outcome'[<<j, d>>] = IF j = i /\ d \in ds THEN "open" ELSE outcome[<<j, d>>]
  BY DEF Insert, Events
<1> QED BY <1>1, <1>2
-----------------------------------------------------------------------------
(* Types *)

(* Every step keeps the types and the contract of the outbox; the events   *)
(* of a commit were not there before.                                      *)
LEMMA TypeInductive ==
  ASSUME TypeOK, BoxInv, StampInv, [Next]_vars
  PROVE  (TypeOK /\ BoxInv)'
<1> USE TimezoneAssumption DEF TypeOK, BoxInv, eventVars, Error, Idle, Inactive
<1>1. CASE UNCHANGED vars
  BY <1>1 DEF vars
<1>2. CASE SignIn
  BY <1>2 DEF SignIn
<1>3. ASSUME NEW c \in Clients, ListDevices(c)
      PROVE  (TypeOK /\ BoxInv)'
  BY <1>3 DEF ListDevices
<1>4. ASSUME NEW c \in Clients, BeginChange(c)
      PROVE  (TypeOK /\ BoxInv)'
  <2>1. stamps' \in 0..MaxChanges /\ UNCHANGED <<zone, dev, act, payload, eventVars, retained, missed, late, errors>>
    BY <1>4 DEF BeginChange, BeginTx
  <2>2. req' \in [Clients -> [at: {"idle", "listed", "begun"}, list: SUBSET Devices,
                              id: 0..MaxChanges]]
    <3> HIDE DEF BoxInv, eventVars
    <3>1. req[c].at = "listed" /\ req' = [req EXCEPT ![c].at = "begun", ![c].id = stamps']
      BY <1>4 DEF BeginChange
    <3> DEFINE half == [req[c] EXCEPT !.at = "begun"]
               mine == [half EXCEPT !.id = stamps']
               Req  == [at: {"idle", "listed", "begun"}, list: SUBSET Devices, id: 0..MaxChanges]
    <3>2. half \in Req
      BY ONLY req \in [Clients -> Req], c \in Clients
    <3> HIDE DEF half
    <3>3. mine \in Req
      BY ONLY <2>1, <3>2
    <3> HIDE DEF mine
    <3>4. req' = [req EXCEPT ![c] = mine]
      BY ONLY <3>1, Zenon DEF half, mine
    <3> QED BY <3>3, <3>4
  <2> QED BY <2>1, <2>2
<1>5. ASSUME NEW c \in Clients, NEW z \in Zones, CommitChange(c, z)
      PROVE  (TypeOK /\ BoxInv)'
  <2>1. req[c].id \in Changes /\ \A d \in Devices : outcome[<<req[c].id, d>>] = "none"
    BY <1>5 DEF CommitChange, StampInv, ChangeStamps, Changes
  <2>2. Insert(req[c].id, req[c].list, z) /\ req[c].list \in SUBSET Devices
    BY <1>5 DEF CommitChange
  <2>3. /\ outcome' \in [Events -> {"none", "open", "done", "abandoned"}]
        /\ payload' \in [Changes -> Zones \cup {None}]
        /\ \A e \in Events : outcome'[e] # "none" => payload'[e[1]] \in Zones
        /\ UNCHANGED <<failures, effect>>
    BY <1>5, <2>1, <2>2, InsertFacts
  <2>4. BoxInv'
    <3>1. \A e \in Events : outcome'[e] = outcome[e] \/ (outcome[e] = "none" /\ outcome'[e] = "open")
      BY ONLY <2>1, <2>2, InsertOpens, z \in Zones
    <3> QED BY ONLY <2>3, <3>1, BoxInv, TimezoneAssumption DEF BoxInv
  <2>5. /\ act' \in [Devices -> [at: {"none", "claimed", "read", "begun"}, zone: Zones \cup {None},
                                id: 0..MaxChanges, stale: BOOLEAN]]
        /\ \A d \in Devices : act'[d].at \in {"read", "begun"} => act'[d].zone \in Zones
    <3> HIDE DEF BoxInv, eventVars
    <3>1. act' = [d \in Devices |->
            IF act[d].at \in {"read", "begun"} THEN [act[d] EXCEPT !.stale = TRUE] ELSE act[d]]
      BY <1>5 DEF CommitChange
    <3>2. \A d \in Devices : \/ act'[d] = act[d]
                             \/ /\ act[d].at \in {"read", "begun"}
                                /\ act'[d] = [act[d] EXCEPT !.stale = TRUE]
      BY <3>1
    <3>3. ASSUME NEW d \in Devices
          PROVE  /\ act'[d] \in [at: {"none", "claimed", "read", "begun"}, zone: Zones \cup {None},
                                 id: 0..MaxChanges, stale: BOOLEAN]
                 /\ act'[d].at \in {"read", "begun"} => act'[d].zone \in Zones
      <4>1. CASE act'[d] = act[d]
        BY <4>1
      <4>2. CASE act'[d] = [act[d] EXCEPT !.stale = TRUE] /\ act[d].at \in {"read", "begun"}
        <5>0. /\ act[d] \in [at: {"none", "claimed", "read", "begun"}, zone: Zones \cup {None},
                            id: 0..MaxChanges, stale: BOOLEAN]
              /\ act[d].at \in {"read", "begun"} => act[d].zone \in Zones
          OBVIOUS
        <5> HIDE DEF TypeOK
        <5>1. act'[d] = [at |-> act[d].at, zone |-> act[d].zone, id |-> act[d].id, stale |-> TRUE]
          BY <4>2, <5>0
        <5>2. act'[d].at = act[d].at /\ act'[d].zone = act[d].zone
          BY <5>1
        <5> QED BY <4>2, <5>0, <5>1, <5>2
      <4> QED BY <3>2, <4>1, <4>2
    <3> QED BY <3>1, <3>3
  <2>6. /\ req' = [req EXCEPT ![c] = Idle] /\ zone' \in Zones /\ missed' \subseteq Devices
        /\ UNCHANGED <<dev, stamps, retained, late, errors>>
    BY <1>5 DEF CommitChange, MissedBy
  <2> QED BY <2>3, <2>4, <2>5, <2>6
<1>6. ASSUME NEW c \in Clients, ChangeFails(c)
      PROVE  (TypeOK /\ BoxInv)'
  BY <1>6 DEF ChangeFails
<1>7. ASSUME NEW d \in Devices, ClaimCode(d)
      PROVE  (TypeOK /\ BoxInv)'
  BY <1>7 DEF ClaimCode
<1>8. ASSUME NEW d \in Devices, GetTimezone(d)
      PROVE  (TypeOK /\ BoxInv)'
  <2>1. PICK z \in Zones, failed \in BOOLEAN :
          act' = [act EXCEPT ![d] = [at |-> "read", zone |-> z, id |-> 0, stale |-> failed]]
    BY <1>8 DEF GetTimezone, Read
  <2>2. /\ act' \in [Devices -> [at: {"none", "claimed", "read", "begun"}, zone: Zones \cup {None},
                                id: 0..MaxChanges, stale: BOOLEAN]]
        /\ \A d2 \in Devices : act'[d2].at \in {"read", "begun"} => act'[d2].zone \in Zones
    BY <2>1
  <2>3. errors' \in 0..MaxErrors /\ UNCHANGED <<zone, dev, req, stamps, payload, eventVars, retained, missed, late>>
    BY <1>8 DEF GetTimezone, Read
  <2> QED BY <2>2, <2>3
<1>9. ASSUME NEW d \in Devices, BeginActivation(d)
      PROVE  (TypeOK /\ BoxInv)'
  <2>1. stamps' \in 0..MaxChanges /\ UNCHANGED <<zone, dev, req, payload, eventVars, retained, missed, late, errors>>
    BY <1>9 DEF BeginActivation, BeginTx
  <2>2. act' = [act EXCEPT ![d].at = "begun", ![d].id = stamps']
    BY <1>9 DEF BeginActivation
  <2>3. /\ act' \in [Devices -> [at: {"none", "claimed", "read", "begun"}, zone: Zones \cup {None},
                                id: 0..MaxChanges, stale: BOOLEAN]]
        /\ \A d2 \in Devices : act'[d2].at \in {"read", "begun"} => act'[d2].zone \in Zones
    <3>1. act[d].at = "read" /\ act[d].zone \in Zones
      BY <1>9 DEF BeginActivation
    <3> HIDE DEF BoxInv, eventVars
    <3> DEFINE half == [act[d] EXCEPT !.at = "begun"]
               mine == [half EXCEPT !.id = stamps']
               Act  == [at: {"none", "claimed", "read", "begun"}, zone: Zones \cup {None},
                        id: 0..MaxChanges, stale: BOOLEAN]
    <3>2. half \in Act /\ half.zone \in Zones
      BY ONLY <3>1, act \in [Devices -> Act], d \in Devices
    <3> HIDE DEF half
    <3>3. mine \in Act /\ mine.zone \in Zones
      BY ONLY <2>1, <3>2
    <3> HIDE DEF mine
    <3>4. act' = [act EXCEPT ![d] = mine]
      BY ONLY <2>2, Zenon DEF half, mine
    <3> QED BY <3>3, <3>4
  <2> QED BY <2>1, <2>3
<1>10. ASSUME NEW d \in Devices, CommitActivation(d)
      PROVE  (TypeOK /\ BoxInv)'
  <2>1. act[d].id \in Changes /\ \A d2 \in Devices : outcome[<<act[d].id, d2>>] = "none"
    BY <1>10 DEF CommitActivation, StampInv, ActivationStamps, Changes
  <2>2. Insert(act[d].id, {d}, act[d].zone) /\ act[d].zone \in Zones
    BY <1>10 DEF CommitActivation
  <2>3. /\ outcome' \in [Events -> {"none", "open", "done", "abandoned"}]
        /\ payload' \in [Changes -> Zones \cup {None}]
        /\ \A e \in Events : outcome'[e] # "none" => payload'[e[1]] \in Zones
        /\ UNCHANGED <<failures, effect>>
    BY <2>1, <2>2, InsertFacts
  <2>4. BoxInv'
    <3>1. \A e \in Events : outcome'[e] = outcome[e] \/ (outcome[e] = "none" /\ outcome'[e] = "open")
      BY ONLY <2>1, <2>2, InsertOpens, d \in Devices
    <3> QED BY ONLY <2>3, <3>1, BoxInv, TimezoneAssumption DEF BoxInv
  <2>5. /\ act' = [act EXCEPT ![d] = Inactive] /\ missed' \subseteq Devices
        /\ dev' \in [Devices -> {"absent", "bare", "active", "deleted"}]
        /\ UNCHANGED <<zone, req, stamps, retained, late, errors>>
    BY <1>10 DEF CommitActivation
  <2> QED BY <2>3, <2>4, <2>5
<1>11. ASSUME NEW d \in Devices, ActivationFails(d)
      PROVE  (TypeOK /\ BoxInv)'
  BY <1>11 DEF ActivationFails
<1>12. ASSUME NEW d \in Devices, DeleteDevice(d)
      PROVE  (TypeOK /\ BoxInv)'
  BY <1>12 DEF DeleteDevice
<1>13. ASSUME NEW e \in Events, Publish(e)
      PROVE  (TypeOK /\ BoxInv)'
  <2>1. /\ retained' = [retained EXCEPT ![e[2]] = Rule(e)]
        /\ late' \subseteq Devices /\ errors' \in 0..MaxErrors /\ effect' \subseteq Events
        /\ UNCHANGED <<outcome, failures, zone, dev, req, act, stamps, payload, missed>>
    BY <1>13 DEF Publish, Box!Act, Events
  <2>2. Rule(e) \in Rules
    BY <1>13 DEF Publish, Box!Act, Rule, Rules
  <2>3. retained' \in [Devices -> Rules \cup {None}]
    BY <2>1, <2>2
  <2> QED BY <2>1, <2>3
<1>14. ASSUME NEW e \in Events, PublishFails(e)
      PROVE  (TypeOK /\ BoxInv)'
  <2>1. /\ retained' \in {retained, [retained EXCEPT ![e[2]] = Rule(e)]}
        /\ late' \subseteq Devices /\ errors' \in 0..MaxErrors
        /\ UNCHANGED <<effect, zone, dev, req, act, stamps, payload, missed>>
    BY <1>14 DEF PublishFails, Box!Fail, Events
  <2>2. Rule(e) \in Rules
    BY <1>14 DEF PublishFails, Box!Fail, Rule, Rules
  <2>3. retained' \in [Devices -> Rules \cup {None}]
    BY <2>1, <2>2
  <2>4. /\ outcome[e] = "open" /\ failures' = [failures EXCEPT ![e] = failures[e] + 1]
        /\ outcome' = [outcome EXCEPT ![e] =
             IF failures[e] + 1 = MaxFailures THEN "abandoned" ELSE "open"]
    BY <1>14 DEF PublishFails, Box!Fail
  <2>5. failures[e] \in 0..MaxFailures /\ failures[e] < MaxFailures
    BY <2>4
  <2>6. failures[e] + 1 \in 0..MaxFailures /\ failures[e] + 1 <= MaxFailures
    BY ONLY <2>5, TimezoneAssumption DEF TimezoneAssumption
  <2>7. /\ \A f \in Events : f # e => outcome'[f] = outcome[f] /\ failures'[f] = failures[f]
        /\ failures'[e] = failures[e] + 1
        /\ outcome'[e] = IF failures[e] + 1 = MaxFailures THEN "abandoned" ELSE "open"
    BY <2>4
  <2>8. /\ outcome' \in [Events -> {"none", "open", "done", "abandoned"}]
        /\ failures' \in [Events -> 0..MaxFailures]
        /\ \A f \in Events : outcome'[f] # "none" => outcome[f] # "none"
    BY <2>4, <2>6
  <2>9. BoxInv'
    BY ONLY <2>5, <2>6, <2>7, BoxInv, TimezoneAssumption DEF BoxInv, TimezoneAssumption
  <2> QED BY <2>1, <2>3, <2>8, <2>9
<1>15. ASSUME NEW e \in Events, MarkCompleted(e)
      PROVE  (TypeOK /\ BoxInv)'
  <2>1. /\ outcome[e] = "open" /\ outcome' = [outcome EXCEPT ![e] = "done"]
        /\ UNCHANGED <<failures, effect, zone, dev, req, act, stamps, payload, retained, missed, late, errors>>
    BY ONLY <1>15 DEF MarkCompleted, Box!Confirm
  <2>2. BoxInv'
    BY ONLY <2>1, BoxInv, outcome \in [Events -> {"none", "open", "done", "abandoned"}] DEF BoxInv
  <2>3. /\ outcome' \in [Events -> {"none", "open", "done", "abandoned"}]
        /\ \A f \in Events : outcome'[f] # "none" => outcome[f] # "none"
    BY ONLY <2>1, outcome \in [Events -> {"none", "open", "done", "abandoned"}]
  <2> QED BY <2>1, <2>2, <2>3
<1> QED
  BY <1>1, <1>2, <1>3, <1>4, <1>5, <1>6, <1>7, <1>8, <1>9, <1>10, <1>11, <1>12, <1>13, <1>14, <1>15
  DEF Next, PatchMeHandler, Activate, Process

-----------------------------------------------------------------------------
(* Stamps *)

(* A transaction gets a created_at nobody holds and no event has; only its *)
(* own commit posts events with it.                                        *)
LEMMA StampInductive ==
  ASSUME TypeOK, StampInv, [Next]_vars
  PROVE  StampInv'
<1> USE TimezoneAssumption DEF TypeOK, StampInv, ChangeStamps, ActivationStamps, OwnStamps, PostedStamps, eventVars, Changes, Events, Idle, Inactive
<1>1. CASE UNCHANGED vars
  BY <1>1 DEF vars
<1>2. CASE SignIn
  BY <1>2 DEF SignIn
<1>3. ASSUME NEW c \in Clients, ListDevices(c)
      PROVE  StampInv'
  BY <1>3 DEF ListDevices
<1>4. ASSUME NEW c \in Clients, BeginChange(c)
      PROVE  StampInv'
  <2>1. /\ req[c].at = "listed" /\ stamps' = stamps + 1 /\ stamps' \in Changes
        /\ UNCHANGED <<act, outcome>>
    BY <1>4 DEF BeginChange, BeginTx
  <2>2. /\ req'[c].at = "begun" /\ req'[c].id = stamps'
        /\ \A c2 \in Clients \ {c} : req'[c2] = req[c2]
    BY <1>4 DEF BeginChange
  <2>3. \A d \in Devices : outcome[<<stamps', d>>] = "none"
    BY <2>1
  <2>4. stamps \in Nat
    OBVIOUS
  <2> HIDE DEF TypeOK, Events, Idle, Inactive
  <2> QED BY <2>1, <2>2, <2>3, <2>4
<1>5. ASSUME NEW c \in Clients, NEW z \in Zones, CommitChange(c, z)
      PROVE  StampInv'
  <2>1. /\ req[c].at = "begun" /\ req'[c].at = "idle" /\ UNCHANGED stamps
        /\ \A c2 \in Clients \ {c} : req'[c2] = req[c2]
        /\ \A d \in Devices : act'[d].at = act[d].at /\ act'[d].id = act[d].id
    BY <1>5 DEF CommitChange
  <2>2. Insert(req[c].id, req[c].list, z) /\ req[c].list \in SUBSET Devices
    BY <1>5 DEF CommitChange
  <2>3. \A i \in Changes, d \in Devices :
          i # req[c].id => outcome'[<<i, d>>] = outcome[<<i, d>>]
    <3> HIDE DEF TypeOK
    <3> QED BY <2>2 DEF Insert
  <2>4. stamps \in 0..MaxChanges
    OBVIOUS
  <2> HIDE DEF TypeOK, Events, Idle, Inactive
  <2>5. ChangeStamps'
    BY <2>1, <2>3, <2>4
  <2>6. ActivationStamps'
    BY <2>1, <2>3, <2>4
  <2>7. OwnStamps'
    BY <2>1, <2>3, <2>4
  <2>8. PostedStamps'
    BY <2>1, <2>3, <2>4
  <2> QED BY <2>5, <2>6, <2>7, <2>8
<1>6. ASSUME NEW c \in Clients, ChangeFails(c)
      PROVE  StampInv'
  BY <1>6 DEF ChangeFails
<1>7. ASSUME NEW d \in Devices, ClaimCode(d)
      PROVE  StampInv'
  BY <1>7 DEF ClaimCode
<1>8. ASSUME NEW d \in Devices, GetTimezone(d)
      PROVE  StampInv'
  <2>1. /\ UNCHANGED <<req, stamps, outcome>> /\ act'[d].at = "read"
        /\ \A d2 \in Devices \ {d} : act'[d2] = act[d2]
    BY <1>8 DEF GetTimezone, Read
  <2> HIDE DEF TypeOK, Events, Idle, Inactive
  <2>5. ChangeStamps'
    BY <2>1
  <2>6. ActivationStamps'
    BY <2>1
  <2>7. OwnStamps'
    BY <2>1
  <2>8. PostedStamps'
    BY <2>1
  <2> QED BY <2>5, <2>6, <2>7, <2>8
<1>9. ASSUME NEW d \in Devices, BeginActivation(d)
      PROVE  StampInv'
  <2>1. /\ act[d].at = "read" /\ stamps' = stamps + 1 /\ stamps' \in Changes
        /\ UNCHANGED <<req, outcome>>
    BY <1>9 DEF BeginActivation, BeginTx
  <2>2. /\ act'[d].at = "begun" /\ act'[d].id = stamps'
        /\ \A d2 \in Devices \ {d} : act'[d2] = act[d2]
    BY <1>9 DEF BeginActivation
  <2>3. \A d2 \in Devices : outcome[<<stamps', d2>>] = "none"
    BY <2>1
  <2>4. stamps \in Nat
    OBVIOUS
  <2> HIDE DEF TypeOK, Events, Idle, Inactive
  <2> QED BY <2>1, <2>2, <2>3, <2>4
<1>10. ASSUME NEW d \in Devices, CommitActivation(d)
      PROVE  StampInv'
  <2>1. /\ act[d].at = "begun" /\ act'[d].at = "none" /\ UNCHANGED <<stamps, req>>
        /\ \A d2 \in Devices \ {d} : act'[d2] = act[d2]
    BY <1>10 DEF CommitActivation
  <2>2. Insert(act[d].id, {d}, act[d].zone) /\ act[d].zone \in Zones
    BY <1>10 DEF CommitActivation
  <2>3. \A i \in Changes, d2 \in Devices :
          i # act[d].id => outcome'[<<i, d2>>] = outcome[<<i, d2>>]
    <3> HIDE DEF TypeOK
    <3> QED BY <2>2 DEF Insert
  <2>4. stamps \in 0..MaxChanges
    OBVIOUS
  <2> HIDE DEF TypeOK, Events, Idle, Inactive
  <2>5. ChangeStamps'
    BY <2>1, <2>3, <2>4
  <2>6. ActivationStamps'
    BY <2>1, <2>3, <2>4
  <2>7. OwnStamps'
    BY <2>1, <2>3, <2>4
  <2>8. PostedStamps'
    BY <2>1, <2>3, <2>4
  <2> QED BY <2>5, <2>6, <2>7, <2>8
<1>11. ASSUME NEW d \in Devices, ActivationFails(d)
      PROVE  StampInv'
  BY <1>11 DEF ActivationFails
<1>12. ASSUME NEW d \in Devices, DeleteDevice(d)
      PROVE  StampInv'
  BY <1>12 DEF DeleteDevice
<1>13. ASSUME NEW e \in Events, Publish(e)
      PROVE  StampInv'
  BY <1>13 DEF Publish, Box!Act
<1>14. ASSUME NEW e \in Events, PublishFails(e)
      PROVE  StampInv'
  BY <1>14 DEF PublishFails, Box!Fail, Rule
<1>15. ASSUME NEW e \in Events, MarkCompleted(e)
      PROVE  StampInv'
  BY <1>15 DEF MarkCompleted, Box!Confirm
<1> QED
  BY <1>1, <1>2, <1>3, <1>4, <1>5, <1>6, <1>7, <1>8, <1>9, <1>10, <1>11, <1>12, <1>13, <1>14, <1>15
  DEF Next, PatchMeHandler, Activate, Process

-----------------------------------------------------------------------------
(* The timezone devices are told *)

(* The events of a device after a commit. *)
LEMMA InsertPosted ==
  ASSUME TypeOK, NEW i \in Changes, NEW ds \in SUBSET Devices, NEW z \in Zones, Insert(i, ds, z),
         NEW d \in Devices
  PROVE  /\ d \in ds => Posted(d)' = Posted(d) \cup {i}
         /\ d \notin ds => Posted(d)' = Posted(d)
         /\ \A j \in Changes \ {i} : payload'[j] = payload[j]
         /\ payload'[i] = z
<1>1. \A j \in Changes : outcome'[<<j, d>>] = IF j = i /\ d \in ds THEN "open" ELSE outcome[<<j, d>>]
  BY DEF Insert, Events
<1>2. \A j \in Changes : payload'[j] = IF j = i THEN z ELSE payload[j]
  BY DEF Insert, TypeOK
<1> QED BY <1>1, <1>2 DEF Posted

(* A step that posts nothing, changes no timezone and reads none. *)
LEMMA ToldFrame ==
  ASSUME ToldInv, AccountZone' = AccountZone, payload' = payload, missed' = missed,
         \A e \in Events : outcome'[e] = "none" <=> outcome[e] = "none",
         \A d \in Devices : dev'[d] = "active" => dev[d] = "active",
         \A d \in Devices : act'[d].at \in {"read", "begun"} =>
           /\ act[d].at \in {"read", "begun"}
           /\ act'[d].zone = act[d].zone /\ act'[d].stale = act[d].stale
  PROVE  ToldInv'
<1>1. \A d \in Devices : Posted(d)' = Posted(d)
  BY DEF Posted, Events
<1>2. ReadsCurrent'
  BY DEF ToldInv, ReadsCurrent
<1>3. ActivePosted'
  BY <1>1 DEF ToldInv, ActivePosted
<1>4. NewestTold'
  BY <1>1 DEF ToldInv, NewestTold, Newest
<1> QED BY <1>2, <1>3, <1>4 DEF ToldInv

(* A change makes what was read stale, an activation tells what it read,   *)
(* and the events of both are newest unless the history says otherwise.    *)
LEMMA ToldInductive ==
  ASSUME TypeOK, StampInv, ToldInv, [Next]_vars
  PROVE  ToldInv'
<1> USE TimezoneAssumption DEF eventVars
<1>1. CASE UNCHANGED vars
  BY <1>1, ToldFrame DEF vars, AccountZone
<1>2. CASE SignIn
  BY <1>2, ToldFrame DEF SignIn, AccountZone
<1>3. ASSUME NEW c \in Clients, ListDevices(c)
      PROVE  ToldInv'
  BY <1>3, ToldFrame DEF ListDevices, AccountZone
<1>4. ASSUME NEW c \in Clients, BeginChange(c)
      PROVE  ToldInv'
  BY <1>4, ToldFrame DEF BeginChange, BeginTx, AccountZone
<1>5. ASSUME NEW c \in Clients, NEW z \in Zones, CommitChange(c, z)
      PROVE  ToldInv'
  <2>1. PICK i \in Changes : i = req[c].id /\ \A d \in Devices : outcome[<<i, d>>] = "none"
    BY <1>5 DEF CommitChange, StampInv, ChangeStamps, Changes, TypeOK
  <2>2. Insert(i, req[c].list, z) /\ req[c].list \in SUBSET Devices
    BY <1>5, <2>1 DEF CommitChange, TypeOK
  <2>3. /\ AccountZone' = z /\ dev' = dev /\ missed' = MissedBy(c)
        /\ \A d \in Devices : act'[d].at \in {"read", "begun"} => act'[d].stale
    BY <1>5 DEF CommitChange, AccountZone, TypeOK
  <2>4. ReadsCurrent'
    BY <2>3 DEF ReadsCurrent
  <2>5. ASSUME NEW d \in Devices
        PROVE  /\ d \in req[c].list => Posted(d)' = Posted(d) \cup {i}
               /\ d \notin req[c].list => Posted(d)' = Posted(d)
               /\ payload'[i] = z
    BY ONLY <2>1, <2>2, TypeOK, z \in Zones, d \in Devices, InsertPosted
  <2>6. ActivePosted'
    BY <2>3, <2>5 DEF ToldInv, ActivePosted
  <2>7. ASSUME NEW d \in Devices \ missed', Posted(d)' # {}
        PROVE  \E j \in Posted(d)' : Newest(j, d)' /\ payload'[j] = AccountZone'
    <3>1. d \in req[c].list /\ Newest(i, d)
      BY <2>1, <2>3, <2>5, <2>7 DEF MissedBy
    <3>2. i \in Posted(d)' /\ Newest(i, d)'
      BY <2>1, <2>5, <3>1 DEF Newest, Changes
    <3> QED BY <2>3, <2>5, <3>2
  <2>8. NewestTold'
    BY <2>7 DEF NewestTold
  <2> QED BY <2>4, <2>6, <2>8 DEF ToldInv
<1>6. ASSUME NEW c \in Clients, ChangeFails(c)
      PROVE  ToldInv'
  BY <1>6, ToldFrame DEF ChangeFails, AccountZone
<1>7. ASSUME NEW d \in Devices, ClaimCode(d)
      PROVE  ToldInv'
  BY <1>7, ToldFrame DEF ClaimCode, AccountZone, TypeOK
<1>8. ASSUME NEW d \in Devices, GetTimezone(d)
      PROVE  ToldInv'
  <2>1. /\ UNCHANGED <<zone, dev, payload, outcome, missed>>
        /\ \A d2 \in Devices \ {d} : act'[d2] = act[d2]
    BY <1>8 DEF GetTimezone, Read, TypeOK
  <2>2. act'[d].stale = TRUE \/ act'[d].zone = AccountZone
    BY <1>8 DEF GetTimezone, Read, AccountZone, TypeOK
  <2>3. ReadsCurrent'
    BY <2>1, <2>2 DEF ToldInv, ReadsCurrent, AccountZone
  <2>4. ActivePosted' /\ NewestTold'
    BY <2>1 DEF ToldInv, ActivePosted, NewestTold, Posted, Newest, AccountZone
  <2> QED BY <2>3, <2>4 DEF ToldInv
<1>9. ASSUME NEW d \in Devices, BeginActivation(d)
      PROVE  ToldInv'
  BY <1>9, ToldFrame DEF BeginActivation, BeginTx, AccountZone, TypeOK
<1>10. ASSUME NEW d \in Devices, CommitActivation(d)
      PROVE  ToldInv'
  <2>1. PICK i \in Changes : i = act[d].id /\ \A d2 \in Devices : outcome[<<i, d2>>] = "none"
    BY <1>10 DEF CommitActivation, StampInv, ActivationStamps, Changes, TypeOK
  <2>2. /\ Insert(i, {d}, act[d].zone) /\ act[d].zone \in Zones
        /\ AccountZone' = AccountZone /\ act[d].at = "begun"
        /\ missed' = IF ~Newest(i, d) THEN missed
                     ELSE IF act[d].stale THEN missed \cup {d} ELSE missed \ {d}
    BY <1>10, <2>1 DEF CommitActivation, TypeOK, AccountZone
  <2>3. /\ \A d2 \in Devices \ {d} : act'[d2] = act[d2] /\ dev'[d2] = dev[d2]
        /\ act'[d].at = "none"
    BY <1>10 DEF CommitActivation, Inactive, TypeOK
  <2>4. ReadsCurrent'
    BY <2>2, <2>3 DEF ToldInv, ReadsCurrent
  <2>5. ASSUME NEW d2 \in Devices
        PROVE  /\ d2 = d => Posted(d2)' = Posted(d2) \cup {i}
               /\ d2 # d => Posted(d2)' = Posted(d2)
               /\ \A j \in Changes \ {i} : payload'[j] = payload[j]
               /\ payload'[i] = act[d].zone
    <3>1. {d} \in SUBSET Devices
      OBVIOUS
    <3>2. /\ d2 \in {d} => Posted(d2)' = Posted(d2) \cup {i}
          /\ d2 \notin {d} => Posted(d2)' = Posted(d2)
          /\ \A j \in Changes \ {i} : payload'[j] = payload[j]
          /\ payload'[i] = act[d].zone
      BY <2>2, <3>1, InsertPosted
    <3> QED BY <3>2
  <2>6. ActivePosted'
    BY <2>3, <2>5 DEF ToldInv, ActivePosted
  <2>7. ASSUME NEW d2 \in Devices \ missed', Posted(d2)' # {}
        PROVE  \E j \in Posted(d2)' : Newest(j, d2)' /\ payload'[j] = AccountZone'
    <3>1. i \notin Posted(d2) /\ Posted(d2) \subseteq Changes
      BY <2>1 DEF Posted
    <3>2. CASE d2 # d
      <4>1. PICK j \in Posted(d2) : Newest(j, d2) /\ payload[j] = AccountZone
        BY <2>2, <2>5, <2>7, <3>2 DEF ToldInv, NewestTold
      <4> QED BY <2>2, <2>5, <3>1, <3>2, <4>1 DEF Newest
    <3>3. CASE d2 = d /\ Newest(i, d)
      <4>1. act[d].zone = AccountZone
        BY <2>2, <2>7, <3>3 DEF ToldInv, ReadsCurrent
      <4>2. i \in Posted(d)' /\ Newest(i, d)'
        BY <2>1, <2>5, <3>3 DEF Newest, Changes
      <4> QED BY <2>2, <2>5, <3>3, <4>1, <4>2
    <3>4. CASE d2 = d /\ ~Newest(i, d)
      <4>1. PICK k \in Posted(d) : ~(k <= i)
        BY <3>4 DEF Newest
      <4>2. PICK j \in Posted(d) : Newest(j, d) /\ payload[j] = AccountZone
        BY <2>2, <2>7, <3>4, <4>1 DEF ToldInv, NewestTold
      <4>3. i <= j
        BY <2>1, <3>1, <3>4, <4>1, <4>2 DEF Newest, Changes
      <4> QED BY <2>2, <2>5, <3>1, <3>4, <4>2, <4>3 DEF Newest
    <3> QED BY <3>2, <3>3, <3>4
  <2>8. NewestTold'
    BY <2>7 DEF NewestTold
  <2> QED BY <2>4, <2>6, <2>8 DEF ToldInv
<1>11. ASSUME NEW d \in Devices, ActivationFails(d)
      PROVE  ToldInv'
  BY <1>11, ToldFrame DEF ActivationFails, AccountZone, Inactive, TypeOK
<1>12. ASSUME NEW d \in Devices, DeleteDevice(d)
      PROVE  ToldInv'
  BY <1>12, ToldFrame DEF DeleteDevice, AccountZone, TypeOK
<1>13. ASSUME NEW e \in Events, Publish(e)
      PROVE  ToldInv'
  BY <1>13, ToldFrame DEF Publish, Box!Act, AccountZone
<1>14. ASSUME NEW e \in Events, PublishFails(e)
      PROVE  ToldInv'
  BY <1>14, ToldFrame DEF PublishFails, Box!Fail, AccountZone, TypeOK
<1>15. ASSUME NEW e \in Events, MarkCompleted(e)
      PROVE  ToldInv'
  BY <1>15, ToldFrame DEF MarkCompleted, Box!Confirm, AccountZone, TypeOK
<1> QED
  BY <1>1, <1>2, <1>3, <1>4, <1>5, <1>6, <1>7, <1>8, <1>9, <1>10, <1>11, <1>12, <1>13, <1>14, <1>15
  DEF Next, PatchMeHandler, Activate, Process

-----------------------------------------------------------------------------
(* What is retained *)

(* A step that posts, settles and publishes nothing. *)
LEMMA DeliveryFrame ==
  ASSUME DeliveryInv, UNCHANGED <<payload, eventVars, retained, late>>
  PROVE  DeliveryInv'
BY DEF DeliveryInv, EffectPosted, DoneInEffect, NewestRetained, Posted, Newest, eventVars

(* A commit of new events leaves those that are published as they are. *)
LEMMA InsertDelivery ==
  ASSUME TypeOK, DeliveryInv, UNCHANGED <<retained, late>>,
         NEW i \in Changes, NEW ds \in SUBSET Devices, NEW z \in Zones, Insert(i, ds, z),
         \A d \in Devices : outcome[<<i, d>>] = "none"
  PROVE  DeliveryInv'
<1>1. \A j \in Changes, d \in Devices :
        outcome'[<<j, d>>] = IF j = i /\ d \in ds THEN "open" ELSE outcome[<<j, d>>]
  BY DEF Insert, Events
<1>2. UNCHANGED <<failures, effect>> /\ \A d \in Devices : <<i, d>> \notin effect
  BY DEF Insert, DeliveryInv, EffectPosted
<1>3. EffectPosted' /\ DoneInEffect'
  <2>1. \A e \in Events : outcome'[e] = outcome[e] \/ (outcome[e] = "none" /\ outcome'[e] = "open")
    BY InsertOpens
  <2>2. effect \subseteq Events
    BY DEF TypeOK
  <2> QED BY ONLY <1>2, <2>1, <2>2, DeliveryInv DEF DeliveryInv, EffectPosted, DoneInEffect
<1>4. ASSUME NEW d \in Devices \ late, NEW j \in Posted(d)', Newest(j, d)'
      PROVE  /\ outcome'[<<j, d>>] # "abandoned"
             /\ <<j, d>> \in effect' => retained'[d] = posixTZ(payload'[j])
  <2>1. /\ d \in ds => Posted(d)' = Posted(d) \cup {i}
        /\ d \notin ds => Posted(d)' = Posted(d)
        /\ \A k \in Changes \ {i} : payload'[k] = payload[k]
    BY InsertPosted
  <2>2. CASE j = i
    BY <1>1, <1>2, <1>4, <2>1, <2>2 DEF Posted
  <2>3. CASE j # i
    <3>1. j \in Posted(d) /\ Newest(j, d) /\ j \in Changes
      BY <1>4, <2>1, <2>3 DEF Newest, Posted
    <3> QED BY <1>1, <1>2, <2>1, <2>3, <3>1 DEF DeliveryInv, NewestRetained
  <2> QED BY <2>2, <2>3
<1>5. NewestRetained'
  BY <1>4 DEF NewestRetained
<1> QED BY <1>3, <1>5 DEF DeliveryInv

(* A publish of the newest event leaves the right rule, one of an older    *)
(* event after it is late; only a failed publish abandons an event.        *)
LEMMA DeliveryInductive ==
  ASSUME TypeOK, StampInv, DeliveryInv, [Next]_vars
  PROVE  DeliveryInv'
<1>1. CASE UNCHANGED vars
  BY <1>1, DeliveryFrame DEF vars
<1>2. CASE SignIn
  BY <1>2, DeliveryFrame DEF SignIn, eventVars
<1>3. ASSUME NEW c \in Clients, ListDevices(c)
      PROVE  DeliveryInv'
  BY <1>3, DeliveryFrame DEF ListDevices, eventVars
<1>4. ASSUME NEW c \in Clients, BeginChange(c)
      PROVE  DeliveryInv'
  BY <1>4, DeliveryFrame DEF BeginChange, BeginTx, eventVars
<1>5. ASSUME NEW c \in Clients, NEW z \in Zones, CommitChange(c, z)
      PROVE  DeliveryInv'
  <2>1. PICK i \in Changes : i = req[c].id /\ \A d \in Devices : outcome[<<i, d>>] = "none"
    BY <1>5, TimezoneAssumption DEF CommitChange, StampInv, ChangeStamps, Changes, TypeOK
  <2>2. Insert(i, req[c].list, z) /\ req[c].list \in SUBSET Devices /\ UNCHANGED <<retained, late>>
    BY <1>5, <2>1 DEF CommitChange, TypeOK
  <2> QED BY <2>1, <2>2, InsertDelivery
<1>6. ASSUME NEW c \in Clients, ChangeFails(c)
      PROVE  DeliveryInv'
  BY <1>6, DeliveryFrame DEF ChangeFails, eventVars
<1>7. ASSUME NEW d \in Devices, ClaimCode(d)
      PROVE  DeliveryInv'
  BY <1>7, DeliveryFrame DEF ClaimCode, eventVars
<1>8. ASSUME NEW d \in Devices, GetTimezone(d)
      PROVE  DeliveryInv'
  BY <1>8, DeliveryFrame DEF GetTimezone, Read, eventVars
<1>9. ASSUME NEW d \in Devices, BeginActivation(d)
      PROVE  DeliveryInv'
  BY <1>9, DeliveryFrame DEF BeginActivation, BeginTx, eventVars
<1>10. ASSUME NEW d \in Devices, CommitActivation(d)
      PROVE  DeliveryInv'
  <2>1. PICK i \in Changes : i = act[d].id /\ \A d2 \in Devices : outcome[<<i, d2>>] = "none"
    BY <1>10, TimezoneAssumption DEF CommitActivation, StampInv, ActivationStamps, Changes, TypeOK
  <2>2. Insert(i, {d}, act[d].zone) /\ act[d].zone \in Zones /\ UNCHANGED <<retained, late>>
    BY <1>10, <2>1 DEF CommitActivation, TypeOK
  <2>3. {d} \in SUBSET Devices
    OBVIOUS
  <2> QED BY <2>1, <2>2, <2>3, InsertDelivery
<1>11. ASSUME NEW d \in Devices, ActivationFails(d)
      PROVE  DeliveryInv'
  BY <1>11, DeliveryFrame DEF ActivationFails, eventVars
<1>12. ASSUME NEW d \in Devices, DeleteDevice(d)
      PROVE  DeliveryInv'
  BY <1>12, DeliveryFrame DEF DeleteDevice, eventVars
<1>13. ASSUME NEW e \in Events, Publish(e)
      PROVE  DeliveryInv'
  <2>1. PICK i \in Changes, d \in Devices : e = <<i, d>>
    BY DEF Events
  <2>2. /\ outcome[e] = "open" /\ effect' = effect \cup {e}
        /\ UNCHANGED <<outcome, payload>>
        /\ retained'[d] = posixTZ(payload[i])
        /\ \A d2 \in Devices \ {d} : retained'[d2] = retained[d2]
        /\ late' = IF Behind(e) THEN late \cup {d}
                   ELSE IF Newest(i, d) THEN late \ {d} ELSE late
    BY <1>13, <2>1 DEF Publish, Box!Act, Rule, TypeOK
  <2>3. EffectPosted' /\ DoneInEffect'
    BY <2>2 DEF DeliveryInv, EffectPosted, DoneInEffect
  <2>4. /\ i \in Posted(d)
        /\ \A d2 \in Devices : Posted(d2)' = Posted(d2)
        /\ \A j \in Changes, d2 \in Devices : Newest(j, d2)' <=> Newest(j, d2)
    BY <2>1, <2>2 DEF Posted, Newest
  <2>5. ASSUME NEW d2 \in Devices \ late', NEW j \in Posted(d2), Newest(j, d2)
        PROVE  /\ outcome'[<<j, d2>>] # "abandoned"
               /\ <<j, d2>> \in effect' => retained'[d2] = posixTZ(payload'[j])
    <3>1. CASE d2 # d
      BY <2>1, <2>2, <2>5, <3>1 DEF DeliveryInv, NewestRetained
    <3>2. CASE d2 = d /\ j = i
      BY <2>1, <2>2, <3>2
    <3>3. CASE d2 = d /\ j # i
      <4>1. j \in Changes /\ i < j
        BY <2>4, <2>5, <3>3 DEF Newest, Posted, Changes
      <4>2. ~Behind(e)
        BY <2>2, <2>5, <3>3
      <4>3. <<j, d>> \notin effect'
        BY <2>1, <2>2, <3>3, <4>1, <4>2 DEF Behind
      <4>4. ~Newest(i, d)
        BY <2>5, <3>3, <4>1 DEF Newest, Changes
      <4> QED BY <2>2, <2>5, <3>3, <4>2, <4>3, <4>4 DEF DeliveryInv, NewestRetained
    <3> QED BY <3>1, <3>2, <3>3
  <2>6. NewestRetained'
    BY <2>2, <2>4, <2>5 DEF NewestRetained, Posted
  <2> QED BY <2>3, <2>6 DEF DeliveryInv
<1>14. ASSUME NEW e \in Events, PublishFails(e)
      PROVE  DeliveryInv'
  <2>1. PICK i \in Changes, d \in Devices : e = <<i, d>>
    BY DEF Events
  <2>2. /\ outcome[e] = "open" /\ outcome'[e] \in {"open", "abandoned"}
        /\ \A f \in Events \ {e} : outcome'[f] = outcome[f]
        /\ UNCHANGED <<effect, payload>>
        /\ \A d2 \in Devices \ {d} : retained'[d2] = retained[d2]
        /\ late' = late \cup {d}
    BY <1>14, <2>1 DEF PublishFails, Box!Fail, Rule, TypeOK
  <2>3. EffectPosted' /\ DoneInEffect'
    BY <2>2 DEF DeliveryInv, EffectPosted, DoneInEffect, TypeOK
  <2>4. \A d2 \in Devices : Posted(d2)' = Posted(d2)
    BY <2>1, <2>2 DEF Posted, Events
  <2>5. NewestRetained'
    BY <2>1, <2>2, <2>4 DEF DeliveryInv, NewestRetained, Newest, Posted, Events
  <2> QED BY <2>3, <2>5 DEF DeliveryInv
<1>15. ASSUME NEW e \in Events, MarkCompleted(e)
      PROVE  DeliveryInv'
  <2>1. /\ outcome[e] = "open" /\ outcome'[e] = "done" /\ e \in effect
        /\ \A f \in Events \ {e} : outcome'[f] = outcome[f]
        /\ UNCHANGED <<effect, payload, retained, late>>
    BY <1>15 DEF MarkCompleted, Box!Confirm, TypeOK
  <2>2. EffectPosted' /\ DoneInEffect'
    BY <2>1 DEF DeliveryInv, EffectPosted, DoneInEffect, TypeOK
  <2>3. \A d \in Devices : Posted(d)' = Posted(d)
    BY <2>1 DEF Posted, Events
  <2>4. NewestRetained'
    BY <2>1, <2>3 DEF DeliveryInv, NewestRetained, Newest, Posted, Events
  <2> QED BY <2>2, <2>4 DEF DeliveryInv
<1> QED
  BY <1>1, <1>2, <1>3, <1>4, <1>5, <1>6, <1>7, <1>8, <1>9, <1>10, <1>11, <1>12, <1>13, <1>14, <1>15
  DEF Next, PatchMeHandler, Activate, Process

-----------------------------------------------------------------------------
(* The theorems *)

LEMMA InitInv == Init => TimezoneInv
<1> SUFFICES ASSUME Init PROVE TimezoneInv
  OBVIOUS
<1>1. TypeOK /\ BoxInv
  BY TimezoneAssumption DEF Init, Box!Init, TypeOK, BoxInv, Idle, Inactive
<1>2. StampInv
  BY DEF Init, Box!Init, StampInv, ChangeStamps, ActivationStamps, OwnStamps, PostedStamps,
         Idle, Inactive, Events
<1>3. \A d \in Devices : Posted(d) = {}
  BY DEF Init, Box!Init, Posted, Events
<1>4. ToldInv
  BY <1>3 DEF Init, ToldInv, ReadsCurrent, ActivePosted, NewestTold, Inactive
<1>5. DeliveryInv
  BY <1>3 DEF Init, Box!Init, DeliveryInv, EffectPosted, DoneInEffect, NewestRetained
<1> QED BY <1>1, <1>2, <1>4, <1>5 DEF TimezoneInv

(* Every reachable state satisfies the inductive invariant. *)
LEMMA InvCorrect == Spec => []TimezoneInv
<1>1. TimezoneInv /\ [Next]_vars => TimezoneInv'
  BY TypeInductive, StampInductive, ToldInductive, DeliveryInductive DEF TimezoneInv
<1> QED BY <1>1, InitInv, PTL DEF Spec

(* Type correctness, for any devices, zones and bounds. *)
THEOREM TypeCorrect == Spec => []TypeOK
<1>1. TimezoneInv => TypeOK
  BY DEF TimezoneInv
<1> QED BY <1>1, InvCorrect, PTL

(* The newest event of an active device carries the account's timezone,    *)
(* unless the last change was overlapped: for any number of concurrent     *)
(* changes and activations that fail at any statement.                     *)
THEOREM ToldCorrect == Spec => []AllDevicesTold
<1>1. TimezoneInv => AllDevicesTold
  BY DEF TimezoneInv, ToldInv, ActivePosted, NewestTold, AllDevicesTold
<1> QED BY <1>1, InvCorrect, PTL

(* Once its events are settled a device's retained configuration is the    *)
(* rule of the account's timezone, in whatever order and however often     *)
(* they were published, with the stated exceptions.                        *)
THEOREM ConfigCorrect == Spec => []ConfigMatchesAccount
<1>1. ASSUME TimezoneInv, NEW d \in Devices \ (missed \cup late), dev[d] = "active",
             \A i \in Posted(d) : outcome[<<i, d>>] # "open"
      PROVE  retained[d] = posixTZ(AccountZone)
  <2>1. PICK i \in Posted(d) : Newest(i, d) /\ payload[i] = AccountZone
    BY <1>1 DEF TimezoneInv, ToldInv, ActivePosted, NewestTold
  <2>2. <<i, d>> \in Events /\ outcome[<<i, d>>] \notin {"none", "open", "abandoned"}
    BY <1>1, <2>1 DEF TimezoneInv, DeliveryInv, NewestRetained, Posted, Events
  <2>3. <<i, d>> \in effect
    BY <1>1, <2>2 DEF TimezoneInv, TypeOK, DeliveryInv, DoneInEffect
  <2> QED BY <1>1, <2>1, <2>3 DEF TimezoneInv, DeliveryInv, NewestRetained
<1>2. TimezoneInv => ConfigMatchesAccount
  BY <1>1 DEF ConfigMatchesAccount
<1> QED BY <1>2, InvCorrect, PTL
-----------------------------------------------------------------------------
(* The outbox as its contract promises it *)

(* The INSERTs of a transaction post its events together.                  *)
LEMMA InsertPosts ==
  ASSUME NEW i \in Changes, NEW ds \in SUBSET Devices, NEW z, Insert(i, ds, z),
         \A d \in Devices : outcome[<<i, d>>] = "none"
  PROVE  Box!Next
<1> DEFINE S == {e \in Events : e[1] = i /\ e[2] \in ds}
<1>1. \A e \in S : outcome[e] = "none"
  BY DEF Events
<1>2. outcome' = [e \in Events |-> IF e \in S THEN "open" ELSE outcome[e]]
  BY DEF Insert
<1>3. UNCHANGED <<failures, effect>>
  BY DEF Insert
<1>4. S \in SUBSET Events
  OBVIOUS
<1> HIDE DEF S
<1>5. Box!PostAll(S)
  BY <1>1, <1>2, <1>3 DEF Box!PostAll
<1> QED BY <1>4, <1>5 DEF Box!Next

(* A created_at belongs to one transaction, so its events are new.         *)
LEMMA StepKeepsDelivery ==
  ASSUME TypeOK, StampInv, [Next]_vars
  PROVE  [Box!Next]_Box!dvars
<1> USE DEF Box!dvars, eventVars
<1>1. ASSUME NEW c \in Clients, NEW z \in Zones, CommitChange(c, z)
      PROVE  Box!Next
  <2>1. /\ req[c].id \in Changes /\ req[c].list \in SUBSET Devices
        /\ \A d \in Devices : outcome[<<req[c].id, d>>] = "none"
    BY <1>1, TimezoneAssumption DEF CommitChange, StampInv, ChangeStamps, TypeOK, Changes
  <2> QED BY <1>1, <2>1, InsertPosts DEF CommitChange
<1>2. ASSUME NEW d \in Devices, CommitActivation(d)
      PROVE  Box!Next
  <2>1. /\ act[d].id \in Changes /\ {d} \in SUBSET Devices
        /\ \A d2 \in Devices : outcome[<<act[d].id, d2>>] = "none"
    BY <1>2, TimezoneAssumption DEF CommitActivation, StampInv, ActivationStamps, TypeOK, Changes
  <2> QED BY <1>2, <2>1, InsertPosts DEF CommitActivation
<1>3. ASSUME NEW e \in Events, Process(e) \/ PublishFails(e)
      PROVE  Box!Next
  BY <1>3 DEF Process, Publish, MarkCompleted, PublishFails, Box!Next
<1>4. ASSUME \/ UNCHANGED vars \/ SignIn
             \/ \E c \in Clients : ListDevices(c) \/ BeginChange(c) \/ ChangeFails(c)
             \/ \E d \in Devices : \/ ClaimCode(d) \/ GetTimezone(d) \/ BeginActivation(d)
                                   \/ ActivationFails(d) \/ DeleteDevice(d)
      PROVE  UNCHANGED Box!dvars
  BY <1>4 DEF vars, SignIn, ListDevices, BeginChange, ChangeFails, ClaimCode, GetTimezone,
     BeginActivation, ActivationFails, DeleteDevice
<1> QED BY <1>1, <1>2, <1>3, <1>4 DEF Next, PatchMeHandler, Activate

(* UpdateTimezone and the activation post whole sets of events, and the    *)
(* events keep the contract of the outbox.                                 *)
THEOREM DeliveryCorrect == Spec => KeepsDelivery
<1>1. Init => Box!Init
  BY DEF Init
<1>2. TimezoneInv /\ [Next]_vars => [Box!Next]_Box!dvars
  BY StepKeepsDelivery DEF TimezoneInv
<1> QED BY <1>1, <1>2, InvCorrect, PTL DEF Spec, KeepsDelivery, Box!Spec
=============================================================================
