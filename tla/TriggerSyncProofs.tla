------------------------- MODULE TriggerSyncProofs -------------------------
(***************************************************************************)
(* Proofs about TriggerSync, for any clients, rules and changes: the row   *)
(* is the last change, requests one at a time are all kept, and without    *)
(* overlap, disorder and errors the topic follows the row.                 *)
(***************************************************************************)
EXTENDS TriggerSync, TLAPS

(* The outbox contract, and what the runner has in hand is open. *)
RunnerInv ==
  /\ \A i \in Changes :
       /\ outcome[i] = "open" => failures[i] < MaxFailures
       /\ outcome[i] = "none" => failures[i] = 0
       /\ i \in batch => outcome[i] = "open" /\ turn.id # i
       /\ turn.id = i => outcome[i] = "open"
  /\ turn.id = 0 <=> turn.step = "none"

(* A request in flight has read a row; its created_at is its own and its   *)
(* event is not there yet.                                                 *)
RequestInv ==
  /\ last <= stamps
  /\ \A i \in Changes : outcome[i] # "none" => i <= stamps
  /\ \A c \in Clients :
       /\ req[c].at = "idle" => req[c] = IdleReq
       /\ req[c] # IdleReq =>
            /\ row # Nothing
            /\ req[c].body \in Upserts \cup {Delete}
            /\ req[c].body \in Upserts => req[c].field \in Fields
       /\ req[c].at = "begun" =>
            req[c].id \in 1..stamps /\ outcome[req[c].id] = "none"
  /\ \A c, d \in Clients :
       req[c].at = "begun" /\ req[d].at = "begun" /\ req[c].id = req[d].id => c = d

RowInv ==
  /\ last = 0 <=> row = Nothing
  /\ want.op = row.op
  /\ \A i \in Changes : outcome[i] = "none" => payload[i] = Nothing
  /\ RowIsLastChange

(* A request that runs alone stores the row with its one field changed. *)
PatchInv ==
  ~overlap =>
    /\ row = want
    /\ \A c \in Clients : req[c] # IdleReq =>
         /\ \A d \in Clients : d # c => req[d] = IdleReq
         /\ Alive
         /\ req[c].body # Delete =>
              req[c].body = [row EXCEPT ![req[c].field] = req[c].body[req[c].field]]


(* Requests one at a time commit in the order of created_at. *)
CommitOrder ==
  /\ \A i \in Changes : outcome[i] # "none" => i <= last
  /\ \A c \in Clients : req[c].at = "begun" => last < req[c].id

(* Nothing newer than an open event was processed or is in hand. *)
ProcessOrder ==
  \A i, j \in Changes :
    i < j /\ outcome[i] = "open" => outcome[j] # "done" /\ turn.id # j

(* The topic shows the newest event that was published. *)
TopicInv ==
  /\ turn.step \in {"none", "publish"} =>
       /\ \A i \in Changes :
            outcome[i] = "done" /\ (\A j \in Changes : i < j => outcome[j] # "done")
            => retained = Seen(payload[i])
       /\ (\A i \in Changes : outcome[i] # "done") => retained = Nothing
  /\ turn.step = "ok" => retained = Seen(payload[turn.id])
  /\ turn.step = "clear" => payload[turn.id] = Delete

SyncInv ==
  Calm => /\ CommitOrder /\ ProcessOrder /\ TopicInv
          /\ turn.step # "failed"
          /\ \A i \in Changes : outcome[i] # "abandoned"

TriggerInv == TypeOK /\ RunnerInv /\ RequestInv /\ RowInv
-----------------------------------------------------------------------------
(* What each step leaves alone *)

LEMMA RequestFrame ==
  ASSUME NEW c \in Clients,
         Get(c) \/ BeginUpdate(c) \/ BeginDelete(c) \/ Refuse(c)
  PROVE  UNCHANGED <<row, payload, last, want, outcome, failures, effect,
                     batch, turn, stuck, disorder, retained, errors>>
BY DEF Get, BeginUpdate, BeginDelete, Refuse, rowVars, eventVars, runnerVars

LEMMA StoreFrame ==
  ASSUME NEW c \in Clients, Create(c) \/ Commit(c)
  PROVE  UNCHANGED <<failures, effect, batch, turn, stuck, disorder, retained, overlap, errors>>
BY DEF Create, Commit, Store, Box!Post, runnerVars

LEMMA ProcessFrame ==
  ASSUME NEW i \in Changes, Process(i) \/ ClaimExpires(i)
  PROVE  UNCHANGED <<row, payload, last, want, stamps, req, overlap>>
<1>1. CASE TakeNext(i)
  BY <1>1 DEF TakeNext, rowVars
<1>2. CASE Publish(i)
  BY <1>2 DEF Publish, rowVars
<1>3. CASE Clear(i)
  BY <1>3 DEF Clear, rowVars
<1>4. CASE Settle(i)
  BY <1>4 DEF Settle, rowVars
<1>5. CASE ClaimExpires(i)
  BY <1>5 DEF ClaimExpires, rowVars
<1> QED BY <1>1, <1>2, <1>3, <1>4, <1>5 DEF Process

LEMMA ClaimFrame ==
  ASSUME ClaimBatch
  PROVE  UNCHANGED <<row, payload, last, want, stamps, req, outcome, failures, effect,
                     turn, stuck, disorder, retained, overlap, errors>>
BY DEF ClaimBatch, rowVars, eventVars

LEMMA CrashFrame ==
  ASSUME Crash
  PROVE  UNCHANGED <<row, payload, last, want, stamps, outcome, failures, effect,
                     disorder, retained, overlap>>
BY DEF Crash, rowVars, eventVars

LEMMA EventFrame ==
  ASSUME NEW i \in Changes, TakeNext(i) \/ Clear(i) \/ ClaimExpires(i)
  PROVE  UNCHANGED <<outcome, failures, effect>>
BY DEF TakeNext, Clear, ClaimExpires, eventVars

LEMMA StutterFrame ==
  ASSUME UNCHANGED vars
  PROVE  UNCHANGED <<row, payload, last, want, stamps, req, outcome, failures, effect,
                     batch, turn, stuck, disorder, retained, overlap, errors>>
BY DEF vars, rowVars, eventVars, runnerVars

(* A commit stores one row, one event and its message. *)
LEMMA StoreSteps ==
  ASSUME TypeOK, NEW i \in Changes, NEW body, Store(i, body)
  PROVE  /\ row' = body /\ last' = i
         /\ outcome[i] = "none" /\ outcome'[i] = "open" /\ payload'[i] = body
         /\ outcome' = [outcome EXCEPT ![i] = "open"]
         /\ payload' = [payload EXCEPT ![i] = body]
         /\ \A j \in Changes : j # i => outcome'[j] = outcome[j] /\ payload'[j] = payload[j]
BY DEF TypeOK, Store, Box!Post

(* The event of a Create, with the trigger's first configuration. *)
LEMMA CreateSteps ==
  ASSUME TypeOK, NEW c \in Clients, Create(c)
  PROVE  /\ row = Nothing /\ UNCHANGED req
         /\ stamps' = stamps + 1 /\ stamps' \in Changes
         /\ \E body \in Upserts : Store(stamps', body) /\ want' = body
<1>1. PICK rule \in Rules :
        LET body == [op |-> "upsert", enabled |-> TRUE, rule |-> rule]
        IN  Store(stamps', body) /\ want' = body
  BY DEF Create
<1>2. [op |-> "upsert", enabled |-> TRUE, rule |-> rule] \in Upserts
  BY DEF Upserts
<1>3. stamps' = stamps + 1 /\ stamps' \in Changes
  BY TriggerSyncAssumption DEF Create, TypeOK, Changes
<1> QED BY <1>1, <1>2, <1>3 DEF Create

(* A publish succeeds, or fails and leaves the events alone. *)
LEMMA PublishSteps ==
  ASSUME NEW i \in Changes, Publish(i)
  PROVE  /\ turn = [id |-> i, step |-> "publish"] /\ UNCHANGED <<outcome, failures, batch, stuck, disorder>>
         /\ \/ /\ effect' = effect \cup {i} /\ outcome[i] = "open" /\ UNCHANGED errors
               /\ retained' = payload[i]
               /\ turn' = [id |-> i, step |-> AfterPublish(payload[i])]
            \/ /\ UNCHANGED effect /\ Error
               /\ retained' \in {retained, payload[i]}
               /\ turn' = [id |-> i, step |-> "failed"]
BY DEF Publish, At, Box!Act, eventVars

(* The runner confirms the event, counts the failure, or cannot write. *)
LEMMA SettleSteps ==
  ASSUME TypeOK, NEW i \in Changes, Settle(i)
  PROVE  /\ turn' = IdleTurn /\ turn.id = i /\ UNCHANGED <<batch, disorder, retained, effect>>
         /\ \/ /\ turn.step = "ok" /\ outcome' = [outcome EXCEPT ![i] = "done"]
               /\ UNCHANGED <<failures, stuck, errors>>
            \/ /\ turn.step = "failed" /\ failures' = [failures EXCEPT ![i] = failures[i] + 1]
               /\ outcome' = [outcome EXCEPT ![i] =
                    IF failures[i] + 1 = MaxFailures THEN "abandoned" ELSE "open"]
               /\ UNCHANGED <<stuck, errors>>
            \/ /\ Error /\ stuck' = stuck \cup {i} /\ UNCHANGED <<outcome, failures>>
<1>1. /\ turn' = IdleTurn /\ UNCHANGED <<batch, disorder, retained>>
  BY DEF Settle
<1>2. CASE At(i, "ok") /\ Box!Confirm(i) /\ UNCHANGED <<stuck, errors>>
  BY <1>1, <1>2 DEF At, Box!Confirm
<1>3. CASE At(i, "failed") /\ Box!Fail(i) /\ UNCHANGED <<stuck, errors>>
  BY <1>1, <1>3 DEF At, Box!Fail
<1>4. CASE (At(i, "ok") \/ At(i, "failed")) /\ Error /\ stuck' = stuck \cup {i} /\ UNCHANGED eventVars
  BY <1>1, <1>4 DEF At, eventVars
<1> QED BY <1>2, <1>3, <1>4 DEF Settle

LEMMA SettleKeeps ==
  ASSUME TypeOK, NEW i \in Changes, Settle(i)
  PROVE  \A j \in Changes : outcome'[j] = "none" <=> outcome[j] = "none"
BY DEF TypeOK, Settle, Box!Confirm, Box!Fail, eventVars

-----------------------------------------------------------------------------
(* The types, requests and the runner *)

RequestType == [at: {"idle", "read", "begun"}, id: 0..MaxChanges,
                body: Message, field: Fields \cup {"none"}]

LEMMA IdleFacts ==
  ASSUME TypeOK
  PROVE  IdleReq \in RequestType /\ IdleReq.at = "idle" /\ req \in [Clients -> RequestType]
BY TriggerSyncAssumption DEF TypeOK, RequestType, IdleReq, Message

LEMMA RowFacts ==
  ASSUME TypeOK
  PROVE  Alive <=> row \in Upserts
BY DEF TypeOK, Alive, Message, Upserts, Nothing, Delete

(* A patch of one field gives a configuration again. *)
LEMMA PatchedType ==
  ASSUME NEW m \in Upserts, NEW f \in Fields, NEW v,
         f = "enabled" => v \in BOOLEAN, f = "rule" => v \in Rules
  PROVE  [m EXCEPT ![f] = v] \in Upserts
BY DEF Upserts, Fields

(* A request reads the row and merges its one field. *)
LEMMA GetSteps ==
  ASSUME TypeOK, NEW c \in Clients, Get(c)
  PROVE  /\ Alive /\ row \in Upserts /\ req[c] = IdleReq /\ UNCHANGED stamps
         /\ overlap' = (overlap \/ Busy(c))
         /\ \E f \in Fields, b \in Upserts :
              /\ b = [row EXCEPT ![f] = b[f]]
              /\ req' = [req EXCEPT ![c] = [at |-> "read", id |-> 0, field |-> f, body |-> b]]
<1>1. PICK p \in Patches :
        req' = [req EXCEPT ![c] = [at |-> "read", id |-> 0, field |-> p.field,
                                   body |-> Merge(row, p.field, p.value)]]
  BY DEF Get
<1>2. row \in Upserts
  BY RowFacts DEF Get
<1>3. /\ p.field \in Fields
      /\ p.field = "enabled" => p.value \in BOOLEAN
      /\ p.field = "rule" => p.value \in Rules
  BY DEF Patches, Fields
<1>4. Merge(row, p.field, p.value) \in Upserts
  BY <1>2, <1>3, PatchedType DEF Merge
<1>5. Merge(row, p.field, p.value)[p.field] = p.value
  BY <1>2, <1>3 DEF Merge, Upserts, Fields
<1>6. Merge(row, p.field, p.value)
        = [row EXCEPT ![p.field] = Merge(row, p.field, p.value)[p.field]]
  BY <1>5 DEF Merge
<1> QED BY <1>1, <1>2, <1>3, <1>4, <1>6 DEF Get

LEMMA BegunType ==
  ASSUME NEW c \in Clients, req \in [Clients -> RequestType], NEW n \in 0..MaxChanges
  PROVE  [req EXCEPT ![c].at = "begun", ![c].id = n] \in [Clients -> RequestType]
BY DEF RequestType

(* Its transaction begins: the request gets its created_at. *)
LEMMA BeginSteps ==
  ASSUME TypeOK, NEW c \in Clients, BeginUpdate(c) \/ BeginDelete(c)
  PROVE  /\ stamps' = stamps + 1 /\ stamps' \in Changes
         /\ \E r \in RequestType :
              /\ r.at = "begun" /\ r.id = stamps' /\ req' = [req EXCEPT ![c] = r]
              /\ \/ /\ req[c].at = "read" /\ r.body = req[c].body /\ r.field = req[c].field
                    /\ UNCHANGED overlap
                 \/ /\ req[c] = IdleReq /\ Alive /\ r.body = Delete
                    /\ overlap' = (overlap \/ Busy(c))
<1>1. stamps' = stamps + 1 /\ stamps' \in Changes
  BY TriggerSyncAssumption DEF BeginUpdate, BeginDelete, TypeOK, Changes
<1>2. req[c] \in RequestType /\ stamps' \in 0..MaxChanges /\ req \in [Clients -> RequestType]
  BY <1>1, IdleFacts DEF Changes
<1>3. CASE BeginUpdate(c)
  <2>1. req' = [req EXCEPT ![c].at = "begun", ![c].id = stamps']
    BY <1>3 DEF BeginUpdate
  <2>2. PICK r : r = [at |-> "begun", id |-> stamps', body |-> req[c].body, field |-> req[c].field]
    OBVIOUS
  <2>3. r \in RequestType
    BY <1>2, <2>2 DEF RequestType
  <2>4. req' = [req EXCEPT ![c] = r]
    <3>1. req' \in [Clients -> RequestType]
      BY <1>2, <2>1, BegunType
    <3>2. req'[c] = r
      BY <1>2, <2>1, <2>2 DEF RequestType
    <3>3. \A d \in Clients : d # c => req'[d] = req[d]
      BY <1>2, <2>1
    <3> QED BY <1>2, <3>1, <3>2, <3>3
  <2> QED BY <1>1, <1>3, <2>2, <2>3, <2>4 DEF BeginUpdate
<1>4. CASE BeginDelete(c)
  <2>1. PICK r : r = [at |-> "begun", id |-> stamps', field |-> "none", body |-> Delete]
    OBVIOUS
  <2>2. r \in RequestType
    BY <1>2, <2>1 DEF RequestType, Message
  <2> QED BY <1>1, <1>4, <2>1, <2>2 DEF BeginDelete
<1> QED BY <1>3, <1>4

(* The trigger is there, and the request's message becomes its row. *)
LEMMA CommitSteps ==
  ASSUME TypeOK, RequestInv, NEW c \in Clients, Commit(c)
  PROVE  /\ req[c].at = "begun" /\ req[c] # IdleReq /\ row \in Upserts
         /\ req[c].id \in Changes /\ req[c].id <= stamps
         /\ Store(req[c].id, req[c].body) /\ want' = Requested(c) /\ UNCHANGED stamps
         /\ req[c].body \in Upserts \cup {Delete}
         /\ req' = [req EXCEPT ![c] = IdleReq]
<1>1. /\ req[c].at = "begun" /\ Alive /\ Store(req[c].id, req[c].body)
      /\ want' = Requested(c) /\ UNCHANGED stamps /\ req' = [req EXCEPT ![c] = IdleReq]
  BY DEF Commit
<1>2. req[c] # IdleReq
  BY <1>1, IdleFacts
<1>3. req[c].id \in 1..stamps /\ req[c].body \in Upserts \cup {Delete}
  BY <1>1, <1>2 DEF RequestInv
<1>4. req[c].id \in Changes /\ req[c].id <= stamps
  BY <1>3, TriggerSyncAssumption DEF TypeOK, Changes
<1> QED BY <1>1, <1>2, <1>3, <1>4, RowFacts

(* Every request and every step of the runner keeps the types. *)
LEMMA TypeInductive ==
  ASSUME TriggerInv, [Next]_vars
  PROVE  TypeOK'
<1>0. TypeOK /\ RunnerInv /\ RequestInv /\ RowInv
  BY DEF TriggerInv
<1>t. /\ req \in [Clients -> RequestType] /\ IdleReq \in RequestType
      /\ (TypeOK' <=> TypeOK' /\ req' \in [Clients -> RequestType])
  BY <1>0, IdleFacts DEF TypeOK, RequestType
<1>1. CASE UNCHANGED vars
  BY <1>0, <1>1, StutterFrame DEF TypeOK
<1>2. ASSUME NEW c \in Clients, Create(c)
      PROVE  TypeOK'
  <2>1. PICK body \in Upserts : Store(stamps', body) /\ want' = body
    BY <1>0, <1>2, CreateSteps
  <2>2. body \in Message /\ stamps' \in Changes /\ stamps' \in 0..MaxChanges /\ UNCHANGED req
    BY <1>0, <1>2, CreateSteps DEF Message, Changes
  <2>3. /\ row' = body /\ last' = stamps'
        /\ outcome' = [outcome EXCEPT ![stamps'] = "open"]
        /\ payload' = [payload EXCEPT ![stamps'] = body]
    BY <1>0, <2>1, <2>2, StoreSteps
  <2> QED BY <1>0, <1>2, <2>1, <2>2, <2>3, StoreFrame DEF TypeOK
<1>3. ASSUME NEW c \in Clients, Get(c)
      PROVE  TypeOK'
  <2>1. PICK f \in Fields, b \in Upserts :
          req' = [req EXCEPT ![c] = [at |-> "read", id |-> 0, field |-> f, body |-> b]]
    BY <1>0, <1>3, GetSteps
  <2>2. [at |-> "read", id |-> 0, field |-> f, body |-> b] \in RequestType
    BY TriggerSyncAssumption DEF RequestType, Message
  <2>3. req' \in [Clients -> RequestType]
    BY <1>t, <2>1, <2>2
  <2>4. UNCHANGED stamps /\ overlap' \in BOOLEAN
    BY <1>0, <1>3, GetSteps DEF TypeOK, Busy
  <2> QED BY <1>0, <1>3, <2>3, <2>4, RequestFrame DEF TypeOK, RequestType
<1>4. ASSUME NEW c \in Clients, BeginUpdate(c) \/ BeginDelete(c)
      PROVE  TypeOK'
  <2>1. PICK r \in RequestType : req' = [req EXCEPT ![c] = r] /\ stamps' \in Changes
                                /\ overlap' \in {overlap, overlap \/ Busy(c)}
    BY <1>0, <1>4, BeginSteps
  <2>2. req' \in [Clients -> RequestType] /\ stamps' \in 0..MaxChanges
    BY <1>t, <2>1 DEF Changes
  <2>3. overlap' \in BOOLEAN
    BY <1>0, <2>1 DEF TypeOK, Busy
  <2> QED BY <1>0, <1>4, <2>2, <2>3, RequestFrame DEF TypeOK, RequestType
<1>6. ASSUME NEW c \in Clients, Commit(c)
      PROVE  TypeOK'
  <2>0. /\ Store(req[c].id, req[c].body) /\ req[c].body \in Upserts \cup {Delete}
        /\ req[c].id \in Changes /\ want' = Requested(c) /\ UNCHANGED stamps
        /\ req' = [req EXCEPT ![c] = IdleReq] /\ row \in Upserts /\ req[c] # IdleReq
    BY <1>0, <1>6, CommitSteps
  <2>1. want \in Upserts
    BY <1>0, <2>0 DEF RowInv, TypeOK, Message, Upserts, Nothing, Delete
  <2>2. Requested(c) \in Message
    <3>1. CASE req[c].body = Delete
      BY <3>1 DEF Requested, Message
    <3>2. CASE req[c].body \in Upserts
      <4>1. req[c].field \in Fields
        BY <1>0, <2>0, <3>2 DEF RequestInv
      <4>2. /\ req[c].field = "enabled" => req[c].body[req[c].field] \in BOOLEAN
            /\ req[c].field = "rule" => req[c].body[req[c].field] \in Rules
        BY <3>2 DEF Upserts
      <4>3. [want EXCEPT ![req[c].field] = req[c].body[req[c].field]] \in Upserts
        BY <2>1, <4>1, <4>2, PatchedType
      <4> QED BY <4>3 DEF Requested, Message
    <3> QED BY <2>0, <3>1, <3>2
  <2>3. req' \in [Clients -> RequestType]
    BY <1>t, <2>0
  <2>4. req[c].body \in Message /\ req[c].id \in 0..MaxChanges
    BY <2>0 DEF Message, Changes
  <2>5. /\ row' = req[c].body /\ last' = req[c].id
        /\ outcome' = [outcome EXCEPT ![req[c].id] = "open"]
        /\ payload' = [payload EXCEPT ![req[c].id] = req[c].body]
    BY <1>0, <2>0, StoreSteps
  <2>6. row' \in Message /\ last' \in 0..MaxChanges /\ want' \in Message /\ stamps' = stamps
    BY <2>0, <2>2, <2>4, <2>5
  <2>7. /\ outcome' \in [Changes -> {"none", "open", "done", "abandoned"}]
        /\ payload' \in [Changes -> Message]
    BY <1>0, <2>4, <2>5 DEF TypeOK
  <2> QED BY <1>0, <1>6, <2>3, <2>6, <2>7, StoreFrame DEF TypeOK, RequestType
<1>7. ASSUME NEW c \in Clients, Refuse(c)
      PROVE  TypeOK'
  <2>1. req' \in [Clients -> RequestType] /\ UNCHANGED <<stamps, overlap>>
    BY <1>t, <1>7 DEF Refuse
  <2> QED BY <1>0, <1>7, <2>1, RequestFrame DEF TypeOK, RequestType
<1>8. CASE ClaimBatch
  BY <1>0, <1>8, ClaimFrame DEF TypeOK, ClaimBatch, Claimable
<1>9. ASSUME NEW i \in Changes, TakeNext(i)
      PROVE  TypeOK'
  <2>1. turn' \in [id: 0..MaxChanges, step: {"none", "publish", "clear", "ok", "failed"}]
    BY <1>9 DEF TakeNext, Changes
  <2>2. batch' \subseteq Changes /\ disorder' \in BOOLEAN /\ UNCHANGED <<stuck, retained, errors>>
    BY <1>0, <1>9 DEF TakeNext, TypeOK
  <2> QED BY <1>0, <1>9, <2>1, <2>2, EventFrame, ProcessFrame DEF TypeOK, Process
<1>10. ASSUME NEW i \in Changes, Publish(i)
       PROVE  TypeOK'
  <2>1. /\ turn' \in [id: 0..MaxChanges, step: {"none", "publish", "clear", "ok", "failed"}]
        /\ UNCHANGED <<outcome, failures, batch, stuck, disorder>>
    BY <1>10, PublishSteps DEF AfterPublish, Changes
  <2>2. retained' \in Message /\ effect' \subseteq Changes /\ errors' \in 0..MaxErrors
    BY <1>0, <1>10, PublishSteps, TriggerSyncAssumption DEF TypeOK, Error
  <2> QED BY <1>0, <1>10, <2>1, <2>2, ProcessFrame DEF TypeOK, Process
<1>11. ASSUME NEW i \in Changes, Clear(i)
       PROVE  TypeOK'
  <2>1. /\ turn' \in [id: 0..MaxChanges, step: {"none", "publish", "clear", "ok", "failed"}]
        /\ UNCHANGED <<batch, stuck, disorder>>
    BY <1>0, <1>11 DEF Clear, At, TypeOK
  <2>2. retained' \in Message /\ errors' \in 0..MaxErrors
    BY <1>0, <1>11, TriggerSyncAssumption DEF TypeOK, Clear, Error, Message
  <2> QED BY <1>0, <1>11, <2>1, <2>2, EventFrame, ProcessFrame DEF TypeOK, Process
<1>12. ASSUME NEW i \in Changes, Settle(i)
       PROVE  TypeOK'
  <2>1. /\ turn' \in [id: 0..MaxChanges, step: {"none", "publish", "clear", "ok", "failed"}]
        /\ turn.id = i /\ UNCHANGED <<batch, disorder, retained, effect>>
    BY <1>0, <1>12, SettleSteps, TriggerSyncAssumption DEF IdleTurn
  <2>2. failures[i] \in 0..MaxFailures /\ failures[i] < MaxFailures
    BY <1>0, <2>1 DEF RunnerInv, TypeOK
  <2>3. failures[i] + 1 \in 0..MaxFailures
    BY <2>2, TriggerSyncAssumption
  <2>4. /\ outcome' \in [Changes -> {"none", "open", "done", "abandoned"}]
        /\ failures' \in [Changes -> 0..MaxFailures]
    BY <1>0, <1>12, <2>3, SettleSteps DEF TypeOK
  <2>5. stuck' \subseteq Changes /\ errors' \in 0..MaxErrors
    BY <1>0, <1>12, SettleSteps, TriggerSyncAssumption DEF TypeOK, Error
  <2> QED BY <1>0, <1>12, <2>1, <2>4, <2>5, ProcessFrame DEF TypeOK, Process
<1>13. ASSUME NEW i \in Changes, ClaimExpires(i)
       PROVE  TypeOK'
  <2>1. stuck' \subseteq Changes /\ UNCHANGED <<batch, turn, disorder, retained, errors>>
    BY <1>0, <1>13 DEF ClaimExpires, TypeOK
  <2> QED BY <1>0, <1>13, <2>1, EventFrame, ProcessFrame DEF TypeOK
<1>14. CASE Crash
  <2>1. req' \in [Clients -> RequestType]
    BY <1>t, <1>14 DEF Crash
  <2>2. turn.id \in 0..MaxChanges /\ stuck \subseteq Changes /\ batch \subseteq Changes
    BY <1>0 DEF TypeOK
  <2>3. stuck' \subseteq Changes
    <3>1. ({turn.id} \ {0}) \subseteq Changes
      BY <2>2, TriggerSyncAssumption DEF Changes
    <3> QED BY <1>14, <2>2, <3>1 DEF Crash
  <2>4. batch' \subseteq Changes
    BY <1>14 DEF Crash
  <2>5. turn' \in [id: 0..MaxChanges, step: {"none", "publish", "clear", "ok", "failed"}]
    BY <1>14, TriggerSyncAssumption DEF Crash, IdleTurn
  <2>6. errors' \in 0..MaxErrors
    BY <1>0, <1>14, TriggerSyncAssumption DEF Crash, Error, TypeOK
  <2> QED BY <1>0, <1>14, <2>1, <2>3, <2>4, <2>5, <2>6, CrashFrame DEF TypeOK, RequestType
<1> QED BY <1>1, <1>2, <1>3, <1>4, <1>6, <1>7, <1>8, <1>9, <1>10, <1>11, <1>12, <1>13, <1>14
  DEF Next, Request, PatchTriggerHandler, DeleteTriggerHandler, Process

(* What the runner claimed stays open until it settles it. *)
LEMMA RunnerInductive ==
  ASSUME TriggerInv, [Next]_vars
  PROVE  RunnerInv'
<1>0. TypeOK /\ RunnerInv /\ RequestInv
  BY DEF TriggerInv
<1>f. ASSUME UNCHANGED <<outcome, failures, batch, turn>>
      PROVE  RunnerInv'
  BY <1>0, <1>f DEF RunnerInv
<1>o. ASSUME NEW e \in Changes, outcome[e] = "none",
             outcome' = [outcome EXCEPT ![e] = "open"], UNCHANGED <<failures, batch, turn>>
      PROVE  RunnerInv'
  <2>1. failures[e] = 0 /\ failures[e] < MaxFailures
    BY <1>0, <1>o, TriggerSyncAssumption DEF RunnerInv
  <2> QED BY <1>0, <1>o, <2>1 DEF RunnerInv, TypeOK
<1>1. CASE UNCHANGED vars
  BY <1>f, <1>1, StutterFrame
<1>2. ASSUME NEW c \in Clients, Create(c)
      PROVE  RunnerInv'
  <2>1. PICK body \in Upserts : Store(stamps', body) /\ stamps' \in Changes
    BY <1>0, <1>2, CreateSteps
  <2> QED BY <1>0, <1>2, <1>o, <2>1, StoreSteps, StoreFrame
<1>3. ASSUME NEW c \in Clients, Get(c) \/ BeginUpdate(c) \/ BeginDelete(c) \/ Refuse(c)
      PROVE  RunnerInv'
  BY <1>f, <1>3, RequestFrame
<1>6. ASSUME NEW c \in Clients, Commit(c)
      PROVE  RunnerInv'
  <2>1. Store(req[c].id, req[c].body) /\ req[c].id \in Changes
    BY <1>0, <1>6, CommitSteps
  <2> QED BY <1>0, <1>6, <1>o, <2>1, StoreSteps, StoreFrame
<1>8. CASE ClaimBatch
  <2>1. batch' = Claimable /\ turn = IdleTurn
    BY <1>8 DEF ClaimBatch
  <2> QED BY <1>0, <1>8, <2>1, ClaimFrame DEF RunnerInv, Claimable, IdleTurn, Changes
<1>9. ASSUME NEW i \in Changes, TakeNext(i)
      PROVE  RunnerInv'
  <2>1. /\ i \in batch /\ batch' = batch \ {i} /\ turn' = [id |-> i, step |-> "publish"]
        /\ UNCHANGED <<outcome, failures>>
    BY <1>9, EventFrame DEF TakeNext
  <2> QED BY <1>0, <2>1 DEF RunnerInv, Changes
<1>10. ASSUME NEW i \in Changes, Publish(i)
       PROVE  RunnerInv'
  <2>1. /\ turn.id = i /\ turn'.id = i /\ turn'.step # "none"
        /\ UNCHANGED <<outcome, failures, batch>>
    BY <1>10, PublishSteps DEF AfterPublish
  <2>2. i # 0
    BY DEF Changes
  <2> QED BY <1>0, <2>1, <2>2 DEF RunnerInv
<1>11. ASSUME NEW i \in Changes, Clear(i)
       PROVE  RunnerInv'
  <2>1. turn.id = i /\ i # 0 /\ turn'.id = i /\ turn'.step = "ok" /\ UNCHANGED batch
    BY <1>11 DEF Clear, At
  <2> QED BY <1>0, <1>11, <2>1, EventFrame DEF RunnerInv
<1>12. ASSUME NEW i \in Changes, Settle(i)
       PROVE  RunnerInv'
  <2>1. /\ turn'.id = 0 /\ turn'.step = "none" /\ turn.id = i /\ UNCHANGED batch
        /\ i \notin batch /\ outcome[i] = "open" /\ failures[i] < MaxFailures
    BY <1>0, <1>12, SettleSteps DEF IdleTurn, RunnerInv
  <2>2. failures[i] \in Nat
    BY <1>0 DEF TypeOK
  <2>3. /\ \A j \in Changes : j # i => outcome'[j] = outcome[j] /\ failures'[j] = failures[j]
        /\ \/ outcome'[i] = "done"
           \/ outcome'[i] = "abandoned"
           \/ outcome'[i] = "open" /\ failures'[i] = failures[i] + 1 /\ failures[i] + 1 # MaxFailures
           \/ outcome'[i] = "open" /\ failures'[i] = failures[i]
    BY <1>0, <1>12, <2>1, SettleSteps DEF TypeOK
  <2>4. outcome'[i] = "open" => failures'[i] < MaxFailures
    BY <2>1, <2>2, <2>3, TriggerSyncAssumption
  <2>5. i # 0 /\ 0 \notin Changes
    BY DEF Changes
  <2> QED BY <1>0, <2>1, <2>3, <2>4, <2>5 DEF RunnerInv
<1>13. ASSUME NEW i \in Changes, ClaimExpires(i)
       PROVE  RunnerInv'
  BY <1>f, <1>13, EventFrame DEF ClaimExpires
<1>14. CASE Crash
  <2>1. batch' = {} /\ turn'.id = 0 /\ turn'.step = "none" /\ 0 \notin Changes
    BY <1>14 DEF Crash, IdleTurn, Changes
  <2> QED BY <1>0, <1>14, <2>1, CrashFrame DEF RunnerInv
<1> QED BY <1>1, <1>2, <1>3, <1>6, <1>8, <1>9, <1>10, <1>11, <1>12, <1>13, <1>14
  DEF Next, Request, PatchTriggerHandler, DeleteTriggerHandler, Process

(* A new created_at is unused, and requests in flight keep theirs apart. *)
LEMMA RequestInductive ==
  ASSUME TriggerInv, [Next]_vars
  PROVE  RequestInv'
<1>0. TypeOK /\ RequestInv /\ RowInv /\ stamps \in Nat /\ last \in Nat
  BY DEF TriggerInv, TypeOK
<1>t. req \in [Clients -> RequestType] /\ IdleReq.at = "idle"
  BY <1>0, IdleFacts
<1>f. ASSUME UNCHANGED <<row, last, stamps, req>>,
             \A j \in Changes : outcome'[j] = "none" <=> outcome[j] = "none"
      PROVE  RequestInv'
  <2>1. \A c \in Clients : req[c].at = "begun" => req[c].id \in Changes
    BY <1>0, TriggerSyncAssumption DEF RequestInv, TypeOK, Changes
  <2> QED BY <1>0, <1>f, <2>1 DEF RequestInv
<1>1. CASE UNCHANGED vars
  BY <1>f, <1>1, StutterFrame
<1>2. ASSUME NEW c \in Clients, Create(c)
      PROVE  RequestInv'
  <2>1. PICK body \in Upserts : Store(stamps', body)
    BY <1>0, <1>2, CreateSteps
  <2>2. row = Nothing /\ UNCHANGED req /\ stamps' = stamps + 1 /\ stamps' \in Changes
    BY <1>0, <1>2, CreateSteps
  <2>3. \A d \in Clients : req[d] = IdleReq
    BY <1>0, <2>2 DEF RequestInv
  <2>4. /\ last' = stamps'
        /\ \A j \in Changes : j # stamps' => outcome'[j] = outcome[j]
    BY <1>0, <2>1, <2>2, StoreSteps
  <2>5. \A j \in Changes : outcome'[j] # "none" => j <= stamps'
    BY <1>0, <2>2, <2>4 DEF RequestInv, Changes
  <2> QED BY <1>t, <2>2, <2>3, <2>4, <2>5, <1>0 DEF RequestInv
<1>3. ASSUME NEW c \in Clients, Get(c)
      PROVE  RequestInv'
  <2>1. PICK f \in Fields, b \in Upserts :
          req' = [req EXCEPT ![c] = [at |-> "read", id |-> 0, field |-> f, body |-> b]]
    BY <1>0, <1>3, GetSteps
  <2>2. row # Nothing /\ UNCHANGED stamps
    BY <1>0, <1>3, GetSteps DEF Upserts, Nothing
  <2>3. /\ req'[c].at = "read" /\ req'[c].body \in Upserts /\ req'[c].field \in Fields
        /\ \A d \in Clients : d # c => req'[d] = req[d]
    BY <1>t, <2>1
  <2> QED BY <1>0, <1>3, <2>2, <2>3, RequestFrame DEF RequestInv
<1>4. ASSUME NEW c \in Clients, BeginUpdate(c) \/ BeginDelete(c)
      PROVE  RequestInv'
  <2>1. PICK r \in RequestType :
          /\ r.at = "begun" /\ r.id = stamps' /\ req' = [req EXCEPT ![c] = r]
          /\ \/ req[c].at = "read" /\ r.body = req[c].body /\ r.field = req[c].field
             \/ Alive /\ r.body = Delete
    BY <1>0, <1>4, BeginSteps
  <2>2. stamps' = stamps + 1 /\ stamps' \in Changes
    BY <1>0, <1>4, BeginSteps
  <2>3. /\ row # Nothing /\ r.body \in Upserts \cup {Delete}
        /\ r.body \in Upserts => r.field \in Fields
    BY <1>0, <1>t, <2>1 DEF RequestInv, Alive, Nothing, Upserts, Delete
  <2>4. /\ req'[c].at = "begun" /\ req'[c].id = stamps' /\ req'[c].body = r.body
        /\ req'[c].field = r.field
        /\ \A d \in Clients : d # c => req'[d] = req[d]
    BY <1>t, <2>1
  <2>5. outcome[stamps'] = "none" /\ stamps' \in 1..stamps'
    BY <1>0, <2>2 DEF RequestInv, Changes
  <2>6. \A j \in Changes : outcome[j] # "none" => j <= stamps'
    BY <1>0, <2>2 DEF RequestInv, Changes
  <2>7. \A d \in Clients : d # c /\ req[d].at = "begun" =>
          req[d].id # stamps' /\ req[d].id \in 1..stamps'
    BY <1>0, <2>2 DEF RequestInv
  <2>8. UNCHANGED <<row, last, outcome>> /\ last' <= stamps'
    BY <1>0, <1>4, <2>2, RequestFrame DEF RequestInv
  <2>a. \A d \in Clients :
          /\ req'[d].at = "idle" => req'[d] = IdleReq
          /\ req'[d] # IdleReq => /\ row' # Nothing
                                  /\ req'[d].body \in Upserts \cup {Delete}
                                  /\ req'[d].body \in Upserts => req'[d].field \in Fields
          /\ req'[d].at = "begun" => req'[d].id \in 1..stamps' /\ outcome'[req'[d].id] = "none"
    BY <1>0, <2>3, <2>4, <2>5, <2>7, <2>8 DEF RequestInv
  <2>b. \A d, e \in Clients :
          req'[d].at = "begun" /\ req'[e].at = "begun" /\ req'[d].id = req'[e].id => d = e
    BY <1>0, <2>4, <2>7 DEF RequestInv
  <2> QED BY <2>6, <2>8, <2>a, <2>b DEF RequestInv
<1>6. ASSUME NEW c \in Clients, Commit(c)
      PROVE  RequestInv'
  <2>0. /\ req[c].at = "begun" /\ Store(req[c].id, req[c].body) /\ req[c].id \in Changes
        /\ req[c].id <= stamps /\ UNCHANGED stamps /\ req' = [req EXCEPT ![c] = IdleReq]
        /\ req[c].body \in Upserts \cup {Delete}
    BY <1>0, <1>6, CommitSteps
  <2>1. /\ row' = req[c].body /\ last' = req[c].id
        /\ \A j \in Changes : j # req[c].id => outcome'[j] = outcome[j]
    BY <1>0, <2>0, StoreSteps
  <2>2. row' # Nothing
    BY <2>0, <2>1 DEF Upserts, Delete, Nothing
  <2>3. req'[c] = IdleReq /\ \A d \in Clients : d # c => req'[d] = req[d]
    BY <1>t, <2>0
  <2>4. \A d \in Clients : d # c /\ req[d].at = "begun" =>
          req[d].id \in Changes /\ req[d].id # req[c].id
    BY <1>0, <2>0, TriggerSyncAssumption DEF RequestInv, TypeOK, Changes
  <2>5. \A j \in Changes : outcome'[j] # "none" => j <= stamps'
    BY <1>0, <2>0, <2>1 DEF RequestInv
  <2> QED BY <1>0, <1>t, <2>0, <2>1, <2>2, <2>3, <2>4, <2>5 DEF RequestInv
<1>7. ASSUME NEW c \in Clients, Refuse(c)
      PROVE  RequestInv'
  <2>1. /\ UNCHANGED stamps /\ req'[c] = IdleReq
        /\ \A d \in Clients : d # c => req'[d] = req[d]
    BY <1>t, <1>7 DEF Refuse
  <2> QED BY <1>0, <1>t, <1>7, <2>1, RequestFrame DEF RequestInv
<1>8. CASE ClaimBatch
  BY <1>f, <1>8, ClaimFrame
<1>9. ASSUME NEW i \in Changes, TakeNext(i) \/ Clear(i) \/ ClaimExpires(i)
      PROVE  RequestInv'
  BY <1>f, <1>9, EventFrame, ProcessFrame DEF Process
<1>10. ASSUME NEW i \in Changes, Publish(i)
       PROVE  RequestInv'
  BY <1>f, <1>10, PublishSteps, ProcessFrame DEF Process
<1>12. ASSUME NEW i \in Changes, Settle(i)
       PROVE  RequestInv'
  BY <1>0, <1>f, <1>12, SettleKeeps, ProcessFrame DEF Process
<1>14. CASE Crash
  <2>1. \A c \in Clients : req'[c] = IdleReq
    BY <1>14 DEF Crash
  <2> QED BY <1>0, <1>t, <1>14, <2>1, CrashFrame DEF RequestInv
<1> QED BY <1>1, <1>2, <1>3, <1>4, <1>6, <1>7, <1>8, <1>9, <1>10, <1>12, <1>14
  DEF Next, Request, PatchTriggerHandler, DeleteTriggerHandler, Process

(* The row lock and the second look at deleted_at: nothing follows a delete. *)
LEMMA RowInductive ==
  ASSUME TriggerInv, [Next]_vars
  PROVE  RowInv'
<1>0. TypeOK /\ RequestInv /\ RowInv
  BY DEF TriggerInv
<1>f. ASSUME UNCHANGED <<row, payload, last, want>>,
             \A j \in Changes : outcome'[j] = "none" <=> outcome[j] = "none"
      PROVE  RowInv'
  <2>1. last # 0 => last \in Changes
    BY <1>0, TriggerSyncAssumption DEF TypeOK, Changes
  <2> QED BY <1>0, <1>f, <2>1 DEF RowInv, RowIsLastChange
<1>s. ASSUME NEW e \in Changes, NEW body \in Upserts \cup {Delete}, Store(e, body),
             want'.op = body.op, ~(\E j \in Changes : payload[j] = Delete)
      PROVE  RowInv'
  <2>1. /\ row' = body /\ last' = e /\ outcome'[e] = "open" /\ payload'[e] = body
        /\ \A j \in Changes : j # e => outcome'[j] = outcome[j] /\ payload'[j] = payload[j]
    BY <1>0, <1>s, StoreSteps
  <2>2. last' # 0 /\ row' # Nothing
    BY <1>s, <2>1 DEF Changes, Upserts, Delete, Nothing
  <2> QED BY <1>0, <1>s, <2>1, <2>2 DEF RowInv, RowIsLastChange
<1>1. CASE UNCHANGED vars
  BY <1>f, <1>1, StutterFrame
<1>2. ASSUME NEW c \in Clients, Create(c)
      PROVE  RowInv'
  <2>1. PICK body \in Upserts : Store(stamps', body) /\ want' = body
    BY <1>0, <1>2, CreateSteps
  <2>2. row = Nothing /\ stamps' \in Changes
    BY <1>0, <1>2, CreateSteps
  <2>3. ~(\E j \in Changes : payload[j] = Delete)
    BY <1>0, <2>2 DEF RowInv, RowIsLastChange, Changes
  <2> QED BY <1>s, <2>1, <2>2, <2>3
<1>3. ASSUME NEW c \in Clients, Get(c) \/ BeginUpdate(c) \/ BeginDelete(c) \/ Refuse(c)
      PROVE  RowInv'
  BY <1>f, <1>3, RequestFrame
<1>6. ASSUME NEW c \in Clients, Commit(c)
      PROVE  RowInv'
  <2>0. /\ Store(req[c].id, req[c].body) /\ req[c].body \in Upserts \cup {Delete}
        /\ req[c].id \in Changes /\ want' = Requested(c) /\ row \in Upserts /\ req[c] # IdleReq
    BY <1>0, <1>6, CommitSteps
  <2>1. ~(\E j \in Changes : payload[j] = Delete)
    BY <1>0, <2>0 DEF RowInv, RowIsLastChange, Upserts, Delete, Changes, Nothing
  <2>2. want \in Upserts
    BY <1>0, <2>0 DEF RowInv, TypeOK, Message, Upserts, Nothing, Delete
  <2>3. want'.op = req[c].body.op
    <3>1. CASE req[c].body = Delete
      BY <2>0, <3>1 DEF Requested
    <3>2. CASE req[c].body \in Upserts
      <4>1. req[c].field \in Fields /\ req[c].body # Delete
        BY <1>0, <2>0, <3>2 DEF RequestInv, Upserts, Delete
      <4> QED BY <2>0, <2>2, <3>2, <4>1 DEF Requested, Upserts, Fields
    <3> QED BY <2>0, <3>1, <3>2
  <2> QED BY <1>s, <2>0, <2>1, <2>3
<1>8. CASE ClaimBatch
  BY <1>f, <1>8, ClaimFrame
<1>9. ASSUME NEW i \in Changes, TakeNext(i) \/ Clear(i) \/ ClaimExpires(i)
      PROVE  RowInv'
  BY <1>f, <1>9, EventFrame, ProcessFrame DEF Process
<1>10. ASSUME NEW i \in Changes, Publish(i)
       PROVE  RowInv'
  BY <1>f, <1>10, PublishSteps, ProcessFrame DEF Process
<1>12. ASSUME NEW i \in Changes, Settle(i)
       PROVE  RowInv'
  BY <1>0, <1>f, <1>12, SettleKeeps, ProcessFrame DEF Process
<1>14. CASE Crash
  BY <1>f, <1>14, CrashFrame
<1> QED BY <1>1, <1>2, <1>3, <1>6, <1>8, <1>9, <1>10, <1>12, <1>14
  DEF Next, Request, PatchTriggerHandler, DeleteTriggerHandler, Process

-----------------------------------------------------------------------------
(* Requests one at a time *)

(* A request that runs alone changes the field it was asked to change. *)
LEMMA PatchInductive ==
  ASSUME TriggerInv, PatchInv, [Next]_vars
  PROVE  PatchInv'
<1>0. TypeOK /\ RequestInv /\ overlap \in BOOLEAN
  BY DEF TriggerInv, TypeOK
<1>t. req \in [Clients -> RequestType]
  BY <1>0, IdleFacts
<1>f. ASSUME UNCHANGED <<row, want, req, overlap>>
      PROVE  PatchInv'
  BY <1>f DEF PatchInv, Alive
<1>1. CASE UNCHANGED vars
  BY <1>f, <1>1, StutterFrame
<1>2. ASSUME NEW c \in Clients, Create(c)
      PROVE  PatchInv'
  <2>1. PICK body \in Upserts : Store(stamps', body) /\ want' = body
    BY <1>0, <1>2, CreateSteps
  <2>2. row = Nothing /\ UNCHANGED req /\ stamps' \in Changes
    BY <1>0, <1>2, CreateSteps
  <2>3. \A d \in Clients : req'[d] = IdleReq
    BY <1>0, <2>2 DEF RequestInv
  <2>4. row' = want'
    BY <1>0, <2>1, <2>2, StoreSteps
  <2> QED BY <2>3, <2>4 DEF PatchInv
<1>3. ASSUME NEW c \in Clients, Get(c)
      PROVE  PatchInv'
  <2>1. PICK f \in Fields, b \in Upserts :
          /\ b = [row EXCEPT ![f] = b[f]]
          /\ req' = [req EXCEPT ![c] = [at |-> "read", id |-> 0, field |-> f, body |-> b]]
    BY <1>0, <1>3, GetSteps
  <2>2. Alive /\ UNCHANGED <<row, want>> /\ overlap' = (overlap \/ Busy(c))
    BY <1>0, <1>3, GetSteps, RequestFrame
  <2>3. /\ req'[c].field = f /\ req'[c].body = b
        /\ \A d \in Clients : d # c => req'[d] = req[d]
    BY <1>t, <2>1
  <2>4. ~overlap' => ~overlap /\ \A d \in Clients : d # c => req[d] = IdleReq
    BY <2>2 DEF Busy
  <2> QED BY <2>1, <2>2, <2>3, <2>4 DEF PatchInv, Alive
<1>4. ASSUME NEW c \in Clients, BeginUpdate(c) \/ BeginDelete(c)
      PROVE  PatchInv'
  <2>1. PICK r \in RequestType :
          /\ r.at = "begun" /\ req' = [req EXCEPT ![c] = r]
          /\ \/ /\ req[c].at = "read" /\ r.body = req[c].body /\ r.field = req[c].field
                /\ UNCHANGED overlap
             \/ Alive /\ r.body = Delete /\ overlap' = (overlap \/ Busy(c))
    BY <1>0, <1>4, BeginSteps
  <2>2. UNCHANGED <<row, want>>
    BY <1>4, RequestFrame
  <2>3. req'[c] = r /\ \A d \in Clients : d # c => req'[d] = req[d]
    BY <1>t, <2>1
  <2>4. CASE req[c].at = "read" /\ r.body = req[c].body /\ r.field = req[c].field
             /\ UNCHANGED overlap
    <3>1. req[c] # IdleReq
      BY <1>0, <2>4, IdleFacts
    <3> QED BY <2>2, <2>3, <2>4, <3>1 DEF PatchInv, Alive
  <2>5. CASE Alive /\ r.body = Delete /\ overlap' = (overlap \/ Busy(c))
    <3>1. ~overlap' => ~overlap /\ \A d \in Clients : d # c => req[d] = IdleReq
      BY <2>5 DEF Busy
    <3> QED BY <2>2, <2>3, <2>5, <3>1 DEF PatchInv, Alive
  <2> QED BY <2>1, <2>4, <2>5
<1>6. ASSUME NEW c \in Clients, Commit(c)
      PROVE  PatchInv'
  <2>0. /\ Store(req[c].id, req[c].body) /\ req[c].id \in Changes
        /\ want' = Requested(c) /\ req[c] # IdleReq /\ req' = [req EXCEPT ![c] = IdleReq]
    BY <1>0, <1>6, CommitSteps
  <2>1. row' = req[c].body
    BY <1>0, <2>0, StoreSteps
  <2>2. req'[c] = IdleReq /\ (\A d \in Clients : d # c => req'[d] = req[d]) /\ UNCHANGED overlap
    BY <1>t, <1>6, <2>0, StoreFrame
  <2>3. ~overlap => \A d \in Clients : req'[d] = IdleReq
    BY <2>0, <2>2 DEF PatchInv
  <2>4. ~overlap => row' = want'
    BY <2>0, <2>1 DEF PatchInv, Requested
  <2> QED BY <2>2, <2>3, <2>4 DEF PatchInv
<1>7. ASSUME NEW c \in Clients, Refuse(c)
      PROVE  PatchInv'
  <2>1. req'[c] = IdleReq /\ (\A d \in Clients : d # c => req'[d] = req[d]) /\ UNCHANGED overlap
    BY <1>t, <1>7 DEF Refuse
  <2> QED BY <1>7, <2>1, RequestFrame DEF PatchInv, Alive
<1>8. CASE ClaimBatch
  BY <1>f, <1>8, ClaimFrame
<1>9. ASSUME NEW i \in Changes, Process(i) \/ ClaimExpires(i)
      PROVE  PatchInv'
  BY <1>f, <1>9, ProcessFrame
<1>14. CASE Crash
  <2>1. \A c \in Clients : req'[c] = IdleReq
    BY <1>14 DEF Crash
  <2> QED BY <1>14, <2>1, CrashFrame DEF PatchInv
<1> QED BY <1>1, <1>2, <1>3, <1>4, <1>6, <1>7, <1>8, <1>9, <1>14
  DEF Next, Request, PatchTriggerHandler, DeleteTriggerHandler

(* Overlap, disorder and errors are remembered. *)
LEMMA CalmInductive ==
  ASSUME TypeOK, [Next]_vars
  PROVE  Calm' => Calm
<1>0. errors \in Nat /\ overlap \in BOOLEAN /\ disorder \in BOOLEAN
  BY DEF TypeOK
<1>f. ASSUME UNCHANGED <<overlap, disorder>>, errors' = errors \/ Error
      PROVE  Calm' => Calm
  BY <1>0, <1>f DEF Calm, Error
<1>1. CASE UNCHANGED vars
  BY <1>f, <1>1, StutterFrame
<1>2. ASSUME NEW c \in Clients, Create(c) \/ Commit(c)
      PROVE  Calm' => Calm
  BY <1>f, <1>2, StoreFrame
<1>3. ASSUME NEW c \in Clients, Get(c) \/ BeginUpdate(c) \/ BeginDelete(c) \/ Refuse(c)
      PROVE  Calm' => Calm
  <2>1. overlap' = overlap \/ overlap' = (overlap \/ Busy(c))
    BY <1>3 DEF Get, BeginUpdate, BeginDelete, Refuse
  <2>2. UNCHANGED <<disorder, errors>>
    BY <1>3, RequestFrame
  <2> QED BY <1>0, <2>1, <2>2 DEF Calm
<1>8. CASE ClaimBatch
  BY <1>f, <1>8, ClaimFrame
<1>9. ASSUME NEW i \in Changes, TakeNext(i)
      PROVE  Calm' => Calm
  <2>1. UNCHANGED <<overlap, errors>> /\ (disorder => disorder')
    BY <1>0, <1>9 DEF TakeNext
  <2> QED BY <2>1 DEF Calm
<1>10. ASSUME NEW i \in Changes, Publish(i)
       PROVE  Calm' => Calm
  BY <1>f, <1>10, PublishSteps, ProcessFrame DEF Process
<1>11. ASSUME NEW i \in Changes, Clear(i)
       PROVE  Calm' => Calm
  BY <1>f, <1>11 DEF Clear
<1>12. ASSUME NEW i \in Changes, Settle(i)
       PROVE  Calm' => Calm
  BY <1>f, <1>12, SettleSteps, ProcessFrame DEF Process
<1>13. ASSUME NEW i \in Changes, ClaimExpires(i)
       PROVE  Calm' => Calm
  BY <1>f, <1>13 DEF ClaimExpires
<1>14. CASE Crash
  BY <1>f, <1>14 DEF Crash
<1> QED BY <1>1, <1>2, <1>3, <1>8, <1>9, <1>10, <1>11, <1>12, <1>13, <1>14
  DEF Next, Request, PatchTriggerHandler, DeleteTriggerHandler, Process

-----------------------------------------------------------------------------
(* The topic *)

(* Alone, a request commits before the next one gets its created_at. *)
LEMMA CommitInductive ==
  ASSUME TriggerInv, PatchInv, Calm, CommitOrder, Calm', [Next]_vars
  PROVE  CommitOrder'
<1>0. TypeOK /\ RequestInv /\ ~overlap /\ ~overlap' /\ stamps \in Nat /\ last \in Nat
  BY DEF TriggerInv, TypeOK, Calm
<1>t. req \in [Clients -> RequestType] /\ IdleReq.at # "begun"
  BY <1>0, IdleFacts
<1>f. ASSUME UNCHANGED <<last, req>>,
             \A j \in Changes : outcome'[j] = "none" <=> outcome[j] = "none"
      PROVE  CommitOrder'
  BY <1>f DEF CommitOrder
<1>1. CASE UNCHANGED vars
  BY <1>f, <1>1, StutterFrame
<1>s. ASSUME NEW e \in Changes, NEW body, Store(e, body), last < e,
             \A d \in Clients : req'[d] = IdleReq
      PROVE  CommitOrder'
  <2>1. last' = e /\ \A j \in Changes : j # e => outcome'[j] = outcome[j]
    BY <1>0, <1>s, StoreSteps
  <2> QED BY <1>0, <1>t, <1>s, <2>1 DEF CommitOrder, Changes
<1>2. ASSUME NEW c \in Clients, Create(c)
      PROVE  CommitOrder'
  <2>1. PICK body \in Upserts : Store(stamps', body)
    BY <1>0, <1>2, CreateSteps
  <2>2. row = Nothing /\ UNCHANGED req /\ stamps' = stamps + 1 /\ stamps' \in Changes
    BY <1>0, <1>2, CreateSteps
  <2>3. \A d \in Clients : req'[d] = IdleReq
    BY <1>0, <2>2 DEF RequestInv
  <2>4. last < stamps'
    BY <1>0, <2>2 DEF RequestInv
  <2> QED BY <1>s, <2>1, <2>2, <2>3, <2>4
<1>3. ASSUME NEW c \in Clients, Get(c)
      PROVE  CommitOrder'
  <2>1. PICK f \in Fields, b \in Upserts :
          req' = [req EXCEPT ![c] = [at |-> "read", id |-> 0, field |-> f, body |-> b]]
    BY <1>0, <1>3, GetSteps
  <2>2. req'[c].at = "read" /\ \A d \in Clients : d # c => req'[d] = req[d]
    BY <1>t, <2>1
  <2> QED BY <1>3, <2>2, RequestFrame DEF CommitOrder
<1>4. ASSUME NEW c \in Clients, BeginUpdate(c) \/ BeginDelete(c)
      PROVE  CommitOrder'
  <2>1. PICK r \in RequestType : r.id = stamps' /\ req' = [req EXCEPT ![c] = r]
    BY <1>0, <1>4, BeginSteps
  <2>2. req'[c].id = stamps' /\ \A d \in Clients : d # c => req'[d] = req[d]
    BY <1>t, <2>1
  <2>3. last < stamps'
    BY <1>0, <1>4, BeginSteps DEF RequestInv
  <2> QED BY <1>4, <2>2, <2>3, RequestFrame DEF CommitOrder
<1>6. ASSUME NEW c \in Clients, Commit(c)
      PROVE  CommitOrder'
  <2>0. /\ Store(req[c].id, req[c].body) /\ req[c].id \in Changes /\ req[c].at = "begun"
        /\ req[c] # IdleReq /\ req' = [req EXCEPT ![c] = IdleReq]
    BY <1>0, <1>6, CommitSteps
  <2>1. req'[c] = IdleReq /\ \A d \in Clients : d # c => req'[d] = req[d]
    BY <1>t, <2>0
  <2>2. \A d \in Clients : req'[d] = IdleReq
    BY <1>0, <2>0, <2>1 DEF PatchInv
  <2>3. last < req[c].id
    BY <2>0 DEF CommitOrder
  <2> QED BY <1>s, <2>0, <2>2, <2>3
<1>7. ASSUME NEW c \in Clients, Refuse(c)
      PROVE  CommitOrder'
  <2>1. req'[c] = IdleReq /\ \A d \in Clients : d # c => req'[d] = req[d]
    BY <1>t, <1>7 DEF Refuse
  <2> QED BY <1>t, <1>7, <2>1, RequestFrame DEF CommitOrder
<1>8. CASE ClaimBatch
  BY <1>f, <1>8, ClaimFrame
<1>9. ASSUME NEW i \in Changes, TakeNext(i) \/ Clear(i) \/ ClaimExpires(i)
      PROVE  CommitOrder'
  BY <1>f, <1>9, EventFrame, ProcessFrame DEF Process
<1>10. ASSUME NEW i \in Changes, Publish(i)
       PROVE  CommitOrder'
  BY <1>f, <1>10, PublishSteps, ProcessFrame DEF Process
<1>12. ASSUME NEW i \in Changes, Settle(i)
       PROVE  CommitOrder'
  BY <1>0, <1>f, <1>12, SettleKeeps, ProcessFrame DEF Process
<1>14. CASE Crash
  <2>1. \A c \in Clients : req'[c].at # "begun"
    BY <1>t, <1>14 DEF Crash
  <2> QED BY <1>14, <2>1, CrashFrame DEF CommitOrder
<1> QED BY <1>1, <1>2, <1>3, <1>4, <1>6, <1>7, <1>8, <1>9, <1>10, <1>12, <1>14
  DEF Next, Request, PatchTriggerHandler, DeleteTriggerHandler, Process

(* A calm step makes no error. *)
LEMMA CalmSteps ==
  ASSUME TypeOK, Calm, Calm'
  PROVE  ~Error /\ ~Crash
BY DEF TypeOK, Calm, Error, Crash

(* Alone, a request that commits is the newest change so far. *)
LEMMA NewestStored ==
  ASSUME TriggerInv, CommitOrder, NEW c \in Clients, Create(c) \/ Commit(c)
  PROVE  \E e \in Changes, body \in Upserts \cup {Delete} :
           Store(e, body) /\ \A j \in Changes : outcome[j] # "none" => j < e
<1>0. TypeOK /\ RequestInv /\ stamps \in Nat /\ last \in Nat
  BY DEF TriggerInv, TypeOK
<1>1. CASE Create(c)
  <2>1. PICK body \in Upserts : Store(stamps', body)
    BY <1>0, <1>1, CreateSteps
  <2>2. stamps' = stamps + 1 /\ stamps' \in Changes
    BY <1>0, <1>1, CreateSteps
  <2>3. \A j \in Changes : outcome[j] # "none" => j < stamps'
    BY <1>0, <2>2 DEF RequestInv, Changes
  <2> QED BY <2>1, <2>2, <2>3
<1>2. CASE Commit(c)
  <2>1. /\ Store(req[c].id, req[c].body) /\ req[c].id \in Changes /\ req[c].at = "begun"
        /\ req[c].body \in Upserts \cup {Delete}
    BY <1>0, <1>2, CommitSteps
  <2>2. last < req[c].id
    BY <2>1 DEF CommitOrder
  <2>3. \A j \in Changes : outcome[j] # "none" => j < req[c].id
    BY <1>0, <2>1, <2>2 DEF CommitOrder, Changes
  <2> QED BY <2>1, <2>3
<1> QED BY <1>1, <1>2

(* Without disorder no event is taken up before an older one is done. *)
LEMMA ProcessInductive ==
  ASSUME TriggerInv, Calm, SyncInv, Calm', [Next]_vars
  PROVE  ProcessOrder'
<1>0. TypeOK /\ RunnerInv /\ ~disorder' /\ CommitOrder /\ ProcessOrder
  BY DEF TriggerInv, Calm, SyncInv
<1>f. ASSUME UNCHANGED <<outcome, turn>>
      PROVE  ProcessOrder'
  BY <1>0, <1>f DEF ProcessOrder
<1>1. CASE UNCHANGED vars
  BY <1>f, <1>1, StutterFrame
<1>2. ASSUME NEW c \in Clients, Create(c) \/ Commit(c)
      PROVE  ProcessOrder'
  <2>1. PICK e \in Changes, body \in Upserts \cup {Delete} :
          Store(e, body) /\ \A j \in Changes : outcome[j] # "none" => j < e
    BY <1>0, <1>2, NewestStored
  <2>2. outcome'[e] = "open" /\ \A j \in Changes : j # e => outcome'[j] = outcome[j]
    BY <1>0, <2>1, StoreSteps
  <2>3. \A j \in Changes : e < j => outcome[j] = "none" /\ turn.id # j
    BY <1>0, <2>1 DEF RunnerInv, Changes
  <2>4. UNCHANGED turn /\ turn.id # e
    BY <1>0, <1>2, <2>1, StoreFrame DEF RunnerInv, Changes
  <2> QED BY <1>0, <2>2, <2>3, <2>4 DEF ProcessOrder
<1>3. ASSUME NEW c \in Clients, Get(c) \/ BeginUpdate(c) \/ BeginDelete(c) \/ Refuse(c)
      PROVE  ProcessOrder'
  BY <1>f, <1>3, RequestFrame
<1>8. CASE ClaimBatch
  BY <1>f, <1>8, ClaimFrame
<1>9. ASSUME NEW i \in Changes, TakeNext(i)
      PROVE  ProcessOrder'
  <2>1. turn'.id = i /\ \A j \in Changes : j < i => outcome[j] # "open"
    BY <1>0, <1>9 DEF TakeNext
  <2> QED BY <1>0, <1>9, <2>1, EventFrame DEF ProcessOrder
<1>10. ASSUME NEW i \in Changes, Publish(i) \/ Clear(i) \/ ClaimExpires(i)
       PROVE  ProcessOrder'
  <2>1. turn'.id = turn.id /\ UNCHANGED outcome
    BY <1>10, PublishSteps, EventFrame DEF Clear, At, ClaimExpires
  <2> QED BY <1>0, <2>1 DEF ProcessOrder
<1>12. ASSUME NEW i \in Changes, Settle(i)
       PROVE  ProcessOrder'
  <2>1. turn.id = i /\ turn'.id = 0 /\ 0 \notin Changes
    BY <1>0, <1>12, SettleSteps DEF IdleTurn, Changes
  <2>2. \A j \in Changes : j # i => outcome'[j] = outcome[j]
    BY <1>0, <1>12, SettleSteps DEF TypeOK
  <2>3. outcome[i] = "open"
    BY <1>0, <2>1 DEF RunnerInv
  <2> QED BY <1>0, <2>1, <2>2, <2>3 DEF ProcessOrder
<1>14. CASE Crash
  BY <1>0, <1>14, CalmSteps
<1> QED BY <1>1, <1>2, <1>3, <1>8, <1>9, <1>10, <1>12, <1>14
  DEF Next, Request, PatchTriggerHandler, DeleteTriggerHandler, Process

TopicCalm ==
  TopicInv /\ turn.step # "failed" /\ \A i \in Changes : outcome[i] # "abandoned"

(* Every publish shows the newest event so far; a clear follows a delete. *)
LEMMA TopicInductive ==
  ASSUME TriggerInv, Calm, SyncInv, Calm', [Next]_vars
  PROVE  TopicCalm'
<1>0. /\ TypeOK /\ RunnerInv /\ CommitOrder /\ ProcessOrder /\ TopicInv
      /\ turn.step # "failed" /\ \A i \in Changes : outcome[i] # "abandoned"
  BY DEF TriggerInv, Calm, SyncInv
<1>f. ASSUME UNCHANGED <<payload, outcome, turn, retained>>
      PROVE  TopicCalm'
  BY <1>0, <1>f DEF TopicCalm, TopicInv, Seen
<1>1. CASE UNCHANGED vars
  BY <1>f, <1>1, StutterFrame
<1>2. ASSUME NEW c \in Clients, Create(c) \/ Commit(c)
      PROVE  TopicCalm'
  <2>1. PICK e \in Changes, body \in Upserts \cup {Delete} : Store(e, body)
    BY <1>0, <1>2, NewestStored
  <2>2. /\ outcome[e] = "none" /\ outcome'[e] = "open"
        /\ \A j \in Changes : j # e => outcome'[j] = outcome[j] /\ payload'[j] = payload[j]
    BY <1>0, <2>1, StoreSteps
  <2>3. UNCHANGED <<turn, retained>>
    BY <1>2, StoreFrame
  <2>4. turn.step # "none" => turn.id \in Changes /\ turn.id # e /\ payload'[turn.id] = payload[turn.id]
    BY <1>0, <2>2 DEF RunnerInv, TypeOK, Changes
  <2>5. /\ turn.step \in {"none", "publish"} =>
             /\ \A j \in Changes :
                  outcome'[j] = "done" /\ (\A k \in Changes : j < k => outcome'[k] # "done")
                  => retained = Seen(payload'[j])
             /\ (\A j \in Changes : outcome'[j] # "done") => retained = Nothing
    BY <1>0, <2>2 DEF TopicInv
  <2>6. /\ turn.step = "ok" => retained = Seen(payload'[turn.id])
        /\ turn.step = "clear" => payload'[turn.id] = Delete
    BY <1>0, <2>4 DEF TopicInv
  <2>7. TopicInv'
    BY <2>3, <2>5, <2>6 DEF TopicInv, Seen
  <2> QED BY <1>0, <2>2, <2>3, <2>7 DEF TopicCalm
<1>3. ASSUME NEW c \in Clients, Get(c) \/ BeginUpdate(c) \/ BeginDelete(c) \/ Refuse(c)
      PROVE  TopicCalm'
  BY <1>f, <1>3, RequestFrame
<1>8. CASE ClaimBatch
  BY <1>f, <1>8, ClaimFrame
<1>9. ASSUME NEW i \in Changes, TakeNext(i)
      PROVE  TopicCalm'
  <2>1. turn.step = "none" /\ turn'.step = "publish" /\ UNCHANGED <<payload, outcome, retained>>
    BY <1>9, EventFrame, ProcessFrame DEF TakeNext, IdleTurn, Process
  <2> QED BY <1>0, <2>1 DEF TopicCalm, TopicInv, Seen
<1>10. ASSUME NEW i \in Changes, Publish(i)
       PROVE  TopicCalm'
  <2>1. /\ retained' = payload[i] /\ turn'.id = i /\ turn'.step = AfterPublish(payload[i])
        /\ UNCHANGED <<payload, outcome>>
    BY <1>0, <1>10, CalmSteps, PublishSteps, ProcessFrame DEF Process
  <2>2. \/ payload[i] = Delete /\ turn'.step = "clear"
        \/ Seen(payload[i]) = payload[i] /\ turn'.step = "ok"
    BY <2>1 DEF AfterPublish, Seen
  <2> QED BY <1>0, <2>1, <2>2 DEF TopicCalm, TopicInv, Seen
<1>11. ASSUME NEW i \in Changes, Clear(i)
       PROVE  TopicCalm'
  <2>1. /\ turn.id = i /\ turn.step = "clear" /\ turn'.id = i /\ turn'.step = "ok"
        /\ retained' = Nothing /\ UNCHANGED <<payload, outcome>>
    BY <1>0, <1>11, CalmSteps, EventFrame, ProcessFrame DEF Clear, At, Process
  <2>2. Seen(payload[i]) = Nothing
    BY <1>0, <2>1 DEF TopicInv, Seen
  <2> QED BY <1>0, <2>1, <2>2 DEF TopicCalm, TopicInv, Seen
<1>12. ASSUME NEW i \in Changes, Settle(i)
       PROVE  TopicCalm'
  <2>1. /\ turn.id = i /\ turn.step = "ok" /\ turn'.step = "none"
        /\ outcome' = [outcome EXCEPT ![i] = "done"] /\ UNCHANGED <<payload, retained>>
    BY <1>0, <1>12, CalmSteps, SettleSteps, ProcessFrame DEF Process, IdleTurn
  <2>2. outcome'[i] = "done" /\ \A j \in Changes : j # i => outcome'[j] = outcome[j]
    BY <1>0, <2>1 DEF TypeOK
  <2>3. retained = Seen(payload[i])
    BY <1>0, <2>1 DEF TopicInv
  <2>4. \A j \in Changes : i < j => outcome'[j] # "done"
    BY <1>0, <2>1, <2>2 DEF ProcessOrder, RunnerInv, Changes
  <2>5. ASSUME NEW j \in Changes, outcome'[j] = "done",
               \A k \in Changes : j < k => outcome'[k] # "done"
        PROVE  j = i
    BY <2>2, <2>4, <2>5 DEF Changes
  <2>6. TopicInv'
    BY <2>1, <2>2, <2>3, <2>5 DEF TopicInv, Seen
  <2> QED BY <1>0, <2>1, <2>2, <2>6 DEF TopicCalm
<1>13. ASSUME NEW i \in Changes, ClaimExpires(i)
       PROVE  TopicCalm'
  BY <1>f, <1>13, EventFrame, ProcessFrame DEF ClaimExpires
<1>14. CASE Crash
  BY <1>0, <1>14, CalmSteps
<1> QED BY <1>1, <1>2, <1>3, <1>8, <1>9, <1>10, <1>11, <1>12, <1>13, <1>14
  DEF Next, Request, PatchTriggerHandler, DeleteTriggerHandler, Process

LEMMA SyncInductive ==
  ASSUME TriggerInv, PatchInv, SyncInv, [Next]_vars
  PROVE  SyncInv'
<1> SUFFICES ASSUME Calm'
    PROVE  SyncInv'
  BY DEF SyncInv
<1>1. Calm
  BY CalmInductive DEF TriggerInv
<1>2. CommitOrder
  BY <1>1 DEF SyncInv
<1>3. CommitOrder' /\ ProcessOrder'
  BY <1>1, <1>2, CommitInductive, ProcessInductive
<1>4. TopicCalm'
  BY <1>1, TopicInductive
<1> QED BY <1>3, <1>4 DEF SyncInv, TopicCalm

-----------------------------------------------------------------------------
(* The mirror *)

(* Only a posted event takes effect; the one that is not confirmed yet is  *)
(* in the runner's hand, and a delete that is to be cleared is retained.   *)
EffectInv ==
  /\ \A i \in effect : i \in Changes /\ outcome[i] # "none"
  /\ \E i \in effect \cup {0} : \A j \in effect : j <= i
  /\ turn.step = "clear" => retained = Delete
  /\ Calm => \A i \in effect : outcome[i] = "open" => turn.id = i /\ turn.step \in {"clear", "ok"}

(* The newest of the effects is there when one is added. *)
LEMMA NewestEffect ==
  ASSUME NEW S \in SUBSET Nat, NEW i \in Nat, \E m \in S \cup {0} : \A j \in S : j <= m
  PROVE  \E m \in S \cup {i} \cup {0} : \A j \in S \cup {i} : j <= m
<1>1. PICK m \in S \cup {0} : \A j \in S : j <= m
  OBVIOUS
<1>2. CASE m <= i
  <2>1. \A j \in S \cup {i} : j <= i
    BY <1>1, <1>2
  <2> QED BY <2>1
<1>3. CASE ~(m <= i)
  <2>1. \A j \in S \cup {i} : j <= m
    BY <1>1, <1>3
  <2> QED BY <1>1, <2>1
<1> QED BY <1>2, <1>3

LEMMA EffectInductive ==
  ASSUME TriggerInv, SyncInv, EffectInv, [Next]_vars
  PROVE  EffectInv'
<1>0. TypeOK /\ RunnerInv /\ effect \in SUBSET Nat
  BY DEF TriggerInv, TypeOK, Changes
<1>c. Calm' => Calm /\ TopicCalm
  BY CalmInductive DEF TriggerInv, SyncInv, TopicCalm
<1>f. ASSUME UNCHANGED <<effect, outcome, turn, retained>>
      PROVE  EffectInv'
  BY <1>c, <1>f DEF EffectInv
<1>1. CASE UNCHANGED vars
  BY <1>f, <1>1, StutterFrame
<1>s. ASSUME NEW e \in Changes, NEW body, Store(e, body), UNCHANGED <<effect, turn, retained>>
      PROVE  EffectInv'
  <2>1. outcome[e] = "none" /\ \A j \in Changes : j # e => outcome'[j] = outcome[j]
    BY <1>0, <1>s, StoreSteps
  <2>2. \A j \in effect : j \in Changes /\ outcome'[j] = outcome[j]
    BY <2>1 DEF EffectInv
  <2> QED BY <1>c, <1>s, <2>2 DEF EffectInv
<1>2. ASSUME NEW c \in Clients, Create(c)
      PROVE  EffectInv'
  <2>1. PICK body \in Upserts : Store(stamps', body) /\ stamps' \in Changes
    BY <1>0, <1>2, CreateSteps
  <2> QED BY <1>2, <1>s, <2>1, StoreFrame
<1>3. ASSUME NEW c \in Clients, Get(c) \/ BeginUpdate(c) \/ BeginDelete(c) \/ Refuse(c)
      PROVE  EffectInv'
  BY <1>f, <1>3, RequestFrame
<1>6. ASSUME NEW c \in Clients, Commit(c)
      PROVE  EffectInv'
  <2>1. Store(req[c].id, req[c].body) /\ req[c].id \in Changes
    BY <1>6, CommitSteps DEF TriggerInv
  <2> QED BY <1>6, <1>s, <2>1, StoreFrame
<1>8. CASE ClaimBatch
  BY <1>f, <1>8, ClaimFrame
<1>9. ASSUME NEW i \in Changes, TakeNext(i)
      PROVE  EffectInv'
  <2>1. /\ turn.id = 0 /\ turn'.step = "publish" /\ UNCHANGED <<effect, outcome, retained>>
        /\ 0 \notin Changes
    BY <1>9, EventFrame DEF TakeNext, IdleTurn, Changes
  <2> QED BY <1>c, <2>1 DEF EffectInv
<1>10. ASSUME NEW i \in Changes, Publish(i)
       PROVE  EffectInv'
  <2>1. /\ turn.id = i /\ turn.step = "publish" /\ UNCHANGED outcome
        /\ \/ /\ effect' = effect \cup {i} /\ retained' = payload[i] /\ turn'.id = i
              /\ turn'.step = AfterPublish(payload[i])
           \/ UNCHANGED effect /\ Error /\ turn'.step = "failed"
    BY <1>10, PublishSteps
  <2>2. outcome[i] = "open" /\ i \in Nat
    BY <1>0, <2>1 DEF RunnerInv, Changes
  <2>3. \E k \in effect' \cup {0} : \A j \in effect' : j <= k
    <3>1. CASE effect' = effect \cup {i}
      BY <1>0, <2>2, <3>1, NewestEffect DEF EffectInv
    <3>2. CASE UNCHANGED effect
      BY <3>2 DEF EffectInv
    <3> QED BY <2>1, <3>1, <3>2
  <2>4. \A j \in effect' : j \in Changes /\ outcome'[j] # "none"
    BY <2>1, <2>2 DEF EffectInv
  <2>5. turn'.step = "clear" => retained' = Delete
    BY <2>1 DEF AfterPublish
  <2>6. ASSUME Calm', NEW j \in effect', outcome'[j] = "open"
        PROVE  turn'.id = j /\ turn'.step \in {"clear", "ok"}
    <3>1. /\ Calm /\ effect' = effect \cup {i} /\ turn'.id = i
          /\ turn'.step \in {"clear", "ok"}
      BY <1>0, <1>c, <2>1, <2>6, CalmSteps DEF AfterPublish
    <3> QED BY <2>1, <2>6, <3>1 DEF EffectInv
  <2> QED BY <2>3, <2>4, <2>5, <2>6 DEF EffectInv
<1>11. ASSUME NEW i \in Changes, Clear(i)
       PROVE  EffectInv'
  <2>1. /\ turn.id = i /\ turn'.id = i /\ turn.step = "clear" /\ turn'.step = "ok"
        /\ UNCHANGED <<effect, outcome>>
    BY <1>11, EventFrame DEF Clear, At
  <2> QED BY <1>c, <2>1 DEF EffectInv
<1>12. ASSUME NEW i \in Changes, Settle(i)
       PROVE  EffectInv'
  <2>1. turn.id = i /\ turn'.step = "none" /\ UNCHANGED <<effect, retained>>
    BY <1>0, <1>12, SettleSteps DEF IdleTurn
  <2>2. \A j \in effect : j \in Changes /\ outcome'[j] # "none"
    BY <1>0, <1>12, SettleKeeps DEF EffectInv
  <2>3. ASSUME Calm', NEW j \in effect, outcome'[j] = "open"
        PROVE  FALSE
    <3>1. outcome' = [outcome EXCEPT ![i] = "done"]
      BY <1>0, <1>c, <1>12, <2>3, CalmSteps, SettleSteps DEF TopicCalm
    <3> QED BY <1>0, <1>c, <2>1, <2>2, <2>3, <3>1 DEF EffectInv, TypeOK
  <2> QED BY <2>1, <2>2, <2>3 DEF EffectInv
<1>13. ASSUME NEW i \in Changes, ClaimExpires(i)
       PROVE  EffectInv'
  BY <1>f, <1>13, EventFrame DEF ClaimExpires
<1>14. CASE Crash
  <2>1. turn'.step = "none" /\ UNCHANGED <<effect, outcome, retained>>
    BY <1>14, CrashFrame DEF Crash, IdleTurn
  <2>2. ~Calm'
    BY <1>0, <1>c, <1>14, CalmSteps
  <2> QED BY <2>1, <2>2 DEF EffectInv
<1> QED BY <1>1, <1>2, <1>3, <1>6, <1>8, <1>9, <1>10, <1>11, <1>12, <1>13, <1>14
  DEF Next, Request, PatchTriggerHandler, DeleteTriggerHandler, Process

(* The log grows with a commit, the topic's copy moves with a publish. *)
LEMMA LogFacts ==
  ASSUME TypeOK, NEW i \in Changes, NEW body \in Message, Store(i, body)
  PROVE  /\ Log[i] = [topic |-> "none", value |-> Nothing]
         /\ Log' = [Log EXCEPT ![i] = [topic |-> Topic, value |-> Seen(body)]]
         /\ [t \in {Topic} |-> Seen(row)]' = [[t \in {Topic} |-> Seen(row)] EXCEPT ![Topic] = Seen(body)]
         /\ UNCHANGED <<failures, effect>> /\ Seen(body) \in Message
<1>1. /\ row' = body /\ payload' = [payload EXCEPT ![i] = body] /\ outcome[i] = "none"
      /\ outcome' = [outcome EXCEPT ![i] = "open"] /\ UNCHANGED <<failures, effect>>
  BY DEF Store, Box!Post
<1>2. \A j \in Changes : j # i => outcome'[j] = outcome[j] /\ payload'[j] = payload[j]
  BY <1>1 DEF TypeOK
<1>3. outcome'[i] = "open" /\ payload'[i] = body
  BY <1>1 DEF TypeOK
<1>4. Log' = [Log EXCEPT ![i] = [topic |-> Topic, value |-> Seen(body)]]
  BY <1>2, <1>3 DEF Log, Seen
<1>5. Seen(body) \in Message
  BY DEF Seen, Message
<1> QED BY <1>1, <1>4, <1>5 DEF Log, Seen

LEMMA LatestFacts ==
  ASSUME EffectInv
  PROVE  LatestEffect \in effect \cup {0} /\ \A j \in effect : j <= LatestEffect
BY DEF EffectInv, LatestEffect

LEMMA WrittenFacts ==
  Copy!Written(Topic) = {i \in Changes : outcome[i] # "none"}
BY DEF Copy!Written, Copy!Unwritten, Log, Topic

LEMMA MirrorInit == Init => Copy!Init
<1> SUFFICES ASSUME Init
             PROVE  Copy!Init
  OBVIOUS
<1>1. /\ row = Nothing /\ retained = Nothing /\ effect = {} /\ Calm
      /\ \A i \in Changes : outcome[i] = "none"
  BY DEF Init, Box!Init, Calm
<1>2. LatestEffect = 0
  BY <1>1 DEF LatestEffect
<1> QED BY <1>1, <1>2 DEF Copy!Init, Copy!Unwritten, Log, Seen, Delete, Nothing

LEMMA MirrorStep ==
  ASSUME TriggerInv, PatchInv, SyncInv, EffectInv, [Next]_vars
  PROVE  [Copy!Next]_(Copy!mvars)
<1> DEFINE source == [t \in {Topic} |-> Seen(row)]
           shown  == [t \in {Topic} |-> LatestEffect]
           copy   == [t \in {Topic} |-> Seen(retained)]
<1>0. /\ Calm' => Calm
      /\ TypeOK /\ stamps \in Nat
  BY CalmInductive, TriggerSyncAssumption DEF TriggerInv, TypeOK
(* A step that changes neither table nor topic. *)
<1>1. ASSUME UNCHANGED <<source, Log, shown, copy>>
      PROVE  [Copy!Next]_(Copy!mvars)
  <2>1. CASE Calm'
    BY <1>0, <1>1, <2>1 DEF Copy!mvars
  <2>2. CASE ~Calm'
    BY <1>1, <2>2 DEF Copy!Next, Copy!Disturbed
  <2> QED BY <2>1, <2>2
<1>2. ASSUME UNCHANGED <<row, payload, outcome, effect, retained>>
      PROVE  [Copy!Next]_(Copy!mvars)
  BY <1>1, <1>2 DEF Log, LatestEffect, Seen
<1>3. ASSUME NEW i \in Changes, NEW body \in Message, Store(i, body), UNCHANGED retained,
             Calm' => \A j \in Changes : outcome[j] # "none" => j < i
      PROVE  [Copy!Next]_(Copy!mvars)
  <2>1. Copy!Put(i, Topic, Seen(body)) /\ Seen(body) \in Message
    BY <1>0, <1>3, LogFacts DEF Copy!Put, Copy!Unwritten
  <2>2. UNCHANGED <<shown, copy>>
    <3>1. UNCHANGED <<effect, retained>>
      BY <1>0, <1>3, LogFacts
    <3> QED BY <3>1 DEF LatestEffect, Seen
  <2>3. CASE Calm'
    <3>1. \A j \in Copy!Written(Topic) : j < i
      BY <1>3, <2>3, WrittenFacts
    <3>2. Copy!Write(i, Topic, Seen(body))
      BY <1>0, <2>1, <2>2, <2>3, <3>1 DEF Copy!Write
    <3> QED BY <1>0, <2>1, <2>3, <3>2 DEF Copy!Next
  <2>4. CASE ~Calm'
    BY <2>1, <2>2, <2>4 DEF Copy!Next, Copy!Disturbed
  <2> QED BY <2>3, <2>4
<1>4. ASSUME NEW c \in Clients, Create(c)
      PROVE  [Copy!Next]_(Copy!mvars)
  <2>1. PICK rule \in Rules :
          /\ stamps' = stamps + 1 /\ stamps < MaxChanges /\ UNCHANGED retained
          /\ Store(stamps', [op |-> "upsert", enabled |-> TRUE, rule |-> rule])
    BY <1>4 DEF Create
  <2>2. [op |-> "upsert", enabled |-> TRUE, rule |-> rule] \in Message
    BY DEF Message, Upserts
  <2>3. stamps' \in Changes /\ \A j \in Changes : outcome[j] # "none" => j < stamps'
    BY <1>0, <2>1, TriggerSyncAssumption DEF Changes, TriggerInv, RequestInv
  <2> QED BY <1>3, <2>1, <2>2, <2>3
<1>5. ASSUME NEW c \in Clients, Commit(c)
      PROVE  [Copy!Next]_(Copy!mvars)
  <2>1. req[c].at = "begun" /\ Store(req[c].id, req[c].body) /\ UNCHANGED retained
    BY <1>5 DEF Commit
  <2>2. req[c].id \in Changes /\ req[c].body \in Message
    BY <1>0, <2>1, TriggerSyncAssumption DEF TypeOK, TriggerInv, RequestInv, Changes, IdleReq
  <2>3. ASSUME Calm', NEW j \in Changes, outcome[j] # "none"
        PROVE  j < req[c].id
    BY <1>0, <2>1, <2>2, <2>3, TriggerSyncAssumption DEF SyncInv, CommitOrder, TypeOK, Changes
  <2> QED BY <1>3, <2>1, <2>2, <2>3
<1>6. ASSUME NEW i \in Changes, Publish(i)
      PROVE  [Copy!Next]_(Copy!mvars)
  <2>1. /\ turn = [id |-> i, step |-> "publish"] /\ UNCHANGED <<row, payload, outcome, overlap, disorder>>
        /\ \/ /\ effect' = effect \cup {i} /\ UNCHANGED errors /\ retained' = payload[i]
           \/ errors' = errors + 1 /\ retained' \in {retained, payload[i]}
    BY <1>6 DEF Publish, At, Box!Act, rowVars, Error, eventVars
  <2>2. outcome[i] = "open" /\ UNCHANGED <<source, Log>> /\ i \in Copy!Written(Topic)
    BY <2>1, WrittenFacts DEF TriggerInv, RunnerInv, Log, Seen
  <2>3. Log[i].value = Seen(payload[i])
    BY <2>2 DEF Log
  <2>4. CASE Calm'
    <3>1. Calm /\ effect' = effect \cup {i} /\ retained' = payload[i]
      BY <1>0, <2>1, <2>4 DEF Calm, TypeOK
    <3>2. \A j \in effect : j < i
      <4> SUFFICES ASSUME NEW j \in effect
                   PROVE  j < i
        OBVIOUS
      <4>1. j \in Changes /\ outcome[j] # "none" /\ outcome[j] # "open" /\ outcome[j] # "abandoned"
        BY <2>1, <3>1 DEF EffectInv, SyncInv
      <4>2. outcome[j] = "done"
        BY <1>0, <4>1 DEF TypeOK
      <4>3. ~(i < j) /\ i # j
        BY <2>2, <3>1, <4>1, <4>2 DEF SyncInv, ProcessOrder
      <4> QED BY <4>1, <4>3, TriggerSyncAssumption DEF Changes
    <3>3. LatestEffect < i
      BY <3>2, LatestFacts, TriggerSyncAssumption DEF Changes
    <3>4. LatestEffect' = i
      <4>1. i \in effect' /\ i \in Nat /\ \A j \in effect' : j <= i /\ j \in Nat
        BY <3>1, <3>2, TriggerSyncAssumption DEF Changes, EffectInv
      <4>2. ASSUME NEW k \in effect' \cup {0}, \A j \in effect' : j <= k
            PROVE  k = i
        BY <4>1, <4>2, TriggerSyncAssumption DEF Changes
      <4> QED BY <4>1, <4>2 DEF LatestEffect
    <3>5. Copy!Show(i, Topic)
      BY <2>2, <2>3, <2>4, <3>1, <3>3, <3>4 DEF Copy!Show
    <3> QED BY <3>1, <3>5 DEF Copy!Next
  <2>5. CASE ~Calm'
    <3>1. Seen(retained)' = Seen(retained) \/ Seen(retained)' = Log[i].value
      BY <2>1, <2>3 DEF Seen
    <3> QED BY <2>2, <2>5, <3>1 DEF Copy!Next, Copy!Disturbed
  <2> QED BY <2>4, <2>5
(* The empty message leaves the topic as empty as the delete before it. *)
<1>7. ASSUME NEW i \in Changes, Clear(i)
      PROVE  [Copy!Next]_(Copy!mvars)
  <2>1. /\ UNCHANGED <<row, payload, outcome, effect>> /\ turn.step = "clear"
        /\ retained' = Nothing \/ UNCHANGED retained
    BY <1>7 DEF Clear, At, rowVars, eventVars
  <2>2. Seen(retained)' = Seen(retained)
    BY <2>1 DEF EffectInv, Seen, Delete, Nothing
  <2> QED BY <1>1, <2>1, <2>2 DEF Log, LatestEffect, Seen
<1>8. ASSUME NEW i \in Changes, Settle(i)
      PROVE  [Copy!Next]_(Copy!mvars)
  <2>1. /\ UNCHANGED <<row, payload, effect, retained>>
        /\ outcome' = outcome \/ (outcome[i] = "open" /\ \E x \in {"done", "open", "abandoned"} :
                                     outcome' = [outcome EXCEPT ![i] = x])
    BY <1>8 DEF Settle, Box!Confirm, Box!Fail, rowVars, eventVars
  <2>2. \A j \in Changes : outcome'[j] = "none" <=> outcome[j] = "none"
    BY <1>0, <2>1 DEF TypeOK
  <2>3. UNCHANGED Log
    BY <2>1, <2>2 DEF Log, Seen
  <2> QED BY <1>1, <2>1, <2>3 DEF LatestEffect, Seen
<1>9. ASSUME NEW c \in Clients, Get(c) \/ BeginUpdate(c) \/ BeginDelete(c) \/ Refuse(c)
      PROVE  [Copy!Next]_(Copy!mvars)
  BY <1>2, <1>9 DEF Get, BeginUpdate, BeginDelete, Refuse, rowVars, eventVars
<1>10. ASSUME ClaimBatch \/ Crash \/ \E i \in Changes : TakeNext(i) \/ ClaimExpires(i)
       PROVE  [Copy!Next]_(Copy!mvars)
  BY <1>2, <1>10 DEF ClaimBatch, Crash, TakeNext, ClaimExpires, rowVars, eventVars
<1>11. CASE UNCHANGED vars
  BY <1>2, <1>11 DEF vars, rowVars, eventVars
<1> QED BY <1>4, <1>5, <1>6, <1>7, <1>8, <1>9, <1>10, <1>11
  DEF Next, Request, PatchTriggerHandler, DeleteTriggerHandler, Process

-----------------------------------------------------------------------------
(* The theorems *)

LEMMA InitInv == Init => TriggerInv /\ PatchInv /\ SyncInv /\ EffectInv
<1> SUFFICES ASSUME Init
    PROVE  TriggerInv /\ PatchInv /\ SyncInv /\ EffectInv
  OBVIOUS
<1> USE TriggerSyncAssumption DEF Init, Box!Init, Nothing, IdleReq, IdleTurn, Changes
<1>1. TypeOK
  <2>1. /\ row \in Message /\ want \in Message /\ retained \in Message
        /\ payload \in [Changes -> Message]
    BY DEF Message
  <2>2. req \in [Clients -> RequestType]
    BY DEF RequestType, Message
  <2>3. /\ outcome \in [Changes -> {"none", "open", "done", "abandoned"}]
        /\ failures \in [Changes -> 0..MaxFailures] /\ effect \subseteq Changes
    OBVIOUS
  <2>4. /\ last \in 0..MaxChanges /\ stamps \in 0..MaxChanges /\ errors \in 0..MaxErrors
        /\ turn \in [id: 0..MaxChanges, step: {"none", "publish", "clear", "ok", "failed"}]
    OBVIOUS
  <2>5. /\ batch \subseteq Changes /\ stuck \subseteq Changes
        /\ overlap \in BOOLEAN /\ disorder \in BOOLEAN
    BY DEF Init
  <2> QED BY <2>1, <2>2, <2>3, <2>4, <2>5 DEF TypeOK, RequestType
<1>2. RunnerInv /\ RequestInv
  BY DEF RunnerInv, RequestInv
<1>3. RowInv
  BY DEF RowInv, RowIsLastChange, Delete
<1>4. PatchInv
  BY DEF PatchInv
<1>5. SyncInv /\ EffectInv
  BY DEF SyncInv, CommitOrder, ProcessOrder, TopicInv, EffectInv
<1> QED BY <1>1, <1>2, <1>3, <1>4, <1>5 DEF TriggerInv

(* The inductive invariant of the table, the requests and the runner. *)
THEOREM InvCorrect == Spec => [](TriggerInv /\ PatchInv /\ SyncInv /\ EffectInv)
<1>1. Init => TriggerInv /\ PatchInv /\ SyncInv /\ EffectInv
  BY InitInv
<1>2. TriggerInv /\ PatchInv /\ SyncInv /\ EffectInv /\ [Next]_vars
      => (TriggerInv /\ PatchInv /\ SyncInv /\ EffectInv)'
  BY TypeInductive, RunnerInductive, RequestInductive, RowInductive, PatchInductive, SyncInductive,
     EffectInductive
  DEF TriggerInv
<1> QED BY <1>1, <1>2, PTL DEF Spec

(* The server's and the runner's state keep their types. *)
THEOREM TypeCorrect == Spec => []TypeOK
<1>1. TriggerInv => TypeOK
  BY DEF TriggerInv
<1> QED BY <1>1, InvCorrect, PTL

(* Service.Create, Update and Delete: the row is what the last committed   *)
(* change says, and nothing is changed or announced after a delete.        *)
THEOREM RowCorrect == Spec => []RowIsLastChange
<1>1. TriggerInv => RowIsLastChange
  BY DEF TriggerInv, RowInv
<1> QED BY <1>1, InvCorrect, PTL

(* applyPatch: requests that do not overlap are all kept. *)
THEOREM PatchesCorrect == Spec => []PatchesKept
<1>1. PatchInv => PatchesKept
  BY DEF PatchInv, PatchesKept
<1> QED BY <1>1, InvCorrect, PTL

(* TriggerPushProcessor.Process: requests one at a time, events in order   *)
(* and no failed call leave the topic as the row says.                     *)
THEOREM TopicCorrect == Spec => []CalmInSync
<1>1. ASSUME TriggerInv, SyncInv, Calm, Quiet
      PROVE  retained = IF row = Delete THEN Nothing ELSE row
  <2> USE TriggerSyncAssumption DEF Changes
  <2>1. turn.step = "none"
    BY <1>1 DEF TriggerInv, TypeOK, RunnerInv, Quiet
  <2>2. CASE last = 0
    <3>1. row = Nothing /\ \A i \in Changes : outcome[i] # "done"
      BY <1>1, <2>2 DEF TriggerInv, TypeOK, RowInv, SyncInv, CommitOrder
    <3> QED BY <1>1, <2>1, <3>1 DEF SyncInv, TopicInv, Nothing, Delete
  <2>3. CASE last # 0
    <3>1. last \in Changes /\ row = payload[last] /\ outcome[last] # "none"
      BY <1>1, <2>3 DEF TriggerInv, TypeOK, RowInv, RowIsLastChange
    <3>2. outcome[last] = "done"
      BY <1>1, <3>1 DEF TriggerInv, TypeOK, SyncInv, Quiet
    <3>3. \A j \in Changes : last < j => outcome[j] # "done"
      BY <1>1, <3>1 DEF TriggerInv, TypeOK, SyncInv, CommitOrder
    <3> QED BY <1>1, <2>1, <3>1, <3>2, <3>3 DEF SyncInv, TopicInv, Seen
  <2> QED BY <2>2, <2>3
<1>2. TriggerInv /\ SyncInv => CalmInSync
  BY <1>1 DEF CalmInSync
<1> QED BY <1>2, InvCorrect, PTL

(* Service.Create, Update and Delete with TriggerPushProcessor implement   *)
(* Mirror: every commit logs what it changed, the topic only shows what    *)
(* was logged, in order unless requests overlap, events pass each other or *)
(* a call fails.                                                           *)
THEOREM MirrorCorrect == Spec => ImplementsMirror
<1>1. Init => Copy!Init
  BY MirrorInit
<1>2. TriggerInv /\ PatchInv /\ SyncInv /\ EffectInv /\ [Next]_vars => [Copy!Next]_(Copy!mvars)
  BY MirrorStep
<1> QED BY <1>1, <1>2, InvCorrect, PTL DEF Spec, ImplementsMirror, Copy!Spec
-----------------------------------------------------------------------------
(* The outbox as its contract promises it *)

(* Requests post; the runner takes, publishes and settles.                 *)
LEMMA StepKeepsClaims ==
  ASSUME TriggerInv, [Next]_vars
  PROVE  [Protocol!ClaimsNext]_Protocol!cvars
<1> USE DEF TriggerInv, TypeOK, rowVars, eventVars, runnerVars
<1>1. CASE UNCHANGED <<eventVars, batch, turn, stuck>>
  BY <1>1 DEF InHand, Protocol!cvars
<1>2. ASSUME NEW c \in Clients, Request(c)
      PROVE  [Protocol!ClaimsNext]_Protocol!cvars
  <2>1. CASE Create(c) \/ Commit(c)
    <3>1. PICK i \in 1..MaxChanges : Box!Post(i)
      <4>1. CASE Create(c)
        <5>1. stamps' \in 1..MaxChanges /\ Box!Post(stamps')
          BY <4>1, TriggerSyncAssumption DEF Create, Store
        <5> QED BY <5>1
      <4>2. CASE Commit(c)
        <5>1. req[c].id \in 1..MaxChanges /\ Box!Post(req[c].id)
          BY <4>2, TriggerSyncAssumption DEF Commit, Store, RequestInv
        <5> QED BY <5>1
      <4> QED BY <2>1, <4>1, <4>2
    <3>2. InHand' = InHand /\ stuck' = stuck
      BY <2>1 DEF Create, Commit, InHand
    <3>3. Protocol!Commit
      BY <3>1, <3>2 DEF Protocol!Commit, Protocol!Post, Box!Post, Changes
    <3> QED BY <3>3 DEF Protocol!ClaimsNext
  <2>2. CASE Get(c) \/ BeginUpdate(c) \/ BeginDelete(c) \/ Refuse(c)
    BY <2>2, <1>1 DEF Get, BeginUpdate, BeginDelete, Refuse
  <2> QED BY <1>2, <2>1, <2>2 DEF Request, PatchTriggerHandler, DeleteTriggerHandler
<1>3. CASE ClaimBatch
  <2>1. InHand = {} /\ InHand' = Claimable
    BY <1>3 DEF ClaimBatch, InHand, IdleTurn
  <2>2. Claimable \in SUBSET Changes /\ {} \in SUBSET Changes
    BY DEF Claimable
  <2>3. Protocol!Claim(Claimable, {})
    BY <1>3, <2>1 DEF ClaimBatch, Claimable, Protocol!Claim, Protocol!dvars
  <2> QED BY <2>2, <2>3 DEF Protocol!ClaimsNext
<1>4. ASSUME NEW i \in Changes, TakeNext(i)
      PROVE  UNCHANGED Protocol!cvars
  <2>1. InHand' = InHand
    BY <1>4, TriggerSyncAssumption DEF TakeNext, InHand, IdleTurn, Changes
  <2> QED BY <1>4, <2>1 DEF TakeNext, Protocol!cvars
<1>5. ASSUME NEW i \in Changes, Publish(i) \/ Clear(i)
      PROVE  Protocol!Work(i) \/ UNCHANGED Protocol!cvars
  <2>1. turn.id = i /\ i # 0 /\ turn'.id = turn.id /\ batch' = batch /\ stuck' = stuck
    BY <1>5 DEF Publish, Clear, At
  <2>2. i \in InHand /\ InHand' = InHand
    BY <2>1 DEF InHand
  <2>3. Box!Act(i) \/ UNCHANGED eventVars
    BY <1>5 DEF Publish, Clear
  <2> QED BY <2>1, <2>2, <2>3 DEF Box!Act, Protocol!Work, Protocol!Act, Protocol!cvars
<1>6. ASSUME NEW i \in Changes, Settle(i)
      PROVE  Protocol!Settle(i) \/ Protocol!Drop({i}, {i})
  <2>1. turn.id = i /\ i # 0 /\ i \notin batch /\ turn'.id = 0 /\ batch' = batch
    BY <1>6 DEF Settle, At, RunnerInv, IdleTurn
  <2>2. i \in InHand /\ InHand' = InHand \ {i}
    BY <2>1 DEF InHand
  <2>3. \/ (Box!Confirm(i) \/ Box!Fail(i)) /\ UNCHANGED stuck
        \/ stuck' = stuck \cup {i} /\ UNCHANGED eventVars
    BY <1>6 DEF Settle
  <2> QED BY <2>2, <2>3
          DEF Box!Confirm, Box!Fail, Protocol!Confirm, Protocol!Fail, Protocol!Settle,
              Protocol!Drop, Protocol!dvars
<1>7. CASE Crash
  <2>1. InHand' = {} /\ stuck' = stuck \cup InHand /\ UNCHANGED eventVars
    BY <1>7 DEF Crash, InHand, IdleTurn
  <2>2. InHand \in SUBSET Changes
    <3>1. turn.id \in 0..MaxChanges
      OBVIOUS
    <3>2. turn.id # 0 => turn.id \in Changes
      BY <3>1, TriggerSyncAssumption DEF Changes
    <3> QED BY <3>2 DEF InHand
  <2>3. Protocol!Drop(InHand, InHand)
    BY <2>1 DEF Protocol!Drop, Protocol!dvars
  <2> QED BY <2>2, <2>3 DEF Protocol!ClaimsNext
<1>8. ASSUME NEW i \in Changes, ClaimExpires(i)
      PROVE  Protocol!Expire(i)
  BY <1>8 DEF ClaimExpires, InHand, Protocol!Expire, Protocol!dvars
<1>9. ASSUME NEW i \in Changes, Process(i) \/ ClaimExpires(i)
      PROVE  [Protocol!ClaimsNext]_Protocol!cvars
  <2>1. {i} \in SUBSET Changes
    OBVIOUS
  <2> QED BY <1>9, <1>4, <1>5, <1>6, <1>8, <2>1 DEF Process, Protocol!ClaimsNext
<1> QED BY <1>1, <1>2, <1>3, <1>7, <1>9 DEF Next, vars

(* The runner's batch, the processor's steps, failed writes and stops keep *)
(* to the claims of the outbox.                                            *)
THEOREM ClaimsCorrect == Spec => KeepsClaims
<1>1. Init => Protocol!ClaimsInit
  BY DEF Init, Box!Init, Protocol!ClaimsInit, Protocol!Init, InHand, IdleTurn
<1>2. TriggerInv /\ [Next]_vars => [Protocol!ClaimsNext]_Protocol!cvars
  BY StepKeepsClaims
<1> QED BY <1>1, <1>2, InvCorrect, PTL DEF Spec, KeepsClaims, Protocol!ClaimsSpec
=============================================================================
