---------------------------- MODULE TriggerSync ----------------------------
(***************************************************************************)
(* A trigger and its copy on the device's broker topic (internal/trigger). *)
(* Clients create, patch and delete the trigger; every change commits      *)
(* together with an outbox event that carries the new configuration, and   *)
(* TriggerPushProcessor publishes it as the retained message of the        *)
(* trigger's topic.  Triggers have rows and topics of their own, so one is *)
(* enough.                                                                 *)
(*                                                                         *)
(* The event of a change is named by its created_at, the start of the      *)
(* change's transaction.  The outbox is used through its contract Delivery *)
(* and the order of the runner's claims, which matters here, is added:     *)
(* rows that are claimed and lost come back when their claim expires.      *)
(*                                                                         *)
(* Operators named after another one with a suffix (CommitUnfiltered, ...) *)
(* are wrong variants, not in Next, to test that the properties notice.    *)
(***************************************************************************)
EXTENDS Integers, FiniteSets

CONSTANTS
  Clients,      \* concurrent requests
  InOrder,      \* TRUE: a claimed batch is processed by created_at
  Rules,        \* what condition, actions, name and cooldown may say
  MaxChanges,   \* bound of the model: transactions
  MaxFailures,  \* maxAttempts of the outbox runner
  MaxErrors     \* bound of the model: failed calls, lost answers, crashes

ASSUME TriggerSyncAssumption ==
  InOrder \in BOOLEAN /\ MaxChanges \in Nat /\ MaxErrors \in Nat /\ MaxFailures \in Nat \ {0}

Changes == 1..MaxChanges

VARIABLES
  row,       \* triggers: the row as the message that would announce it
  payload,   \* outbox_events: the message each event carries
  last,      \* history: the change that committed last
  want,      \* history: what the successful requests asked for
  stamps,    \* the created_at handed out so far
  req,       \* the state of each request
  outcome, failures, effect,  \* the events, by Delivery
  batch,     \* runner: claimed events not yet processed
  turn,      \* runner: the event in Process and how far it is
  stuck,     \* claimed events that no runner has in hand
  retained,  \* broker: the retained message of the topic
  overlap,   \* history: two requests ran at the same time
  disorder,  \* history: an event was processed before an older one
  errors     \* bound: errors so far

Box == INSTANCE Delivery WITH Items <- Changes

rowVars    == <<row, payload, last, want>>
eventVars  == <<outcome, failures, effect>>
runnerVars == <<batch, turn, stuck, disorder>>
vars == <<rowVars, stamps, req, eventVars, runnerVars, retained, overlap, errors>>

Nothing == [op |-> "none"]
Delete  == [op |-> "delete"]
Upserts == [op: {"upsert"}, enabled: BOOLEAN, rule: Rules]
Message == Upserts \cup {Nothing, Delete}

Fields == {"enabled", "rule"}

IdleReq  == [at |-> "idle", id |-> 0, body |-> Nothing, field |-> "none"]
IdleTurn == [id |-> 0, step |-> "none"]

TypeOK ==
  /\ row \in Message /\ want \in Message /\ retained \in Message
  /\ payload \in [Changes -> Message]
  /\ last \in 0..MaxChanges /\ stamps \in 0..MaxChanges
  /\ req \in [Clients -> [at: {"idle", "read", "begun"}, id: 0..MaxChanges,
                          body: Message, field: Fields \cup {"none"}]]
  /\ outcome \in [Changes -> {"none", "open", "done", "abandoned"}]
  /\ failures \in [Changes -> 0..MaxFailures]
  /\ effect \subseteq Changes /\ batch \subseteq Changes /\ stuck \subseteq Changes
  /\ turn \in [id: 0..MaxChanges, step: {"none", "publish", "clear", "ok", "failed"}]
  /\ overlap \in BOOLEAN /\ disorder \in BOOLEAN
  /\ errors \in 0..MaxErrors

Init ==
  /\ row = Nothing /\ want = Nothing /\ retained = Nothing
  /\ payload = [i \in Changes |-> Nothing]
  /\ last = 0 /\ stamps = 0
  /\ req = [c \in Clients |-> IdleReq]
  /\ Box!Init
  /\ batch = {} /\ turn = IdleTurn /\ stuck = {}
  /\ overlap = FALSE /\ disorder = FALSE
  /\ errors = 0

Error == errors < MaxErrors /\ errors' = errors + 1

-----------------------------------------------------------------------------
(* Requests *)

Alive == row.op = "upsert"

StoreStale(i, body) ==
  /\ row' = body
  /\ payload' = [payload EXCEPT ![i] = row]
  /\ Box!Post(i)
  /\ last' = i

Store(i, body) ==
  /\ row' = body
  /\ payload' = [payload EXCEPT ![i] = body]
  /\ Box!Post(i)
  /\ last' = i

(* Service.Create: one transaction; enabled is the column's default. *)
Create(c) ==
  /\ req[c] = IdleReq
  /\ row = Nothing
  /\ stamps < MaxChanges
  /\ stamps' = stamps + 1
  /\ \E rule \in Rules :
       LET body == [op |-> "upsert", enabled |-> TRUE, rule |-> rule]
       IN  Store(stamps', body) /\ want' = body
  /\ UNCHANGED <<req, runnerVars, retained, overlap, errors>>

Busy(c) == \E d \in Clients \ {c} : req[d] # IdleReq

MergeDefaults(current, field, value) ==
  [[current EXCEPT !.enabled = TRUE] EXCEPT ![field] = value]

(* applyPatch: the fields the patch leaves out keep the value read. *)
Merge(current, field, value) == [current EXCEPT ![field] = value]

Patches == [field: {"enabled"}, value: BOOLEAN] \cup [field: {"rule"}, value: Rules]

(* Service.Update reads the row before its transaction begins. *)
Get(c) ==
  /\ req[c] = IdleReq
  /\ Alive
  /\ \E p \in Patches :
       req' = [req EXCEPT ![c] = [at |-> "read", id |-> 0, field |-> p.field,
                                  body |-> Merge(row, p.field, p.value)]]
  /\ overlap' = (overlap \/ Busy(c))
  /\ UNCHANGED <<rowVars, stamps, eventVars, runnerVars, retained, errors>>

BeginUpdate(c) ==
  /\ req[c].at = "read"
  /\ stamps < MaxChanges
  /\ stamps' = stamps + 1
  /\ req' = [req EXCEPT ![c].at = "begun", ![c].id = stamps']
  /\ UNCHANGED <<rowVars, eventVars, runnerVars, retained, overlap, errors>>

BeginDelete(c) ==
  /\ req[c] = IdleReq
  /\ Alive
  /\ stamps < MaxChanges
  /\ stamps' = stamps + 1
  /\ req' = [req EXCEPT ![c] = [at |-> "begun", id |-> stamps', field |-> "none", body |-> Delete]]
  /\ overlap' = (overlap \/ Busy(c))
  /\ UNCHANGED <<rowVars, eventVars, runnerVars, retained, errors>>

Requested(c) ==
  LET r == req[c]
  IN  IF r.body = Delete THEN Delete ELSE [want EXCEPT ![r.field] = r.body[r.field]]

CommitUnfiltered(c) ==
  /\ req[c].at = "begun"
  /\ Store(req[c].id, req[c].body)
  /\ want' = IF want = Delete THEN want ELSE Requested(c)
  /\ req' = [req EXCEPT ![c] = IdleReq]
  /\ UNCHANGED <<stamps, runnerVars, retained, overlap, errors>>

(* The UPDATE waits for the row's lock, finds deleted_at null, and commits *)
(* with the replaced actions and the event.                                *)
Commit(c) ==
  /\ req[c].at = "begun"
  /\ Alive
  /\ Store(req[c].id, req[c].body)
  /\ want' = Requested(c)
  /\ req' = [req EXCEPT ![c] = IdleReq]
  /\ UNCHANGED <<stamps, runnerVars, retained, overlap, errors>>

(* The trigger is deleted meanwhile, the patch names a peripheral that is  *)
(* no actuator of the device, or the database fails: nothing is stored.    *)
Refuse(c) ==
  /\ req[c] # IdleReq
  /\ req' = [req EXCEPT ![c] = IdleReq]
  /\ UNCHANGED <<rowVars, stamps, eventVars, runnerVars, retained, overlap, errors>>

-----------------------------------------------------------------------------
(* The outbox runner and TriggerPushProcessor.Process *)

ClaimableFresh == {i \in Changes : outcome[i] = "open" /\ failures[i] = 0 /\ i \notin stuck}
Claimable == {i \in Changes : outcome[i] = "open" /\ i \notin stuck}

ClaimBatch ==
  /\ batch = {} /\ turn = IdleTurn
  /\ Claimable # {}
  /\ batch' = Claimable
  /\ UNCHANGED <<rowVars, stamps, req, eventVars, turn, stuck, disorder, retained, overlap, errors>>

(* UPDATE ... RETURNING promises no order for the rows of a batch; a plan  *)
(* that keeps the order of the subquery is InOrder.                        *)
TakeNext(i) ==
  /\ turn = IdleTurn
  /\ i \in batch
  /\ InOrder => \A j \in batch : i <= j
  /\ batch' = batch \ {i}
  /\ turn' = [id |-> i, step |-> "publish"]
  /\ disorder' = (disorder \/ \E j \in Changes : j < i /\ outcome[j] = "open")
  /\ UNCHANGED <<rowVars, stamps, req, eventVars, stuck, retained, overlap, errors>>

At(i, step) == i # 0 /\ turn = [id |-> i, step |-> step]

AfterPublishUncleared(message) == IF message.op = "none" THEN "failed" ELSE "ok"

(* A delete is published and then cleared; an upsert is published. *)
AfterPublish(message) == IF message = Delete THEN "clear" ELSE "ok"

(* PublishRetained; a publish that times out may have been sent. *)
Publish(i) ==
  /\ At(i, "publish")
  /\ \/ /\ retained' = payload[i]
        /\ turn' = [turn EXCEPT !.step = AfterPublish(payload[i])]
        /\ Box!Act(i)
        /\ UNCHANGED errors
     \/ /\ Error
        /\ retained' \in {retained, payload[i]}
        /\ turn' = [turn EXCEPT !.step = "failed"]
        /\ UNCHANGED eventVars
  /\ UNCHANGED <<rowVars, stamps, req, batch, stuck, disorder, overlap>>

(* The empty retained message; its error is only logged. *)
Clear(i) ==
  /\ At(i, "clear")
  /\ \/ retained' = Nothing /\ UNCHANGED errors
     \/ Error /\ UNCHANGED retained
  /\ turn' = [turn EXCEPT !.step = "ok"]
  /\ UNCHANGED <<rowVars, stamps, req, eventVars, batch, stuck, disorder, overlap>>

(* MarkCompleted or RecordFailure; if the write fails, the row stays       *)
(* claimed.                                                                *)
Settle(i) ==
  /\ \/ At(i, "ok") /\ Box!Confirm(i) /\ UNCHANGED <<stuck, errors>>
     \/ At(i, "failed") /\ Box!Fail(i) /\ UNCHANGED <<stuck, errors>>
     \/ (At(i, "ok") \/ At(i, "failed")) /\ Error /\ stuck' = stuck \cup {i} /\ UNCHANGED eventVars
  /\ turn' = IdleTurn
  /\ UNCHANGED <<rowVars, stamps, req, batch, disorder, retained, overlap>>

(* The server stops and starts again; requests are refused. *)
Crash ==
  /\ Error
  /\ req' = [c \in Clients |-> IdleReq]
  /\ stuck' = stuck \cup batch \cup ({turn.id} \ {0})
  /\ batch' = {} /\ turn' = IdleTurn
  /\ UNCHANGED <<rowVars, stamps, eventVars, disorder, retained, overlap>>

(* The claim is older than claim_timeout_seconds. *)
ClaimExpires(i) ==
  /\ i \in stuck
  /\ stuck' = stuck \ {i}
  /\ UNCHANGED <<rowVars, stamps, req, eventVars, batch, turn, disorder, retained, overlap, errors>>

Process(i) == TakeNext(i) \/ Publish(i) \/ Clear(i) \/ Settle(i)

PatchTriggerHandler(c) ==
  Get(c) \/ BeginUpdate(c) \/ (req[c].body # Delete /\ Commit(c))

DeleteTriggerHandler(c) ==
  BeginDelete(c) \/ (req[c].body = Delete /\ Commit(c))

Request(c) ==
  Create(c) \/ PatchTriggerHandler(c) \/ DeleteTriggerHandler(c) \/ Refuse(c)

Next ==
  \/ \E c \in Clients : Request(c)
  \/ ClaimBatch
  \/ \E i \in Changes : Process(i) \/ ClaimExpires(i)
  \/ Crash

Spec == Init /\ [][Next]_vars

(* The runner's ticker ticks, publishes return after 10 s at the latest,   *)
(* the database answers in the end and claims expire.                      *)
Fairness ==
  /\ WF_vars(ClaimBatch)
  /\ WF_vars(\E i \in Changes : Process(i))
  /\ \A i \in Changes : WF_vars(ClaimExpires(i))

FairSpec == Spec /\ Fairness

-----------------------------------------------------------------------------
(* Properties *)

(* Concurrent patches and deletes leave the row as the change that         *)
(* committed last says, its event is in the outbox, and nothing is changed *)
(* or announced after the delete: the update checks deleted_at again under *)
(* the lock although it merged into a row read before.                     *)
RowIsLastChange ==
  /\ last # 0 => row = payload[last] /\ outcome[last] # "none"
  /\ \A i \in Changes : payload[i] = Delete => i = last

(* Requests that do not overlap never undo what an earlier one asked for,  *)
(* although every patch writes all columns.                                *)
PatchesKept == ~overlap => row = want

(* Every event reaches the broker or is given up. *)
ChangesSettle ==
  \A i \in Changes : outcome[i] = "open" ~> outcome[i] \in {"done", "abandoned"}

(* Once all events are settled the topic shows the row: its configuration, *)
(* or nothing after a delete.  This needs all three: requests one at a     *)
(* time, events in the order of the changes, and no failed call.           *)
Quiet == \A i \in Changes : outcome[i] # "open"
Calm  == ~overlap /\ ~disorder /\ errors = 0

CalmInSync == Calm /\ Quiet => retained = IF row = Delete THEN Nothing ELSE row

(* The trigger's topic is a mirror of its row: a delete shows as nothing,  *)
(* the clear that follows it changes nothing more.                         *)
Topic == "trigger"

Seen(message) == IF message = Delete THEN Nothing ELSE message

LatestEffect == CHOOSE i \in effect \cup {0} : \A j \in effect : j <= i

Log == [i \in Changes |->
  IF outcome[i] = "none" THEN [topic |-> "none", value |-> Nothing]
  ELSE [topic |-> Topic, value |-> Seen(payload[i])]]

Copy == INSTANCE Mirror WITH
  Topics <- {Topic}, NoTopic <- "none", Values <- Message, Blank <- Nothing, Versions <- Changes,
  source <- [t \in {Topic} |-> Seen(row)], log <- Log,
  shown <- [t \in {Topic} |-> LatestEffect],
  copy <- [t \in {Topic} |-> Seen(retained)], calm <- Calm

(* Even while requests overlap, events pass each other and calls fail,     *)
(* the topic only shows what a committed change said, and every commit     *)
(* puts what it changed into its event; otherwise changes are shown in     *)
(* their order.                                                            *)
ImplementsMirror == Copy!Spec
(* The runner keeps to the claims of the outbox: TriggerPushProcessor gets *)
(* an event only while the runner has it in hand, and a batch takes no     *)
(* event that is settled, in hand or claimed and lost.                     *)
InHand == batch \cup ({turn.id} \ {0})

Protocol == INSTANCE Claims WITH Items <- Changes, hand <- InHand

KeepsClaims == Protocol!ClaimsSpec
=============================================================================
