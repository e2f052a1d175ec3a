# FishHub server: TLA+ specifications

This directory holds TLA+ models of the FishHub server (Go, PostgreSQL, MQTT,
Redis), the TLC configurations that check them on small instances, and TLAPS
proofs of theorems about them for every value of the constants.  `PROJECT.json`
lists components, runs, mutants (wrong variants of a definition that a run must
notice), the source lines of every definition, the hazards, and the theorems.

```
tlasany M.tla                                   # parse
tlc -workers 2 -config MCOutboxPair.cfg MCOutbox # check one instance
tlapm OutboxProofs.tla                          # check the proofs
```

Paths below are relative to the repository (`internal/...` is
`src/internal/...`).

## 1. The system

A server process (`main.go`) serves the HTTP API for web clients and devices,
listens to device messages over MQTT, and runs an outbox runner and a firmware
poller in the background.  A second process (`cmd/worker`) takes jobs from a
Redis queue (asynq).  All durable state is in PostgreSQL, measurements in
InfluxDB; a device is told things by *retained* MQTT messages.  Two server
processes run side by side while a deployment replaces one by the other.

| component | state | operations | interacts with |
|---|---|---|---|
| outbox (`internal/outbox`) | `outbox_events`: status, attempts, claimed_at | Insert, ClaimBatch, MarkCompleted, RecordFailure; `Runner.tick`/`process` | every package that must tell broker or device something posts an event in its transaction |
| provisioning (`internal/provisioning`) | `provisioning_codes`, `devices` | GetOrCreateCode, ClaimCode, Activate, Process | posts `mqtt.provision_device`; calls the broker's REST API |
| broker provisioners (`internal/hivemq`, `internal/emqx`) | credentials and roles at the broker | ProvisionDevice, DeleteDevice | called by the outbox processor and by the delete request |
| device lifecycle (`internal/device`) | `devices` (deleted_at, name) | Delete, PatchDevice, GetActivationStatus | reads `outbox_events` for the status |
| triggers (`internal/trigger`) | `triggers`, `actions`, `action_triggers` | Create, Update, Delete; Process | posts `trigger.push`, retained topic per trigger |
| peripherals (`internal/peripheral`) | `peripherals` | Register, SetSchedule, SetControlMode, Update, Delete; Process | posts `peripheral.push`; publishes modes and schedules directly |
| firmware (`internal/firmware`) | cached release, `device_firmware_updates`, `devices.firmware_version` | poll, ConfirmUpdate, RetryUpdate, IngestStatus | retained manifest to, retained status from the device |
| trigger events, queue, alerts (`internal/trigger_events`, `internal/queue`, `internal/actions/alert`, `internal/alerts`) | `trigger_events`, the queue, `alerts` | Handle, Enqueue, Process | MQTT to server to Redis to worker |
| sessions (`internal/auth`, account upsert) | `users`, `accounts`, `refresh_tokens` | VerifyAndUpsert, IssueRefreshToken, RotateRefreshToken, RevokeRefreshToken | sign-in creates the account (`internal/account`) |
| account, timezone push (`internal/account`) | `accounts` | UpdateTimezone, Process | posts `device.config_push` for each device, as does an activation |
| measurements (`internal/measurement`, `internal/senml`) | points in InfluxDB | Write, QueryLastReadings, QueryReadings | MQTT to InfluxDB; `peripheral.Service.List` shows last readings |
| device models, manifests, JWTs, middleware, dashboards | none of their own, or read-only | look-ups, signatures | |

What is hard, and what makes each part correct:

* **Outbox.** A claim, the call and the result are three steps; claims expire
  while a call runs; two runners may hold one row; results are computed from a
  snapshot.  It must stay at-least-once, bounded by `maxAttempts`, and settle
  every row.
* **Provisioning.** Two transactions with calls in between, a broker API
  without transactions or idempotence keys, retries after lost answers, a
  delete that races with them.  One device for a code, credentials with their
  event, and `ready` must mean a usable account.
* **Triggers, peripherals.** The table and the retained message are two copies:
  retries and reordering must not leave them different; concurrent requests
  must not undo each other or break uniqueness.
* **Firmware.** Publish and write are not atomic, the device answers at any
  time and its status is retained and re-delivered without a nonce.  A record
  must say what happened on the device.
* **Alerts.** Three deliveries in a row (QoS 1, enqueue, asynq), each at least
  once or at most once: how many alerts does an event make, and when none?
* **Sessions.** Rotation and logout read, check and write in several
  statements: a token is exchanged once, a logout is final, a session is not
  lost for another reason.
* **Timezone.**  The list of devices and the timezone an activation uses are
  read outside the transactions that insert the events: the newest event of a
  device must carry the account's timezone, and its topic must follow.
* **Measurements.**  Messages come late, twice, in any order; two windows, a row
  limit and the union of separate points decide what is the last reading, and a
  stream that breaks off is taken for complete.  The last reading must not go
  back in time; a chart must not miss or repeat a point it could read.

`PROJECT.json` "hazards" lists each of these at the line where it bites with
the property that covers it.

## 2. The modules

```
Delivery                      the contract of the outbox (abstract)
  ^ EXTENDS        ^ used by (INSTANCE ... Items <- ...)
Claims             Provisioning   TriggerSync   Peripherals   Timezone
  ^ implemented by Outbox, Provisioning and TriggerSync
Mirror                        the promise of retained messages (abstract)
  ^ implemented by TriggerSync and Peripherals
SessionFamily                 the promise of refresh tokens (abstract)
  ^ implemented by Sessions
Orders                        the promise of a firmware update (abstract)
  ^ implemented by Firmware
Alerts    Readings
MC*             instances for TLC
*Proofs         OutboxProofs, ProvisioningProofs, SessionsProofs, TimezoneProofs,
                TriggerSyncProofs, FirmwareProofs, PeripheralsProofs,
                InboundProofs (Alerts and Readings)
```

`Delivery` is what the outbox promises of an item: it stays open until its
effect took place and is confirmed or it failed `MaxFailures` times; settled
items stay settled.  `Claims` adds who may act on an item: one in
`hand`, which nobody else takes; one that is claimed although nobody has it
(`stuck`) waits until the claim expires.  `Outbox` is the real thing; the run
`outbox_single` and the theorems `OutboxImplementsDelivery` and
`OutboxImplementsClaims` show that it implements both under the mappings
`Outcome`, `InHand` and `Missing` while no two runners hold a row.  The modules
whose packages post events use the contract (`Box == INSTANCE Delivery`)
instead of the table, so they stay small.  That their own steps fit it is proved
as well: Provisioning and TriggerSync, which model what the runner has in hand,
keep to `Claims` (`KeepsClaims`), and Timezone, where a transaction posts a set
of events, keeps to `Delivery` (`KeepsDelivery`).

`SessionFamily` is what refresh tokens promise of a sign-in: its tokens form a
chain in which one token is valid, or has just been given up for a successor
never issued before, or which is over for good.  In the mapping a family is
named by its first token (`root`), `Current` is its valid token and `State` says
whether a request is between revocation and successor.

`Mirror` is what a retained topic promises of its table: a change is logged
with it in the same transaction (`Write`), the topic moves to newer changes
(`Show`), and after a disturbance it may go back but still shows only what was
logged for it (`Disturbed`).  TriggerSync implements it with one topic,
Peripherals with a topic for each device and port; in the mapping the events
are the log, `row` or the active peripherals the source, and the newest event
in `effect` the change that is shown.  Timezone does not: one transaction logs
for many devices, and a disturbed device recovers with the next change.

`Orders` is what a firmware update promises: an order, named by its nonce, is
asked for once (`Ask`), announced at most once (`Announce`, or `Fail` when the
call failed or its answer was lost), gets at most one record after that
(`File`), is answered by the device once (`Reply`) and settles a record once
(`Settle`, never without any answer).  In the mapping of Firmware the orders
asked for and announced are the nonces of the requests before and after their
publish (`NoncesAt`), and the book is the set of nonces and statuses of the
records.

In all modules one action is one statement, transaction, HTTP call or publish,
since that is what other requests, runners and crashes can come between.  A
request in flight is a record (`req`, `request`, `handling`, `jobs`, `work`)
whose field `at` says what it did last.  Operators such as `ProvisionHandler`
or `PatchTriggerHandler` collect the steps of one HTTP handler.

**Outbox** (`outbox.go`, `runner.go`, `store_postgres.go`, migration 014).
`status`, `attempts` are the columns (`"expired"` is `processing` with an old
`claimed_at`); `job`, `snap` are the memory of `tick`'s goroutines.
`ClaimBatch` is the `UPDATE ... SKIP LOCKED`, `ProcessOk`/`ProcessFail` the
call (a failed call may have had its effect), `MarkCompleted`/`RecordFailure`
the write by id, `SettleError` its failure, which is only logged.  `Insert` is
the commit of a transaction with all the events it inserted.  `tick` waits
for all goroutines (`Idle` guards the next claim); a goroutine handles the rows
of its type one after the other (`GoroutineFree`).  Rows without a processor
are claimed and dropped until their claim expires, forever.

**Provisioning**.  `code`, `device`, `deleted`, `codeOf` are rows, `outcome` is
the provision event, `cred`/`role` the broker.  GetOrCreateCode and ClaimCode
are split at their statements (the second check of ClaimCode runs under the
row lock); `CompleteActivation` is the second transaction of `Activate`.  The
worker's HTTP calls are `PostCredential`, `AttachRole`, `Rollback`; each may
fail or lose its answer, and any error may be taken for a conflict
(`ReturnError`): `isAlreadyExists` looks for "409" in its text, be it the status
of the attach or a port, address or id that a transport error quotes.  `misread`
holds the devices whose last attempt ended so.  `RoleStep` selects HiveMQ or
EMQX.  `push` stands for other events of the device, which
GetActivationStatus also counts.

**TriggerSync**.  One trigger; `row` is written as the message that would
announce it.  `Service.Update` reads (`Get`), merges (`Merge`), begins a
transaction (`BeginUpdate`: `created_at` is its start) and commits with its event
(`Commit`).  The runner is `ClaimBatch`, `TakeNext` (in any order:
`UPDATE ... RETURNING` promises none), `Publish`, `Clear`, `Settle`.
`overlap`, `disorder`, `errors` record what a property excuses.

**Firmware**.  `CheckConfirm`/`CheckRetry`, `PublishManifest`, then
`InsertPending` or `ResetPending` are the three steps of a request; `Poll`
changes the release at any time; `IngestStatus` is the handler of a retained
status message, `Redeliver` the broker sending it again.  `Install` is the
device (external): it acts once on a nonce.  `upsets` records the kinds of
event after which a record may be wrong.

**Peripherals**.  `rows` are the active rows, `retained` the push topics, `told`
the mode and schedule a device was last sent for each kind and pin, where
commands go.  A deletion sends nothing there: `DeleteRow` only marks what the
device has as `Left` of a row that is gone (nothing depends on its value any
more), and the next peripheral of the port finds it.  SetControlMode holds the row
lock across the publish (`UpdateMode`, `PublishMode`, `CommitMode`); SetSchedule
commits first and publishes after (`StoreSchedule`, `PublishSchedule`).

**Alerts**.  `Handle` splits at its calls (`CheckTrigger`, `Ingest`,
`GetActions`, `Enqueue`, `Acknowledge`); the worker's Process likewise
(`GetActionConfig`, `GetByID` with renderAlert, `Create`, `Ack`).  A patch
replaces the action rows and so changes `action`; `Unrendered` are the actions
whose template fails on an event.  asynq's retry (`Retry`) is external.  `copies` and
`sent` count the messages of an event and of all events.

**Timezone** (`account/service.go`, `provisioning/activation.go`).  `zone` is the
account's column, `req` a PATCH /api/me, `act` an activation: `ListDevices` and
`GetTimezone` are the reads before the transactions, `BeginChange` and
`BeginActivation` fix `created_at` (the transaction's start), `CommitChange` and
`CommitActivation` insert the events.  An event is a pair of transaction and
device.  `missed` holds the devices whose newest event need not be right: not in
the list of the last change, or overlapped by another change or activation; the
comment at `account/service.go:34` accepts this until the next change, which
clears them.  `late` holds those with a failed publish or one out of order.

**Readings** (`measurement/`).  `points` is the measurement `sensors` of one
device, a set of time and field.  `HandleReadings` is the whole way of a message;
`QueryShort`, `QueryLong` are the two passes of `QueryLastReadings`, each with its
own `time.Now()`; `Poll` is a chart that asks for what came since its last
request.  Both loops end on `iter.Next()` and never ask whether the stream ended
or broke off, so an answer is made of any first part of the rows (`Reads`,
`QueryReadings`).  `newest`, `chart`, `again`, `tardy`, `cut`, `dropped` are
history: what a user has seen, what came too late, what a stream did not reach.
Reading the list is one step with the answer, since the tables have no part in it.

**Sessions**.  `users`, `accounts`, `status`, `userOf`, `expired` are columns;
`parent` and `root` are history: which token a rotation replaced and the
sign-in a family comes from.

## 3. What the runs check

CHECK_DEADLOCK is FALSE everywhere: requests, rows and failures are bounded, so
every instance may come to rest.

| run | instance | distinct states | shows |
|---|---|---|---|
| `outbox_pair` | 2 runners, 2 rows of different types, 2 attempts, no faults | 116,433 | stale snapshots never push a row past its budget; completed rows were delivered; rows settle unless a call without timeout hangs |
| `outbox_single` | 1 runner, 3 rows (two share a goroutine, one unregistered), 2 faults | 35,856 | calls are bounded, `Claims` is implemented (so no failure goes uncounted), rows settle |
| `prov_emqx` | 2 codes, 2 devices, 2 requests, 3 errors | 1,675,846 | one device per code, credentials with event, bounded unused codes |
| `prov_hive` | 1 code, 2 devices, 1 request, 3 errors | 18,400 | completed means usable and revoked stays revoked, with the exceptions of section 6; every answered device becomes ready |
| `trigger_sync` | 2 clients, 3 changes, 2 attempts, 1 error | 300,574 | the row is the last change, patches are kept, the topic follows and implements `Mirror` |
| `firmware` | 2 requests, 2 releases, 3 nonces, 1 message under way, 1 error | 2,176,426 | records, manifest and device agree; nonces implement `Orders` |
| `peripherals` | 2 clients, 1 device, 3 ports (two share a pin), 2 names, 3 changes, 1 error | 1,978,628 | uniqueness, mode, schedule and topics, which implement `Mirror` |
| `peripherals_port` | 1 client, 2 devices, 3 ports | violation | see section 6 |
| `alerts` | 2 events, 2 messages, 1 patch, 1 retry, 1 error, a template that fails on one event | 293,535 | what carries a firing, number of alerts, late jobs, losses |
| `sessions` | 2 users, 4 tokens, 2 requests, 1 error | 594,839 | rotation, logout, survival; each sign-in implements `SessionFamily` |
| `timezone` | 2 clients, 1 device, 2 zones (one not in the table), 3 transactions, 2 attempts, 1 error | 1,194,951 | the newest event and the retained configuration follow the account |
| `readings` | 2 fields of 2 peripherals, 4 seconds, windows of 1 and 2 seconds, 2 rows | 1,303,568 | last readings and chart |

Why these bounds: each hazard needs two actors on one object (two runners on a
row, two requests on a code, trigger, port or token) and at most two failures
in a row (the attach and its rollback, a lost answer and a retry); three
changes give create, patch and delete; four tokens give a sign-in with two
rotations beside another sign-in; an activation and two changes of the
timezone meet in all orders, and devices do not affect each other; three rows
overflow a limit of two, in both windows, with fields that arrive apart.
`maxAttempts` is 2 instead of 5: with 2 a row can fail and be retried and die,
which are all its cases.  BatchSize 2 with 3 rows makes the LIMIT bite.
Symmetry is used only for invariants, for step properties that treat the
permuted values alike, or for sets the properties do not tell apart, and never
in a run with a liveness property.

The properties state what the code keeps, with the exceptions it really has:
where a property excuses overlapping requests, events out of order, failed
calls or another upset, the exception is needed, and TLC finds a counterexample
when it is dropped.  Each of them is a way in which the code may leave a copy
stale or lose something; a reader who wants to see it drops the exception and
reads the trace.

What the properties say, beyond the table:

* `AttemptsWithinBudget`: stale snapshots of several runners never leave a
  pending row without attempts, nor a dead row with attempts left.
* `CompletedWasDelivered`: completed implies that some call had its effect.
* `SettledUnlessHung`: a row with a processor is final from some time on.
* `DoneLeftUsable`: a completed provision event left a credential behind, and on
  HiveMQ one with its role.  The two exceptions are an attempt that failed and
  was misread (`misread`) and credentials an attempt left without the role
  (`stranded`: an answer lost, a failed rollback, a stop), for which the retry
  takes the 409 for success.  `RevokedStaysRevoked`: a
  credential that a delete request deleted stays deleted unless its provision
  event was open then.
* `RowIsLastChange`, `PatchesKept`, `CalmInSync`: the row follows the commits,
  sequential requests are kept, the retained message follows the row.
* `ImplementsMirror` (triggers, peripherals): even with overlapping requests,
  failed calls and events out of order a topic never shows what no committed
  change said, and no change commits without the event that announces it;
  without them the changes are shown in their order.
* `ResultRecorded`: the latest firmware record says what the device answered to
  the latest manifest, except after a failed call, a status message of another
  request, or a retry that moved to another release.
* `ImplementsOrders`: without any exception, a nonce is announced, recorded and
  settled at most once each and in that order, however requests overlap, fail or
  are retried and whatever status messages come late or twice.
* `DeviceMatchesRow`: the row lock orders publishes of modes like their
  commits, so only a failed publish or commit makes what a device was sent for a
  peripheral and its row differ; for schedules, without that lock, overlapping
  requests suffice.  Until it is sent its own, the device may hold what it was
  sent for a deleted peripheral of the kind and pin.
* `AlertsJustified`: for each alert action (a trigger may have several, the model
  has one) at most one alert per delivery of the message, plus one per failure,
  and none that a job started after the trigger or its device was deleted.
  `FiringTracked`: until there is an alert, a message, the handler or a job that
  is still tried carries the event; `FiringIsAlerted`: there is one in the end.
  Both excuse what `Excused` lists: a call fails in Handle, a message arrives
  before `Subscribe`, the trigger is patched, it or its device is deleted, there
  are more failures than asynq retries, or the template gives no message.
* `RotationExclusive`, `LogoutEnds`, `DeadStaysDead`, `SessionSurvives`: a
  token is exchanged at most once; a logout that revoked a valid token is final
  for its family; dead families never revive; nothing else ends a session but
  a failure between revocation and answer.  `ImplementsFamilies`: the families of
  concurrent sign-ins, rotations and logouts are chains that do not meet.
* `ImplementsClaims`: with crashes, lost answers and failed writes the runner
  never works on, settles or takes a row that the protocol does not give it.
* `AllDevicesTold`, `ConfigMatchesAccount`, `DevicesCatchUp`: outside `missed`
  the newest event of an active device carries the account's timezone; outside
  `late` too, its topic shows it once the events are settled, and they do settle.
* `NeverGoesBack`: the value shown for a field is at least as new as any shown
  before.  `LastReadingsShown`: the answer has the newest value of each field, and
  one that is missing is older than all it shows and is out of the long window,
  under the row limit, hidden by a field that reported within the short window,
  or behind the break of a stream.  `ChartComplete`: half-open windows that follow
  each other give each point once, but for points written after their window was
  read and those a broken stream did not reach.

### Fairness

Only the liveness properties `SettledUnlessHung`, `AnsweredBecomesReady`,
`ChangesSettle`, `DevicesCatchUp` and `FiringIsAlerted` use it.

* The runner's ticker fires every 10 s and the database answers in the end:
  WF of `ClaimBatch` and of writing results.  Claims expire because time passes.
* A publish returns after at most 10 s (`internal/mqtt/publisher.go`): WF of
  the calls of those types, and of each config push (the runner takes an open
  event up again until it is settled).  The HTTP clients of the broker APIs have
  **no timeout** (`hivemq/client.go:30`, `emqx/client.go:33`), so `Outbox`
  assumes no fairness for those types, and `SettledUnlessHung` says that such a
  call can stop the runner for all types.  `AnsweredBecomesReady` does assume
  that the broker's API answers.
* The MQTT client hands over every message and the worker takes up every job
  (`Alerts`).  Nothing is assumed of clients, of failures or of outcomes.

## 4. What is proved

Theorems hold for any number of runners, rows, codes, devices, requests, users,
tokens, changes and releases and for any number of failures.  The pattern is
the same everywhere: an invariant that a step of each action preserves (one
step of the proof per action), from which the properties follow.

* `OutboxProofs`: `TypeCorrect`, `BudgetCorrect`, `DeliveryCorrect` for any set
  of runners.  `AttemptsWithinBudget` is proved together with `TypeOK`
  (`BudgetInv`): a stale snapshot is harmless because every snapshot in a
  runner's memory is below the budget, which is the third conjunct.
  `DeliveryCorrect` needs that a goroutine with result "ok" has delivered
  (`DeliveryInv`).

  The other results hold as long as no two runners hold the same row
  (`Exclusive`): `SnapshotCorrect`, `CallsCorrect`, `OutboxImplementsDelivery`,
  `OutboxImplementsClaims` and `FinalCorrect` (a settled row never changes again,
  `FinalIsFinal`) have the form `Spec /\ []Exclusive => ...`.  Then nobody
  else touches a row in a runner's hands, not even when its claim expired.
  `CallsInv` counts calls against attempts and faults; the refinements map each
  action to a step of the abstract module or a stutter.

  Two corollaries say when that is the case.  `SingleRunnerCorrect`: a single
  runner, whatever the clock does, since only an idle runner claims
  (`SingleExcludes`).  `TimelyRunnersCorrect`: any number of runners, if no claim
  expires while its runner still has the row (`Timely`, `TimelyRunnersExclude`).
  The code does not enforce that: a claim lasts 30 s, one goroutine publishes up
  to 50 rows one after the other and each publish may take 10 s, so
  a deployment with two servers can leave it.  What still holds then is the
  first group, and what TLC's run `outbox_pair` adds.
* `ProvisioningProofs`: `TypeCorrect`, `OneDeviceCorrect`, `CredentialsCorrect`
  from `PairingInv` (the outbox contract `BoxInv`, what a request relies on
  between its transactions `ClaimInv`, and `CodesInv`); `UnusedCorrect` for
  every finite set of requests; `UsableCorrect` and `RevokedCorrect` on both
  brokers from `BrokerInv`, which says what the worker and a delete request know
  of the broker at each of their steps.  `ClaimsCorrect` (`KeepsClaims`): the
  worker has one event in hand and acts only on open ones, also from `BrokerInv`.
* `SessionsProofs`: `RotationCorrect`, `LogoutCorrect`, `SurvivalCorrect`,
  `AccountCorrect`, `DeadCorrect`, `TypeCorrect` from `SessionInv` (rows,
  requests, answers and families).  `DeadStaysDead` is an action property and
  follows from `SessionInv` for one step (`DeadStep`).  `FamiliesCorrect`: a step
  moves at most one family and only along the chain (`FamilyMoves`), all others
  stay (`FamiliesStay`), which needs that a family has one valid token or one
  rotation under way and that roots do not change.
* `TimezoneProofs`: `ToldCorrect` and `ConfigCorrect` from `TimezoneInv`: every
  pending transaction owns its created_at (`StampInv`), what an activation read
  is current unless it is marked stale (`ToldInv`), and the newest event of a
  device that is not `late` is what the topic retains once it is published
  (`DeliveryInv`).  `DeliveryCorrect` (`KeepsDelivery`): the events of a commit
  were not there before, since the transaction owns their created_at.
* `InboundProofs`, Readings: `ShownCorrect` (the maximum of a window is a stored point,
  and points are never removed), `ChartCorrect` (the windows of `Poll` meet end
  to start), `AnswerCorrect` for any row limit and windows (what came of a scan is
  closed upwards in the stored times: `ScanUpwardClosed`, `ReadsUpwardClosed`).
* `InboundProofs`, Alerts: `JustifiedCorrect` from `CountInv`: the alerts of an
  event, the jobs that may still make one, its messages and the one in Handle
  are together at most its deliveries and the failures; each step moves one of
  them (`WaitingMoves`).  `TrackedCorrect` from `TrackInv`: without an excuse all
  jobs name the one action, and none whose message can be made is retried more
  often than calls failed.
* `TriggerSyncProofs`: `RowCorrect`, `PatchesCorrect`, `TopicCorrect`,
  `MirrorCorrect`, `ClaimsCorrect` from `TriggerInv` (types, the outbox contract,
  what a request in flight has read), `PatchInv` (a request that runs alone stores
  the row with its one field changed), `SyncInv` (while calm: commits, processing and the
  topic keep the order of created_at) and `EffectInv` (what took effect).
* `FirmwareProofs`: `SucceededCorrect`, `PendingCorrect`, `ManifestCorrect`,
  `ResultCorrect` from `FirmwareInv` (nonces of requests, manifest, status and
  records are each other's or unused), `AloneInv` (requests that do not
  overlap), `ManifestInv`, `VersionInv` (a nonce stands for one version) and
  `ResultInv` (the answer to the latest record is recorded or under way).
  `OrdersCorrect` (`ImplementsOrders`) needs two more invariants: `OneRecord`, no
  nonce has two records, without which a settled entry of the book could not be
  told from another one; and `Heard`, a message under way means that the device
  answered.  `RequestRefines`
  and `OrderRefines` map each action to a step of `Orders` or a stutter.
* `PeripheralsProofs`: `UniqueCorrect`, `DeviceCorrect`, `TopicCorrect`,
  `MirrorCorrect` from `PeripheralsInv` (types, events, requests, uniqueness),
  `ModeInv` (the device has the mode of the row, or the one whose transaction is
  about to commit, or one left there, and where no row is only a first or left
  value), `ScheduleInv` (the same of schedules), `OrderInv` and `TopicInv` (the
  newest event of a port tells whether there is a row; the newest that took effect
  is retained).
* Each component also has its type theorem, so no run checks the types again.

The `MirrorCorrect`, `FamiliesCorrect`, `ClaimsCorrect`, `OrdersCorrect` and
`OutboxImplements...` theorems show that every step of the detailed module is a
step of the abstract one or a stutter.

Assumptions are the named ASSUMEs on constants; TLC evaluates them in every
run.  Every safety property of the passing runs is proved.  Only model-checked
are the liveness properties, since fairness and ENABLED are outside the prover.

## 5. What is not modelled

* Text and data: JSON, SenML syntax, the entries of the POSIX table, templates,
  nonces, hashes, JWTs, presigned URLs.  Names, rules and schedules are model
  values.
* Reads of single rows and the cursor lists of alerts and trigger events, device
  models (read-only), firmware manifests (pure I/O), request authentication
  (signatures, no state), dashboards.
* The no-op publisher, subscriber and queue, used when the services are not
  configured.  Request validation that refuses before anything is stored.
* `SendCommand` of peripherals and devices: they store nothing.

## 6. Where code and documentation differ

Three differences are exceptions of `DoneLeftUsable` and `RevokedStaysRevoked`;
without the exception TLC finds a counterexample:

* `isAlreadyExists` "reports whether the broker API error indicates the credential
  already exists (HTTP 409 Conflict)" (`internal/provisioning/outbox_processor.go:60`),
  but any error text with these digits counts.  An attach answered with 409 is
  rolled back and then completes the event: the device is ready without a
  credential.  So does a POST whose transport error quotes a port such as 40912,
  on EMQX too.
* Attach and rollback fail, the retried POST answers 409, which
  `Process` takes for success (`internal/provisioning/outbox_processor.go:52`): the
  device is ready without the role that `docs/auth.md:60-62` says it gets.
* An attempt whose answer was lost is retried after the delete
  request deleted the credential and creates it again, although
  `internal/device/service.go:31` says Delete "revokes its MQTT credentials".

One run expects a violation:

* `peripherals_port`: the unique index of migration 028 is on `port_id` alone,
  and ports belong to a device *model*: one device's peripheral blocks the port
  for all devices of the model, even after that device is deleted
  (`docs/api.md:30`, `docs/database.md:203` speak of the device's own).

Seen while modelling and visible in the models, without a run of their own:

* A failed upsert push that is retried after the delete was pushed and cleared
  retains the deleted trigger again, for good (`docs/api.md:663`); a retry
  overtakes newer rows of its type although `runner.go:13-14` promises order.
* `RecordFailure` writes the snapshot plus one: with two runners a count is lost.
* A dead provision event reads as ready (`docs/api.md:257`).
* Concurrent GetOrCreateCode calls leave several unused codes (`docs/api.md:190`).
* The device row is committed before its event (`docs/auth.md:59`), and
  credentials are written at activation and not on success (`docs/auth.md:63`).
* RetryUpdate resets whatever record is the latest (`firmware/service.go:159`)
  and keeps its `desired_version` while it publishes the current release.
* Concurrent PATCHes of a trigger lose an update; any PATCH replaces the action
  rows and makes queued alert jobs fail.
* `validateActions` accepts any template that is not empty
  (`internal/api/trigger_handler.go:293`); one that does not parse fails on each
  try of the job, and the owner never hears of the firing.
* A re-delivered trigger event makes a second alert: the job id never reaches
  asynq as a key.
* Messages the broker re-sends on connect arrive before `Subscribe` registers a
  handler and are lost.
* A logout that comes after a rotation's revocation ends nothing
  (`docs/api.md:114` says best effort).
* `List` promises each peripheral "its last known reading"
  (`internal/peripheral/service.go:99`); one that is silent for 30 minutes shows
  none as long as another one of the device reports.  The timestamp shown is
  that of the device's newest row, not of the value, and a peripheral registered
  on a kind and pin used before inherits the old one's last reading.
* A peripheral registered on a kind and pin used before shares its command
  address, but neither the deletion nor the registration sends a mode or schedule
  (`internal/peripheral/service.go:79-86`, `266-296`): the device may still follow
  the old ones while the row says automatic and no schedule.  What the firmware
  does with the pushes is not in this repository.
* A stream that breaks off is answered as complete, with status 200
  (`internal/measurement/store_influx.go:86-89`, `158-189`): the rows end without
  a question to the iterator's error.  A chart that goes on from there never asks
  for the rest.
* The `window` parameter, "passed through to query" (`docs/api.md:405`), is put
  into the query struct and never used: every raw point is returned.
* `time.LoadLocation` accepts names that the POSIX table lacks; the devices then
  run on UTC0 while the account says otherwise.
* A timezone changed while a device activates reaches it only with the next
  change; so does the right zone after a failed look-up (`activation.go:82`).
* `docs/database.md:42` names a UNIQUE (model_id, pin) that migration 031 drops.

## 7. Plan

Done, in this order: Outbox and its contract, Provisioning on both brokers,
TriggerSync, Firmware, Sessions, Alerts, Peripherals, Timezone, Readings, Mirror,
Claims, SessionFamily and Orders, with proofs of all their safety properties.

Left:

1. Cursor lists of alerts and trigger events: keyset pages over rows that are
   inserted and acknowledged meanwhile.
2. The events of one device of different types together (provision, config,
   peripherals), which share runner and topics' prefix but no rows.
