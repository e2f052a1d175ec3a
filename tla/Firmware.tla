------------------------------ MODULE Firmware ------------------------------
(***************************************************************************)
(* Over-the-air updates of one device (internal/firmware): the poller that *)
(* caches the latest release, the requests that confirm or retry an        *)
(* update, the retained manifest, and the status messages of the device    *)
(* that settle the update records.                                         *)
(*                                                                         *)
(* A request reads, publishes and writes in three steps and other requests *)
(* and status messages come in between.  The device is external: it acts   *)
(* once on each nonce it sees and reports what it runs.                    *)
(*                                                                         *)
(* Operators named after another one with a suffix (HasPendingIgnored,     *)
(* ...) are wrong variants, not in Next, to test that the properties       *)
(* notice.                                                                 *)
(***************************************************************************)
EXTENDS Integers, Sequences

CONSTANTS
  Requests,     \* concurrent POST .../firmware/confirm or .../retry
  Versions,     \* firmware versions, the device starts with 0
  MaxNonces,    \* bound of the model: requests that get past their checks
  MaxInbox,     \* bound of the model: status messages on their way
  MaxErrors     \* bound of the model: failed calls and crashes

ASSUME FirmwareAssumption ==
  /\ Versions \subseteq Nat \ {0}
  /\ MaxNonces \in Nat /\ MaxInbox \in Nat /\ MaxErrors \in Nat

VARIABLES
  latest,    \* poller: the cached release, 0 for nil
  records,   \* device_firmware_updates by created_at
  reported,  \* devices.firmware_version
  req,       \* the state of each request
  nonces,    \* nonces handed out so far
  manifest,  \* broker: the retained manifest, version 0 for none
  running,   \* device: the installed version
  ran,       \* history: versions the device reported "ok" for
  status,    \* broker: the retained status message
  inbox,     \* status messages the server has not handled yet
  upsets,    \* history: what happened that may leave a record wrong
  errors     \* bound: errors so far

serverVars == <<latest, records, reported, req, nonces>>
deviceVars == <<running, ran, status>>
vars == <<serverVars, manifest, deviceVars, inbox, upsets, errors>>

Record  == [version: Versions, nonce: 1..MaxNonces,
            status: {"pending", "succeeded", "failed"}, late: BOOLEAN]
Message == [version: Versions \cup {0}, result: {"none", "ok", "failed"}, nonce: 0..MaxNonces]
IdleReq == [at |-> "idle", kind |-> "none", version |-> 0, nonce |-> 0]

TypeOK ==
  /\ latest \in Versions \cup {0} /\ reported \in Versions \cup {0}
  /\ running \in Versions \cup {0} /\ ran \subseteq Versions
  /\ records \in Seq(Record)
  /\ req \in [Requests -> [at: {"idle", "publish", "store"}, kind: {"none", "confirm", "retry"},
                           version: Versions \cup {0}, nonce: 0..MaxNonces]]
  /\ nonces \in 0..MaxNonces /\ errors \in 0..MaxErrors
  /\ manifest \in [version: Versions \cup {0}, nonce: 0..MaxNonces]
  /\ status \in Message
  /\ inbox \in Seq(Message)
  /\ upsets \subseteq {"overlap", "error", "foreign", "moved"}

Init ==
  /\ latest = 0 /\ records = <<>> /\ reported = 0
  /\ req = [q \in Requests |-> IdleReq]
  /\ nonces = 0 /\ errors = 0
  /\ manifest = [version |-> 0, nonce |-> 0]
  /\ running = 0 /\ ran = {}
  /\ status = [version |-> 0, result |-> "none", nonce |-> 0]
  /\ inbox = <<>> /\ upsets = {}

Upset(S) == upsets' = upsets \cup S

Error == errors < MaxErrors /\ errors' = errors + 1 /\ Upset({"error"})

-----------------------------------------------------------------------------
(* The poller and the clock *)

(* poll: the release may also go back, when one is withdrawn. *)
Poll(v) ==
  /\ v # latest
  /\ latest' = v
  /\ UNCHANGED <<records, reported, req, nonces, manifest, deviceVars, inbox, upsets, errors>>

(* requested_at falls behind the update timeout. *)
TimePasses(i) ==
  /\ records[i].status = "pending" /\ ~records[i].late
  /\ records' = [records EXCEPT ![i].late = TRUE]
  /\ UNCHANGED <<latest, reported, req, nonces, manifest, deviceVars, inbox, upsets, errors>>

-----------------------------------------------------------------------------
(* ConfirmUpdate and RetryUpdate *)

Last == records[Len(records)]

HasPendingIgnored(v) == v \in {}
HasPending(v) ==
  \E i \in DOMAIN records : records[i].version = v /\ records[i].status = "pending"

ComputeStatus(r) == IF r.status = "pending" /\ r.late THEN "timeout" ELSE r.status

Busy(q) == \E p \in Requests \ {q} : req[p] # IdleReq

Pass(q, kind) ==
  /\ req[q] = IdleReq
  /\ latest # 0
  /\ nonces < MaxNonces
  /\ nonces' = nonces + 1
  /\ req' = [req EXCEPT ![q] =
       [at |-> "publish", kind |-> kind, version |-> latest, nonce |-> nonces']]
  /\ Upset(IF Busy(q) THEN {"overlap"} ELSE {})
  /\ UNCHANGED <<latest, records, reported, manifest, deviceVars, inbox, errors>>

(* The checks of ConfirmUpdate: a release, and no pending update to it. *)
CheckConfirm(q) == ~HasPending(latest) /\ Pass(q, "confirm")

(* The checks of RetryUpdate: the latest record failed or timed out. *)
CheckRetry(q) ==
  /\ records # <<>>
  /\ ComputeStatus(Last) \in {"failed", "timeout"}
  /\ Pass(q, "retry")

End(q) == req' = [req EXCEPT ![q] = IdleReq]

(* publishManifest, retained; a publish that times out may have been sent. *)
PublishManifest(q) ==
  /\ req[q].at = "publish"
  /\ LET m == [version |-> req[q].version, nonce |-> req[q].nonce]
     IN  \/ manifest' = m /\ req' = [req EXCEPT ![q].at = "store"] /\ UNCHANGED <<upsets, errors>>
         \/ manifest' \in {manifest, m} /\ End(q) /\ Error
  /\ UNCHANGED <<latest, records, reported, nonces, deviceVars, inbox>>

InsertPending(q) ==
  /\ req[q].at = "store" /\ req[q].kind = "confirm"
  /\ records' = Append(records, [version |-> req[q].version, nonce |-> req[q].nonce,
                                 status |-> "pending", late |-> FALSE])
  /\ End(q)
  /\ UNCHANGED <<latest, reported, nonces, manifest, deviceVars, inbox, upsets, errors>>

ResetPendingNonceKept(q) ==
  /\ req[q].at = "store" /\ req[q].kind = "retry"
  /\ records' = [records EXCEPT ![Len(records)].status = "pending", ![Len(records)].late = FALSE]
  /\ Upset(IF req[q].version # Last.version THEN {"moved"} ELSE {})
  /\ End(q)
  /\ UNCHANGED <<latest, reported, nonces, manifest, deviceVars, inbox, errors>>

(* The record that is now the latest, whatever its status; it keeps its    *)
(* desired_version although the manifest may name a newer release.         *)
ResetPending(q) ==
  /\ req[q].at = "store" /\ req[q].kind = "retry"
  /\ records' = [records EXCEPT ![Len(records)] =
       [@ EXCEPT !.nonce = req[q].nonce, !.status = "pending", !.late = FALSE]]
  /\ Upset(IF req[q].version # Last.version THEN {"moved"} ELSE {})
  /\ End(q)
  /\ UNCHANGED <<latest, reported, nonces, manifest, deviceVars, inbox, errors>>

(* The INSERT or UPDATE fails after the publish. *)
StoreFails(q) ==
  /\ req[q].at = "store"
  /\ End(q)
  /\ Error
  /\ UNCHANGED <<latest, records, reported, nonces, manifest, deviceVars, inbox>>

Store(q) == PublishManifest(q) \/ StoreFails(q)

ConfirmUpdate(q) ==
  CheckConfirm(q) \/ InsertPending(q) \/ (req[q].kind = "confirm" /\ Store(q))

RetryUpdate(q) ==
  CheckRetry(q) \/ ResetPending(q) \/ (req[q].kind = "retry" /\ Store(q))

-----------------------------------------------------------------------------
(* The device, as the server's messages assume it *)

(* It installs the manifest it sees, or fails to, and reports. *)
Install(ok) ==
  /\ manifest.version # 0 /\ manifest.nonce # status.nonce
  /\ Len(inbox) < MaxInbox
  /\ running' = IF ok THEN manifest.version ELSE running
  /\ ran' = IF ok THEN ran \cup {manifest.version} ELSE ran
  /\ status' = [version |-> running', result |-> IF ok THEN "ok" ELSE "failed",
                nonce |-> manifest.nonce]
  /\ inbox' = Append(inbox, status')
  /\ UNCHANGED <<serverVars, manifest, upsets, errors>>

(* Delivered twice, sent again at boot, or retained and sent again when    *)
(* the server subscribes.                                                  *)
Redeliver ==
  /\ status.nonce # 0
  /\ Len(inbox) < MaxInbox
  /\ inbox' = Append(inbox, status)
  /\ UNCHANGED <<serverVars, manifest, deviceVars, upsets, errors>>

-----------------------------------------------------------------------------
(* IngestStatus *)

Pending == {i \in DOMAIN records : records[i].status = "pending"}

NewestReversed(S, new) ==
  [i \in DOMAIN records |->
     IF i \in S /\ \A j \in S : i <= j THEN [records[i] EXCEPT !.status = new] ELSE records[i]]

NewestEvery(S, new) ==
  [i \in DOMAIN records |-> IF i \in S THEN [records[i] EXCEPT !.status = new] ELSE records[i]]

(* ORDER BY created_at DESC LIMIT 1 *)
Newest(S, new) ==
  [i \in DOMAIN records |->
     IF i \in S /\ \A j \in S : j <= i THEN [records[i] EXCEPT !.status = new] ELSE records[i]]

MarkSucceededAny(version) == Newest({i \in Pending : version \in Versions}, "succeeded")
MarkSucceeded(version) == Newest({i \in Pending : records[i].version = version}, "succeeded")
MarkFailed == Newest(Pending, "failed")

(* The message names no nonce: only the version of an "ok" is compared. *)
Mark(m) ==
  CASE m.result = "ok"     -> MarkSucceeded(m.version)
    [] m.result = "failed" -> MarkFailed
    [] OTHER               -> records

(* Two statements: the first may fail, which ends it, and the second may   *)
(* fail, which is only logged.                                             *)
IngestStatus ==
  /\ inbox # <<>>
  /\ inbox' = Tail(inbox)
  /\ LET m == Head(inbox)
     IN  \/ /\ reported' = m.version /\ records' = Mark(m)
            /\ Upset(IF records = <<>> \/ m.nonce # Last.nonce THEN {"foreign"} ELSE {})
            /\ UNCHANGED errors
         \/ reported' \in {reported, m.version} /\ UNCHANGED records /\ Error
  /\ UNCHANGED <<latest, req, nonces, manifest, deviceVars>>

(* The server restarts: its requests are lost.  The messages it did not    *)
(* acknowledge are sent again, before Subscribe registers the handler (so  *)
(* that only the retained status is left) or after it.                     *)
Crash ==
  /\ Error
  /\ latest' = 0
  /\ req' = [q \in Requests |-> IdleReq]
  /\ inbox' \in {inbox, IF status.nonce = 0 THEN <<>> ELSE <<status>>}
  /\ UNCHANGED <<records, reported, nonces, manifest, deviceVars>>

Next ==
  \/ \E v \in Versions : Poll(v)
  \/ \E i \in DOMAIN records : TimePasses(i)
  \/ \E q \in Requests : ConfirmUpdate(q) \/ RetryUpdate(q)
  \/ \E ok \in BOOLEAN : Install(ok)
  \/ Redeliver \/ IngestStatus \/ Crash

Spec == Init /\ [][Next]_vars

-----------------------------------------------------------------------------
(* Properties *)

Calm(reasons) == upsets \cap reasons = {}

(* Whatever is repeated, reordered with requests or lost: a record is      *)
(* succeeded only if the device did install that version.                  *)
SucceededWasInstalled ==
  \A i \in DOMAIN records : records[i].status = "succeeded" => records[i].version \in ran

(* HasPending and the insert are two steps, but requests that do not       *)
(* overlap never leave two pending records for a version, although a retry *)
(* turns the latest record pending again.                                  *)
OnePendingPerVersion ==
  Calm({"overlap"}) =>
    \A i, j \in DOMAIN records :
      /\ records[i].status = "pending" /\ records[j].status = "pending"
      /\ records[i].version = records[j].version
      => i = j

(* Between requests the retained manifest belongs to the latest record,    *)
(* unless requests overlapped or a call failed; it names the record's      *)
(* version unless a retry moved on to a newer release.                     *)
AllIdle == \A q \in Requests : req[q] = IdleReq

ManifestMatchesRecord ==
  Calm({"overlap", "error"}) /\ AllIdle /\ records # <<>> =>
    /\ manifest.nonce = Last.nonce
    /\ Calm({"moved"}) => manifest.version = Last.version

(* When the device answered the latest manifest and the answer is handled, *)
(* the latest record says what the device said, even if requests           *)
(* overlapped.  Three things can prevent it: a failed call, a status       *)
(* message that belongs to another request than the latest record          *)
(* (delivered again, or handled before the record was written), and a      *)
(* retry whose manifest names another version than the record.             *)
ResultRecorded ==
  /\ Calm({"error", "foreign", "moved"}) /\ AllIdle /\ inbox = <<>>
  /\ records # <<>> /\ status.nonce = Last.nonce
  => Last.status = IF status.result = "ok" THEN "succeeded" ELSE "failed"

(* However requests overlap, fail or stop between their three steps, and   *)
(* whatever messages come late or twice: a nonce is announced at most once *)
(* and its request makes at most one record, after that; the device        *)
(* answers each announcement at most once; and a record is settled at most *)
(* once for each nonce it gets: module Orders.                             *)
NoncesAt(at) == {req[q].nonce : q \in {p \in Requests : req[p].at = at}}
Book         == {<<records[i].nonce, records[i].status>> : i \in DOMAIN records}

Updates == INSTANCE Orders WITH
  Nonces <- 1..MaxNonces, NoNonce <- 0,
  issued <- 1..nonces, asked <- NoncesAt("publish"), announced <- NoncesAt("store"),
  topic <- manifest.nonce, answered <- status.nonce, book <- Book

ImplementsOrders == Updates!Spec
=============================================================================
