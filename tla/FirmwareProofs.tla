--------------------------- MODULE FirmwareProofs ---------------------------
(***************************************************************************)
(* Proofs about Firmware, for any requests, versions and nonces and any    *)
(* order of requests, status messages and failures.                        *)
(***************************************************************************)
EXTENDS Firmware, SequenceTheorems, TLAPS

(* A request in flight has passed the checks of its kind. *)
RequestInv ==
  \A q \in Requests :
    /\ req[q].at = "idle" <=> req[q] = IdleReq
    /\ req[q] # IdleReq =>
         /\ req[q].kind \in {"confirm", "retry"} /\ req[q].version \in Versions
         /\ req[q].nonce \in 1..nonces
         /\ req[q].kind = "retry" => records # <<>>
    /\ \A p \in Requests :
         p # q /\ req[q] # IdleReq /\ req[p] # IdleReq => req[p].nonce # req[q].nonce

(* A message and the retained status say what the device did. *)
Answer(m) == m.nonce # 0 /\ m.result # "none" /\ (m.result = "ok" => m.version \in ran)

DeviceInv ==
  /\ status.nonce # 0 => Answer(status)
  /\ \A k \in 1..Len(inbox) : Answer(inbox[k])
  /\ manifest.version # 0 => manifest.nonce # 0
  /\ \A i \in 1..Len(records) : records[i].status = "succeeded" => records[i].version \in ran

(* Without overlap one request runs at a time and only the newest record   *)
(* of a version is pending.                                                *)
AloneInv ==
  Calm({"overlap"}) =>
    /\ \A p, q \in Requests : p # q /\ req[q] # IdleReq => req[p] = IdleReq
    /\ \A i, j \in 1..Len(records) :
         i < j /\ records[i].version = records[j].version => records[i].status # "pending"
    /\ \A q \in Requests : req[q].kind = "confirm" =>
         \A i \in 1..Len(records) :
           records[i].version = req[q].version => records[i].status # "pending"

(* Between the publish and the store the manifest is the request's, before *)
(* and after it is the latest record's.                                    *)
ManifestInv ==
  Calm({"overlap", "error"}) =>
    /\ \A q \in Requests : req[q].at = "store" =>
         manifest.nonce = req[q].nonce /\ manifest.version = req[q].version
    /\ (\A q \in Requests : req[q].at # "store") /\ records # <<>> =>
         /\ manifest.nonce = Last.nonce
         /\ Calm({"moved"}) => manifest.version = Last.version

(* Each nonce is handed out, published, installed and recorded once. *)
NonceInv ==
  /\ manifest.nonce \in 0..nonces /\ status.nonce \in 0..nonces
  /\ \A i \in 1..Len(records) : records[i].nonce \in 1..nonces
  /\ \A k \in 1..Len(inbox) :
       /\ inbox[k].nonce \in 1..nonces
       /\ inbox[k].nonce = manifest.nonce => status.nonce = manifest.nonce
       /\ inbox[k].nonce = status.nonce => inbox[k] = status
  /\ \A q \in Requests : req[q] # IdleReq =>
       /\ \A i \in 1..Len(records) : records[i].nonce # req[q].nonce
       /\ req[q].at = "publish" =>
            /\ req[q].nonce # manifest.nonce /\ req[q].nonce # status.nonce
            /\ \A k \in 1..Len(inbox) : inbox[k].nonce # req[q].nonce

(* A nonce stands for one version. *)
VersionInv ==
  /\ \A q \in Requests : req[q].at = "store" =>
       /\ manifest.nonce = req[q].nonce => manifest.version = req[q].version
       /\ status.nonce = req[q].nonce /\ status.result = "ok" => status.version = req[q].version
  /\ Calm({"moved"}) /\ records # <<>> =>
       /\ Last.nonce = manifest.nonce => Last.version = manifest.version
       /\ Last.nonce = status.nonce /\ status.result = "ok" => Last.version = status.version

Verdict(result) == IF result = "ok" THEN "succeeded" ELSE "failed"

UnderWay == \E k \in 1..Len(inbox) : inbox[k] = status

(* The answer to the latest record is recorded or on its way. *)
ResultInv ==
  Calm({"error", "foreign", "moved"}) =>
    /\ \A q \in Requests :
         req[q].at = "store" /\ req[q].nonce = status.nonce => UnderWay
    /\ records # <<>> /\ Last.nonce = status.nonce =>
         \/ Last.status = Verdict(status.result)
         \/ Last.status = "pending" /\ UnderWay
    /\ records # <<>> /\ Last.nonce = manifest.nonce /\ manifest.nonce # status.nonce =>
         Last.status = "pending"

FirmwareInv == TypeOK /\ RequestInv /\ DeviceInv /\ NonceInv
-----------------------------------------------------------------------------
(* What the steps do to the sequences *)

LEMMA NewestFacts ==
  ASSUME records \in Seq(Record), NEW S \in SUBSET Pending, NEW new \in {"succeeded", "failed"}
  PROVE  /\ Newest(S, new) \in Seq(Record) /\ Len(Newest(S, new)) = Len(records)
         /\ \A i \in 1..Len(records) :
              \/ Newest(S, new)[i] = records[i]
              \/ i \in S /\ Newest(S, new)[i] = [records[i] EXCEPT !.status = new]
         /\ Len(records) \in S =>
              Newest(S, new)[Len(records)] = [records[Len(records)] EXCEPT !.status = new]
<1>1. /\ DOMAIN records = 1..Len(records) /\ Len(records) \in Nat
      /\ \A i \in 1..Len(records) : records[i] \in Record
  BY LenProperties, ElementOfSeq
<1>2. Newest(S, new) \in [1..Len(records) -> Record]
  BY <1>1 DEF Newest, Record
<1>3. Newest(S, new) \in Seq(Record)
  BY <1>1, <1>2, SeqDef
<1>4. Len(Newest(S, new)) = Len(records)
  <2>1. DOMAIN Newest(S, new) = 1..Len(Newest(S, new)) /\ Len(Newest(S, new)) \in Nat
    BY <1>3, LenProperties
  <2> QED BY <1>1, <1>2, <2>1
<1>5. Len(records) \in S => \A j \in S : j <= Len(records)
  BY <1>1 DEF Pending
<1> QED BY <1>1, <1>3, <1>4, <1>5 DEF Newest, Pending

(* A message changes the status of a pending record only, to its verdict,  *)
(* and it does so for the latest record if that is pending and, on "ok",   *)
(* names the installed version.                                            *)
MarkedBy(m, old, new) ==
  /\ m.result \in {"ok", "failed"} /\ old.status = "pending"
  /\ m.result = "ok" => old.version = m.version
  /\ new = [old EXCEPT !.status = Verdict(m.result)]

LEMMA MarkFacts ==
  ASSUME records \in Seq(Record), NEW m \in Message
  PROVE  /\ Mark(m) \in Seq(Record) /\ Len(Mark(m)) = Len(records)
         /\ \A i \in 1..Len(records) :
              Mark(m)[i] = records[i] \/ MarkedBy(m, records[i], Mark(m)[i])
         /\ /\ records # <<>> /\ Last.status = "pending" /\ m.result # "none"
            /\ m.result = "ok" => Last.version = m.version
            => MarkedBy(m, Last, Mark(m)[Len(records)])
<1>1. /\ DOMAIN records = 1..Len(records) /\ Len(records) \in Nat
      /\ records # <<>> => Len(records) \in 1..Len(records)
  BY LenProperties, EmptySeq
<1>2. CASE m.result = "ok"
  <2>1. Mark(m) = Newest({i \in Pending : records[i].version = m.version}, "succeeded")
    BY <1>2 DEF Mark, MarkSucceeded
  <2> DEFINE S == {i \in Pending : records[i].version = m.version}
  <2>2. S \in SUBSET Pending
    OBVIOUS
  <2> HIDE DEF S
  <2>3. /\ Newest(S, "succeeded") \in Seq(Record) /\ Len(Newest(S, "succeeded")) = Len(records)
        /\ \A i \in 1..Len(records) :
             \/ Newest(S, "succeeded")[i] = records[i]
             \/ i \in S /\ Newest(S, "succeeded")[i] = [records[i] EXCEPT !.status = "succeeded"]
        /\ Len(records) \in S =>
             Newest(S, "succeeded")[Len(records)] = [records[Len(records)] EXCEPT !.status = "succeeded"]
    BY <2>2, NewestFacts
  <2> QED BY <1>1, <1>2, <2>1, <2>3 DEF S, Pending, MarkedBy, Verdict, Last
<1>3. CASE m.result = "failed"
  <2>1. Mark(m) = Newest(Pending, "failed")
    BY <1>3 DEF Mark, MarkFailed
  <2>3. /\ Newest(Pending, "failed") \in Seq(Record) /\ Len(Newest(Pending, "failed")) = Len(records)
        /\ \A i \in 1..Len(records) :
             \/ Newest(Pending, "failed")[i] = records[i]
             \/ i \in Pending /\ Newest(Pending, "failed")[i] = [records[i] EXCEPT !.status = "failed"]
        /\ Len(records) \in Pending =>
             Newest(Pending, "failed")[Len(records)] = [records[Len(records)] EXCEPT !.status = "failed"]
    BY NewestFacts
  <2> QED BY <1>1, <1>3, <2>1, <2>3 DEF Pending, MarkedBy, Verdict, Last
<1>4. CASE m.result = "none"
  BY <1>1, <1>4 DEF Mark
<1> QED BY <1>2, <1>3, <1>4 DEF Message

(* Only InsertPending adds a record. *)
LEMMA InsertFacts ==
  ASSUME FirmwareInv, NEW q \in Requests, InsertPending(q)
  PROVE  /\ records' \in Seq(Record) /\ Len(records') = Len(records) + 1
         /\ \A i \in 1..Len(records) : records'[i] = records[i]
         /\ records'[Len(records')].version = req[q].version
         /\ records'[Len(records')].nonce = req[q].nonce
         /\ records'[Len(records')].status = "pending"
         /\ Len(records) \in Nat
<1> DEFINE r == [version |-> req[q].version, nonce |-> req[q].nonce,
                 status |-> "pending", late |-> FALSE]
<1>1. r \in Record
  <2>1. req[q].version \in Versions /\ req[q].nonce \in 1..nonces /\ nonces \in 0..MaxNonces
    BY FirmwareAssumption DEF InsertPending, FirmwareInv, RequestInv, TypeOK, IdleReq
  <2> QED BY <2>1, FirmwareAssumption DEF Record
<1>2. records' = Append(records, r) /\ records \in Seq(Record)
  BY DEF InsertPending, FirmwareInv, TypeOK
<1> HIDE DEF r
<1>3. /\ Append(records, r) \in Seq(Record) /\ Len(Append(records, r)) = Len(records) + 1
      /\ \A i \in 1..Len(records) : Append(records, r)[i] = records[i]
      /\ Append(records, r)[Len(records) + 1] = r
  BY <1>1, <1>2, AppendProperties
<1>4. Len(records) \in Nat
  BY <1>2, LenProperties
<1>5. records'[Len(records')] = r
  BY <1>2, <1>3
<1>6. r.version = req[q].version /\ r.nonce = req[q].nonce /\ r.status = "pending"
  BY DEF r
<1> QED BY <1>2, <1>3, <1>4, <1>5, <1>6

LEMMA ResetRecord ==
  ASSUME NEW e \in Record, NEW n \in 1..MaxNonces
  PROVE  /\ [e EXCEPT !.nonce = n, !.status = "pending", !.late = FALSE]
              = [version |-> e.version, nonce |-> n, status |-> "pending", late |-> FALSE]
         /\ [version |-> e.version, nonce |-> n, status |-> "pending", late |-> FALSE] \in Record
<1>1. \A x \in Record : x = [version |-> x.version, nonce |-> x.nonce,
                             status |-> x.status, late |-> x.late]
  BY DEF Record
<1>2. [e EXCEPT !.nonce = n, !.status = "pending", !.late = FALSE] \in Record
  BY DEF Record
<1>3. /\ [e EXCEPT !.nonce = n, !.status = "pending", !.late = FALSE].version = e.version
      /\ [e EXCEPT !.nonce = n, !.status = "pending", !.late = FALSE].nonce = n
      /\ [e EXCEPT !.nonce = n, !.status = "pending", !.late = FALSE].status = "pending"
      /\ [e EXCEPT !.nonce = n, !.status = "pending", !.late = FALSE].late = FALSE
  BY DEF Record
<1> DEFINE x == [e EXCEPT !.nonce = n, !.status = "pending", !.late = FALSE]
<1>4. x \in Record /\ x.version = e.version /\ x.nonce = n /\ x.status = "pending" /\ x.late = FALSE
  BY <1>2, <1>3
<1> HIDE DEF x
<1>5. x = [version |-> e.version, nonce |-> n, status |-> "pending", late |-> FALSE]
  BY <1>1, <1>4
<1> QED BY <1>4, <1>5 DEF x

LEMMA ResetFacts ==
  ASSUME FirmwareInv, NEW q \in Requests, ResetPending(q)
  PROVE  /\ records' \in Seq(Record) /\ Len(records') = Len(records)
         /\ Len(records) \in Nat \ {0} /\ records # <<>> /\ records' # <<>>
         /\ \A i \in 1..Len(records) : i # Len(records) => records'[i] = records[i]
         /\ records'[Len(records)].version = Last.version
         /\ records'[Len(records)].nonce = req[q].nonce
         /\ records'[Len(records)].status = "pending"
<1>1. /\ req[q] # IdleReq /\ req[q].nonce \in 1..MaxNonces /\ records # <<>>
  BY FirmwareAssumption DEF ResetPending, FirmwareInv, RequestInv, TypeOK, IdleReq
<1>2. records \in Seq(Record) /\ Len(records) \in Nat \ {0} /\ Last \in Record
  BY <1>1, EmptySeq, ElementOfSeq DEF FirmwareInv, TypeOK, Last
<1> DEFINE r == [version |-> Last.version, nonce |-> req[q].nonce, status |-> "pending", late |-> FALSE]
<1>4. r = [Last EXCEPT !.nonce = req[q].nonce, !.status = "pending", !.late = FALSE]
  BY <1>1, <1>2, ResetRecord
<1>3. r \in Record
  BY <1>1, <1>2, ResetRecord
<1>5. records' = [records EXCEPT ![Len(records)] = r]
  BY <1>4 DEF ResetPending, Last
<1> HIDE DEF r
<1>6. /\ records' \in Seq(Record) /\ Len(records') = Len(records)
      /\ \A j \in 1..Len(records) : records'[j] = IF j = Len(records) THEN r ELSE records[j]
  BY <1>2, <1>3, <1>5, ExceptSeq
<1>7. records' # <<>>
  BY <1>2, <1>6, EmptySeq
<1>8. Len(records) \in 1..Len(records)
  BY <1>2
<1>9. records'[Len(records)] = r
  BY <1>6, <1>8
<1>10. r.version = Last.version /\ r.nonce = req[q].nonce /\ r.status = "pending"
  BY DEF r
<1> QED BY <1>1, <1>2, <1>6, <1>7, <1>9, <1>10

(* Time makes a record late and nothing else. *)
LEMMA TimeFacts ==
  ASSUME FirmwareInv, NEW n \in DOMAIN records, TimePasses(n)
  PROVE  /\ records' \in Seq(Record) /\ Len(records') = Len(records)
         /\ Len(records) \in Nat \ {0} /\ records # <<>>
         /\ \A i \in 1..Len(records) :
              /\ records'[i].version = records[i].version /\ records'[i].nonce = records[i].nonce
              /\ records'[i].status = records[i].status
<1>1. records \in Seq(Record) /\ n \in 1..Len(records) /\ Len(records) \in Nat
  BY LenProperties DEF FirmwareInv, TypeOK
<1>2. \A i \in 1..Len(records) : records[i] \in Record
  BY <1>1, ElementOfSeq
<1> DEFINE r == [records[n] EXCEPT !.late = TRUE]
<1>3. r \in Record /\ r.version = records[n].version /\ r.nonce = records[n].nonce
      /\ r.status = records[n].status
  BY <1>1, <1>2 DEF Record
<1>4. records' = [records EXCEPT ![n] = r]
  BY DEF TimePasses
<1> HIDE DEF r
<1>5. /\ records' \in Seq(Record) /\ Len(records') = Len(records)
      /\ \A j \in 1..Len(records) : records'[j] = IF j = n THEN r ELSE records[j]
  BY <1>1, <1>3, <1>4, ExceptSeq
<1> QED BY <1>1, <1>3, <1>5, EmptySeq

LEMMA IngestFacts ==
  ASSUME FirmwareInv, IngestStatus
  PROVE  /\ Head(inbox) \in Message /\ Head(inbox) = inbox[1]
         /\ inbox' \in Seq(Message) /\ Len(inbox) \in Nat \ {0} /\ Len(inbox') = Len(inbox) - 1
         /\ \A k \in 1..Len(inbox') : k + 1 \in 1..Len(inbox) /\ inbox'[k] = inbox[k + 1]
         /\ records' \in Seq(Record) /\ Len(records') = Len(records) /\ Len(records) \in Nat
         /\ \A i \in 1..Len(records) :
              records'[i] = records[i] \/ MarkedBy(Head(inbox), records[i], records'[i])
         /\ errors' = errors =>
              /\ upsets' = upsets \cup
                   (IF records = <<>> \/ Head(inbox).nonce # Last.nonce THEN {"foreign"} ELSE {})
              /\ /\ records # <<>> /\ Last.status = "pending" /\ Head(inbox).result # "none"
                 /\ Head(inbox).result = "ok" => Last.version = Head(inbox).version
                 => MarkedBy(Head(inbox), Last, Last')
         /\ records' = records \/ errors' = errors
         /\ errors' = errors \/ upsets' = upsets \cup {"error"}
         /\ upsets \subseteq upsets'
<1> DEFINE m == Head(inbox)
<1>1. inbox # <<>> /\ inbox' = Tail(inbox) /\ inbox \in Seq(Message)
  BY DEF IngestStatus, FirmwareInv, TypeOK
<1>2. /\ m \in Message /\ m = inbox[1] /\ Len(inbox) \in Nat \ {0}
      /\ Tail(inbox) \in Seq(Message) /\ Len(Tail(inbox)) = Len(inbox) - 1
      /\ \A k \in 1..Len(Tail(inbox)) : Tail(inbox)[k] = inbox[k + 1]
  BY <1>1, HeadTailProperties, EmptySeq
<1>3. records \in Seq(Record) /\ Len(records) \in Nat
  BY LenProperties DEF FirmwareInv, TypeOK
<1>4. \/ /\ records' = Mark(m) /\ errors' = errors
         /\ upsets' = upsets \cup
              (IF records = <<>> \/ m.nonce # Last.nonce THEN {"foreign"} ELSE {})
      \/ /\ records' = records /\ errors' = errors + 1 /\ upsets' = upsets \cup {"error"}
  BY DEF IngestStatus, Upset, Error
<1>5. errors + 1 # errors
  BY FirmwareAssumption DEF FirmwareInv, TypeOK
<1> HIDE DEF m
<1>6. /\ Mark(m) \in Seq(Record) /\ Len(Mark(m)) = Len(records)
      /\ \A i \in 1..Len(records) :
           Mark(m)[i] = records[i] \/ MarkedBy(m, records[i], Mark(m)[i])
      /\ /\ records # <<>> /\ Last.status = "pending" /\ m.result # "none"
         /\ m.result = "ok" => Last.version = m.version
         => MarkedBy(m, Last, Mark(m)[Len(records)])
  BY <1>2, <1>3, MarkFacts
<1>7. /\ inbox' \in Seq(Message) /\ Len(inbox') = Len(inbox) - 1
      /\ \A k \in 1..Len(inbox') : k + 1 \in 1..Len(inbox) /\ inbox'[k] = inbox[k + 1]
  BY <1>1, <1>2
<1>8. CASE records' = Mark(m) /\ errors' = errors /\ upsets' = upsets \cup
              (IF records = <<>> \/ m.nonce # Last.nonce THEN {"foreign"} ELSE {})
  <2>1. Last' = Mark(m)[Len(records)]
    BY <1>6, <1>8 DEF Last
  <2> QED BY <1>2, <1>3, <1>6, <1>7, <1>8, <2>1 DEF m
<1>9. CASE records' = records /\ errors' = errors + 1 /\ upsets' = upsets \cup {"error"}
  BY <1>2, <1>3, <1>5, <1>7, <1>9 DEF m
<1> QED BY <1>4, <1>8, <1>9

(* The device's status is added to the end. *)
LEMMA ReportFacts ==
  ASSUME FirmwareInv, status' \in Message, inbox' = Append(inbox, status')
  PROVE  /\ inbox' \in Seq(Message) /\ Len(inbox') = Len(inbox) + 1 /\ Len(inbox) \in Nat
         /\ \A k \in 1..Len(inbox) : inbox'[k] = inbox[k]
         /\ inbox'[Len(inbox')] = status'
BY AppendProperties, LenProperties DEF FirmwareInv, TypeOK

(* A restart keeps the messages or leaves the retained one. *)
LEMMA CrashFacts ==
  ASSUME FirmwareInv, Crash
  PROVE  /\ inbox' \in Seq(Message)
         /\ \/ inbox' = inbox
            \/ Len(inbox') = 0
            \/ status.nonce # 0 /\ Len(inbox') = 1 /\ inbox'[1] = status
<1>1. inbox \in Seq(Message) /\ status \in Message
  BY DEF FirmwareInv, TypeOK
<1>2. <<>> \in Seq(Message) /\ Len(<<>>) = 0
  BY EmptySeq
<1>3. <<status>> \in Seq(Message) /\ Len(<<status>>) = 1 /\ <<status>>[1] = status
  BY <1>1
<1> QED BY <1>1, <1>2, <1>3 DEF Crash

-----------------------------------------------------------------------------
(* The types, and what a request in flight has passed *)

ReqType == [at: {"idle", "publish", "store"}, kind: {"none", "confirm", "retry"},
            version: Versions \cup {0}, nonce: 0..MaxNonces]

(* The steps of Next, one by one. *)
LEMMA Steps ==
  ASSUME Next
  PROVE  \/ \E v \in Versions : Poll(v)
         \/ \E n \in DOMAIN records : TimePasses(n)
         \/ \E q \in Requests : CheckConfirm(q) \/ CheckRetry(q) \/ PublishManifest(q)
                             \/ StoreFails(q) \/ InsertPending(q) \/ ResetPending(q)
         \/ \E ok \in BOOLEAN : Install(ok)
         \/ Redeliver \/ IngestStatus \/ Crash
BY DEF Next, ConfirmUpdate, RetryUpdate, Store

(* What a request that passes its checks becomes. *)
LEMMA PassFacts ==
  ASSUME FirmwareInv, NEW q \in Requests, NEW kind \in {"confirm", "retry"}, Pass(q, kind)
  PROVE  /\ req[q] = IdleReq /\ latest \in Versions /\ nonces' = nonces + 1 /\ nonces' \in 1..MaxNonces
         /\ req' \in [Requests -> ReqType]
         /\ req'[q] = [at |-> "publish", kind |-> kind, version |-> latest, nonce |-> nonces']
         /\ \A p \in Requests : p # q => req'[p] = req[p]
         /\ req'[q] # IdleReq
         /\ upsets' = upsets \cup (IF Busy(q) THEN {"overlap"} ELSE {})
         /\ UNCHANGED <<records, reported, manifest, deviceVars, inbox, errors>>
<1>1. /\ latest \in Versions /\ nonces \in Nat /\ nonces' = nonces + 1 /\ nonces' \in 1..MaxNonces
      /\ req \in [Requests -> ReqType]
  BY FirmwareAssumption DEF Pass, FirmwareInv, TypeOK, ReqType
<1> DEFINE r == [at |-> "publish", kind |-> kind, version |-> latest, nonce |-> nonces']
<1>2. r \in ReqType /\ r # IdleReq
  BY <1>1 DEF ReqType, IdleReq
<1>3. req' = [req EXCEPT ![q] = r]
  BY DEF Pass
<1> HIDE DEF r
<1>4. req' \in [Requests -> ReqType] /\ req'[q] = r /\ \A p \in Requests : p # q => req'[p] = req[p]
  BY <1>1, <1>2, <1>3
<1> QED BY <1>1, <1>2, <1>4 DEF r, Pass, Upset

(* What ends a request. *)
LEMMA EndFacts ==
  ASSUME FirmwareInv, NEW q \in Requests, End(q)
  PROVE  /\ req' \in [Requests -> ReqType] /\ req'[q] = IdleReq
         /\ \A p \in Requests : p # q => req'[p] = req[p]
BY FirmwareAssumption DEF End, FirmwareInv, TypeOK, ReqType, IdleReq

(* The publish was sent and its request goes on, or it failed. *)
LEMMA PublishFacts ==
  ASSUME FirmwareInv, NEW q \in Requests, PublishManifest(q)
  PROVE  /\ req[q].at = "publish" /\ req[q] # IdleReq
         /\ req' \in [Requests -> ReqType]
         /\ \A p \in Requests : p # q => req'[p] = req[p]
         /\ \/ /\ req'[q].at = "store" /\ req'[q].kind = req[q].kind
               /\ req'[q].version = req[q].version /\ req'[q].nonce = req[q].nonce
               /\ manifest' = [version |-> req[q].version, nonce |-> req[q].nonce]
               /\ UNCHANGED <<upsets, errors>>
            \/ /\ req'[q] = IdleReq /\ Error
               /\ manifest' = manifest \/ manifest' = [version |-> req[q].version, nonce |-> req[q].nonce]
         /\ UNCHANGED <<latest, records, reported, nonces, deviceVars, inbox>>
<1>1. req \in [Requests -> ReqType] /\ req[q].at = "publish" /\ req[q] # IdleReq
  BY DEF PublishManifest, FirmwareInv, TypeOK, ReqType, IdleReq
<1>2. CASE req' = [req EXCEPT ![q].at = "store"]
  <2>1. /\ req' \in [Requests -> ReqType]
        /\ \A p \in Requests : p # q => req'[p] = req[p]
        /\ req'[q].at = "store" /\ req'[q].kind = req[q].kind
        /\ req'[q].version = req[q].version /\ req'[q].nonce = req[q].nonce
    BY <1>1, <1>2 DEF ReqType
  <2>2. req[q].at # "idle" /\ req'[q] # IdleReq
    BY <1>1, <2>1 DEF IdleReq
  <2>3. manifest' = [version |-> req[q].version, nonce |-> req[q].nonce] /\ UNCHANGED <<upsets, errors>>
    <3>1. ~End(q)
      BY <2>2, EndFacts
    <3> QED BY <3>1 DEF PublishManifest
  <2> QED BY <1>1, <2>1, <2>3 DEF PublishManifest
<1>3. CASE End(q) /\ Error /\ manifest' \in {manifest, [version |-> req[q].version, nonce |-> req[q].nonce]}
  BY <1>1, <1>3, EndFacts DEF PublishManifest
<1> QED BY <1>2, <1>3 DEF PublishManifest

(* Every step keeps the types. *)
LEMMA TypeInductive ==
  ASSUME FirmwareInv, [Next]_vars
  PROVE  TypeOK'
<1>0. ASSUME NEW q \in Requests, NEW kind \in {"confirm", "retry"}, Pass(q, kind)
      PROVE  nonces' \in 1..MaxNonces /\ req' \in [Requests -> ReqType]
  BY <1>0, PassFacts
<1> USE FirmwareAssumption DEF FirmwareInv, TypeOK, serverVars, deviceVars
<1>1. CASE UNCHANGED vars
  BY <1>1 DEF vars
<1>2. ASSUME NEW v \in Versions, Poll(v)
      PROVE  TypeOK'
  BY <1>2 DEF Poll
<1>3. ASSUME NEW n \in DOMAIN records, TimePasses(n)
      PROVE  TypeOK'
  <2>1. records' \in Seq(Record)
    BY <1>3, TimeFacts
  <2> QED BY <1>3, <2>1 DEF TimePasses
<1>4. ASSUME NEW q \in Requests, NEW kind \in {"confirm", "retry"}, Pass(q, kind)
      PROVE  TypeOK'
  <2>1. nonces' \in 0..MaxNonces /\ req' \in [Requests -> ReqType]
    <3>1. nonces' \in 1..MaxNonces /\ req' \in [Requests -> ReqType]
      BY ONLY <1>0, <1>4
    <3> QED BY ONLY <3>1, FirmwareAssumption
  <2>2. upsets' \subseteq {"overlap", "error", "foreign", "moved"}
    BY <1>4 DEF Pass, Upset
  <2> QED BY <1>4, <2>1, <2>2 DEF Pass, ReqType
<1>5. ASSUME NEW q \in Requests, PublishManifest(q)
      PROVE  TypeOK'
  <2>1. req' \in [Requests -> ReqType]
    BY <1>5, PublishFacts
  <2>2. manifest' \in [version: Versions \cup {0}, nonce: 0..MaxNonces]
    BY <1>5 DEF PublishManifest
  <2>3. errors' \in 0..MaxErrors /\ upsets' \subseteq {"overlap", "error", "foreign", "moved"}
    <3>1. errors' = errors \/ (errors < MaxErrors /\ errors' = errors + 1)
      BY ONLY <1>5 DEF PublishManifest, Error
    <3>2. upsets' = upsets \/ upsets' = upsets \cup {"error"}
      BY ONLY <1>5 DEF PublishManifest, Error, Upset
    <3>3. errors' \in 0..MaxErrors
      BY <3>1
    <3>4. upsets' \subseteq {"overlap", "error", "foreign", "moved"}
      BY <3>2
    <3> QED BY <3>3, <3>4
  <2> QED BY <1>5, <2>1, <2>2, <2>3 DEF PublishManifest, ReqType
<1>6. ASSUME NEW q \in Requests, StoreFails(q)
      PROVE  TypeOK'
  <2>1. req' \in [Requests -> ReqType]
    BY <1>6, EndFacts DEF StoreFails
  <2> QED BY <1>6, <2>1 DEF StoreFails, Error, Upset, ReqType
<1>7. ASSUME NEW q \in Requests, InsertPending(q)
      PROVE  TypeOK'
  <2>1. req' \in [Requests -> ReqType] /\ records' \in Seq(Record)
    BY <1>7, EndFacts, InsertFacts DEF InsertPending
  <2> QED BY <1>7, <2>1 DEF InsertPending, ReqType
<1>8. ASSUME NEW q \in Requests, ResetPending(q)
      PROVE  TypeOK'
  <2>1. req' \in [Requests -> ReqType] /\ records' \in Seq(Record)
    BY <1>8, EndFacts, ResetFacts DEF ResetPending
  <2> QED BY <1>8, <2>1 DEF ResetPending, Upset, ReqType
<1>9. ASSUME NEW ok \in BOOLEAN, Install(ok)
      PROVE  TypeOK'
  <2>1. status' \in Message /\ running' \in Versions \cup {0} /\ ran' \subseteq Versions
    BY <1>9 DEF Install, Message
  <2>2. inbox' \in Seq(Message)
    BY <1>9, <2>1, ReportFacts DEF Install
  <2> QED BY <1>9, <2>1, <2>2 DEF Install
<1>10. CASE Redeliver
  <2>1. inbox' \in Seq(Message)
    BY <1>10, ReportFacts DEF Redeliver
  <2> QED BY <1>10, <2>1 DEF Redeliver
<1>11. CASE IngestStatus
  <2>1. inbox' \in Seq(Message) /\ records' \in Seq(Record) /\ Head(inbox) \in Message
    BY <1>11, IngestFacts
  <2>2. reported' \in Versions \cup {0}
    BY <1>11, <2>1 DEF IngestStatus, Message
  <2>3. errors' \in 0..MaxErrors /\ upsets' \subseteq {"overlap", "error", "foreign", "moved"}
    <3>1. \/ errors' = errors /\ upsets' \subseteq upsets \cup {"foreign"}
          \/ errors < MaxErrors /\ errors' = errors + 1 /\ upsets' = upsets \cup {"error"}
      BY <1>11 DEF IngestStatus, Error, Upset
    <3>2. errors \in 0..MaxErrors /\ MaxErrors \in Nat
          /\ upsets \subseteq {"overlap", "error", "foreign", "moved"}
      OBVIOUS
    <3>3. errors' \in 0..MaxErrors
      BY ONLY <3>1, <3>2, SMT
    <3>4. upsets' \subseteq {"overlap", "error", "foreign", "moved"}
      BY ONLY <3>1, <3>2, Zenon
    <3> QED BY ONLY <3>3, <3>4
  <2> QED BY <1>11, <2>1, <2>2, <2>3 DEF IngestStatus
<1>12. CASE Crash
  <2>1. inbox' \in Seq(Message)
    BY <1>12, CrashFacts
  <2>2. req' \in [Requests -> ReqType]
    BY <1>12 DEF Crash, ReqType, IdleReq
  <2> QED BY <1>12, <2>1, <2>2 DEF Crash, Error, Upset, ReqType
<1> QED BY <1>1, <1>2, <1>3, <1>4, <1>5, <1>6, <1>7, <1>8, <1>9, <1>10, <1>11, <1>12, Steps
  DEF CheckConfirm, CheckRetry

(* A request keeps what it passed, and its nonce is its own. *)
LEMMA RequestInductive ==
  ASSUME FirmwareInv, [Next]_vars
  PROVE  RequestInv'
<1> DEFINE Ready(q) ==
      /\ req[q].at = "idle" <=> req[q] = IdleReq
      /\ req[q] # IdleReq =>
           /\ req[q].kind \in {"confirm", "retry"} /\ req[q].version \in Versions
           /\ req[q].nonce \in 1..nonces
           /\ req[q].kind = "retry" => records # <<>>
<1>0. /\ records \in Seq(Record) /\ nonces \in Nat
      /\ \A q \in Requests : Ready(q)
      /\ \A p, q \in Requests :
           p # q /\ req[q] # IdleReq /\ req[p] # IdleReq => req[p].nonce # req[q].nonce
  BY FirmwareAssumption DEF FirmwareInv, TypeOK, RequestInv
<1>1. CASE UNCHANGED <<req, nonces, records>>
  BY <1>1 DEF FirmwareInv, RequestInv
<1>2. ASSUME NEW n \in DOMAIN records, TimePasses(n)
      PROVE  RequestInv'
  <2>1. records' # <<>> /\ UNCHANGED <<req, nonces>>
    BY <1>2, TimeFacts, EmptySeq DEF TimePasses, serverVars
  <2> QED BY <2>1 DEF FirmwareInv, RequestInv
<1>3. ASSUME NEW q \in Requests, NEW kind \in {"confirm", "retry"}, Pass(q, kind),
             kind = "retry" => records # <<>>
      PROVE  RequestInv'
  <2>1. /\ req[q] = IdleReq /\ latest \in Versions /\ nonces' = nonces + 1
        /\ req'[q] = [at |-> "publish", kind |-> kind, version |-> latest, nonce |-> nonces']
        /\ \A p \in Requests : p # q => req'[p] = req[p]
        /\ req'[q] # IdleReq /\ UNCHANGED records
    BY <1>3, PassFacts
  <2>2. \A p \in Requests : Ready(p)'
    BY <1>0, <1>3, <2>1
  <2>3. \A p \in Requests : p # q /\ req[p] # IdleReq => req[p].nonce # nonces'
    BY <1>0, <2>1
  <2> QED BY <1>0, <2>1, <2>2, <2>3 DEF RequestInv
<1>4. ASSUME NEW q \in Requests, \A p \in Requests : p # q => req'[p] = req[p],
             \/ req'[q] = IdleReq
             \/ /\ req'[q].at = "store" /\ req'[q].kind = req[q].kind
                /\ req'[q].version = req[q].version /\ req'[q].nonce = req[q].nonce
                /\ req[q] # IdleReq,
             UNCHANGED nonces, records # <<>> => records' # <<>>
      PROVE  RequestInv'
  <2>0. IdleReq.at = "idle"
    BY DEF IdleReq
  <2>1. \A p \in Requests : Ready(p)'
    BY <1>0, <1>4, <2>0
  <2>2. \A p \in Requests : req'[p] # IdleReq => req[p] # IdleReq /\ req'[p].nonce = req[p].nonce
    BY <1>4
  <2> QED BY <1>0, <2>1, <2>2 DEF RequestInv
<1>5. ASSUME NEW q \in Requests, PublishManifest(q)
      PROVE  RequestInv'
  <2>1. /\ req[q] # IdleReq
        /\ \A p \in Requests : p # q => req'[p] = req[p]
        /\ \/ req'[q] = IdleReq
           \/ /\ req'[q].at = "store" /\ req'[q].kind = req[q].kind
              /\ req'[q].version = req[q].version /\ req'[q].nonce = req[q].nonce
        /\ UNCHANGED <<nonces, records>>
    BY <1>5, PublishFacts
  <2> QED BY <1>4, <2>1
<1>6. ASSUME NEW q \in Requests, InsertPending(q)
      PROVE  RequestInv'
  <2>1. records' \in Seq(Record) /\ Len(records') = Len(records) + 1 /\ Len(records) \in Nat
    BY <1>6, InsertFacts
  <2>2. records' # <<>> /\ UNCHANGED nonces /\ End(q)
    BY <1>6, <2>1, EmptySeq DEF InsertPending
  <2> QED BY <1>4, <2>2, EndFacts
<1>7. ASSUME NEW q \in Requests, ResetPending(q)
      PROVE  RequestInv'
  <2>1. records' # <<>> /\ UNCHANGED nonces /\ End(q)
    BY <1>7, ResetFacts DEF ResetPending
  <2> QED BY <1>4, <2>1, EndFacts
<1>8. ASSUME NEW q \in Requests, StoreFails(q)
      PROVE  RequestInv'
  <2>1. UNCHANGED <<records, nonces>> /\ End(q)
    BY <1>8 DEF StoreFails
  <2> QED BY <1>4, <2>1, EndFacts
<1>9. CASE IngestStatus
  <2>1. records' \in Seq(Record) /\ Len(records') = Len(records) /\ UNCHANGED <<req, nonces>>
    BY <1>9, IngestFacts DEF IngestStatus
  <2>2. records # <<>> => records' # <<>>
    BY <1>0, <2>1, EmptySeq
  <2> QED BY <1>0, <2>1, <2>2 DEF RequestInv
<1>10. CASE Crash
  <2>1. (\A q \in Requests : req'[q] = IdleReq) /\ UNCHANGED <<records, nonces>>
    BY <1>10 DEF Crash
  <2> QED BY <2>1 DEF RequestInv, IdleReq
<1> HIDE DEF Ready
<1>11. ASSUME Next
       PROVE  RequestInv'
  BY <1>1, <1>2, <1>3, <1>5, <1>6, <1>7, <1>8, <1>9, <1>10, <1>11, Steps
  DEF CheckConfirm, CheckRetry, Poll, Install, Redeliver, serverVars
<1> QED BY <1>1, <1>11 DEF vars, serverVars

-----------------------------------------------------------------------------
(* The device, and the nonces *)

(* A record that is settled keeps its version and nonce. *)
LEMMA SettledFacts ==
  ASSUME FirmwareInv, IngestStatus
  PROVE  /\ records' \in Seq(Record) /\ Len(records') = Len(records) /\ Len(records) \in Nat
         /\ \A i \in 1..Len(records) :
              /\ records'[i].version = records[i].version /\ records'[i].nonce = records[i].nonce
              /\ records'[i].status = "pending" => records[i].status = "pending"
<1>1. /\ records' \in Seq(Record) /\ Len(records') = Len(records) /\ Len(records) \in Nat
      /\ \A i \in 1..Len(records) :
           records'[i] = records[i] \/ MarkedBy(Head(inbox), records[i], records'[i])
  BY IngestFacts
<1>2. ASSUME NEW i \in 1..Len(records), MarkedBy(Head(inbox), records[i], records'[i])
      PROVE  /\ records'[i].version = records[i].version /\ records'[i].nonce = records[i].nonce
             /\ records[i].status = "pending"
  <2>1. records[i] \in Record
    BY ElementOfSeq DEF FirmwareInv, TypeOK
  <2> QED BY <1>2, <2>1 DEF MarkedBy, Record
<1> QED BY <1>1, <1>2

LEMMA DeviceInductive ==
  ASSUME FirmwareInv, [Next]_vars
  PROVE  DeviceInv'
<1>0. /\ records \in Seq(Record) /\ inbox \in Seq(Message)
      /\ Len(records) \in Nat /\ Len(inbox) \in Nat
      /\ \A i \in 1..Len(records) : records[i] \in Record
      /\ DeviceInv
  BY LenProperties, ElementOfSeq DEF FirmwareInv, TypeOK
<1>D. DeviceInv
  BY ONLY <1>0
<1>1. CASE UNCHANGED <<status, ran, inbox, manifest, records>>
  BY <1>0, <1>1 DEF DeviceInv, Answer
<1>2. ASSUME NEW n \in DOMAIN records, TimePasses(n)
      PROVE  DeviceInv'
  <2>1. UNCHANGED <<status, ran, inbox, manifest>>
    BY <1>2 DEF TimePasses, deviceVars
  <2>2. \A i \in 1..Len(records') : records'[i].status = "succeeded" => records'[i].version \in ran
    BY <1>0, <1>2, TimeFacts DEF DeviceInv
  <2> QED BY ONLY <1>D, <2>1, <2>2 DEF DeviceInv, Answer
<1>3. ASSUME NEW q \in Requests, PublishManifest(q)
      PROVE  DeviceInv'
  <2>1. req[q] # IdleReq /\ UNCHANGED <<status, ran, inbox, records>>
        /\ (manifest' = manifest \/ manifest' = [version |-> req[q].version, nonce |-> req[q].nonce])
    BY <1>3, PublishFacts DEF deviceVars
  <2>2. req[q].nonce # 0
    BY <2>1, FirmwareAssumption DEF FirmwareInv, TypeOK, RequestInv
  <2> QED BY ONLY <1>D, <2>1, <2>2 DEF DeviceInv, Answer
<1>4. ASSUME NEW q \in Requests, InsertPending(q)
      PROVE  DeviceInv'
  <2>1. UNCHANGED <<status, ran, inbox, manifest>>
    BY <1>4 DEF InsertPending, deviceVars
  <2>2. \A i \in 1..Len(records') : records'[i].status = "succeeded" => records'[i].version \in ran
    <3>1. /\ Len(records') = Len(records) + 1
          /\ \A i \in 1..Len(records) : records'[i] = records[i]
          /\ records'[Len(records')].status = "pending"
      BY <1>4, InsertFacts
    <3> QED BY <1>0, <3>1 DEF DeviceInv
  <2> QED BY ONLY <1>D, <2>1, <2>2 DEF DeviceInv, Answer
<1>5. ASSUME NEW q \in Requests, ResetPending(q)
      PROVE  DeviceInv'
  <2>1. UNCHANGED <<status, ran, inbox, manifest>>
    BY <1>5 DEF ResetPending, deviceVars
  <2>2. \A i \in 1..Len(records') : records'[i].status = "succeeded" => records'[i].version \in ran
    <3>1. /\ Len(records') = Len(records)
          /\ \A i \in 1..Len(records) : i # Len(records) => records'[i] = records[i]
          /\ records'[Len(records)].status = "pending"
      BY <1>5, ResetFacts
    <3> QED BY <1>0, <3>1 DEF DeviceInv
  <2> QED BY ONLY <1>D, <2>1, <2>2 DEF DeviceInv, Answer
<1>6. ASSUME NEW ok \in BOOLEAN, Install(ok)
      PROVE  DeviceInv'
  <2>1. /\ ran \subseteq ran' /\ UNCHANGED <<manifest, records>> /\ inbox' = Append(inbox, status')
        /\ status' = [version |-> running', result |-> IF ok THEN "ok" ELSE "failed",
                      nonce |-> manifest.nonce]
        /\ manifest.nonce # 0
        /\ ok => running' \in ran'
    BY <1>0, <1>6 DEF Install, serverVars, DeviceInv
  <2>2. Answer(status)' /\ status' \in Message
    <3>1. status' \in Message
      BY <1>6, TypeInductive DEF TypeOK, Next
    <3> QED BY <2>1, <3>1 DEF Answer
  <2>3. \A k \in 1..Len(inbox) : Answer(inbox[k])'
    <3>1. \A k \in 1..Len(inbox) : inbox'[k] = inbox[k]
      BY <2>1, <2>2, ReportFacts
    <3> QED BY <1>0, <2>1, <3>1 DEF DeviceInv, Answer
  <2>4. \A k \in 1..Len(inbox') : Answer(inbox[k])'
    BY <2>1, <2>2, <2>3, ReportFacts DEF Answer
  <2> QED BY <1>0, <2>1, <2>2, <2>4 DEF DeviceInv
<1>7. CASE Redeliver
  <2>1. status.nonce # 0 /\ inbox' = Append(inbox, status') /\ status' = status
        /\ UNCHANGED <<ran, manifest, records>>
    BY <1>7 DEF Redeliver, serverVars, deviceVars
  <2>2. status' \in Message
    BY <2>1 DEF FirmwareInv, TypeOK
  <2>3. \A k \in 1..Len(inbox') : inbox'[k] = status \/ (k \in 1..Len(inbox) /\ inbox'[k] = inbox[k])
    BY <2>1, <2>2, ReportFacts
  <2> QED BY <1>0, <2>1, <2>3 DEF DeviceInv, Answer
<1>8. CASE IngestStatus
  <2>1. UNCHANGED <<status, ran, manifest>>
    BY <1>8 DEF IngestStatus, deviceVars
  <2>2. \A k \in 1..Len(inbox') : k + 1 \in 1..Len(inbox) /\ inbox'[k] = inbox[k + 1]
    BY <1>8, IngestFacts
  <2>3. Answer(Head(inbox)) /\ Len(records') = Len(records)
        /\ \A i \in 1..Len(records) :
             records'[i] = records[i] \/ MarkedBy(Head(inbox), records[i], records'[i])
    BY <1>0, <1>8, IngestFacts DEF DeviceInv
  <2>4. ASSUME NEW i \in 1..Len(records), records'[i].status = "succeeded"
        PROVE  records'[i].version \in ran
    <3>1. CASE records'[i] = records[i]
      BY <1>0, <2>4, <3>1 DEF DeviceInv
    <3>2. CASE MarkedBy(Head(inbox), records[i], records'[i])
      <4>1. /\ records'[i].version = records[i].version
            /\ records'[i].status = Verdict(Head(inbox).result)
        BY <1>0, <2>3, <3>2 DEF MarkedBy, Record
      <4>2. Head(inbox).result = "ok"
        BY <2>4, <4>1 DEF Verdict
      <4> QED BY <2>3, <3>2, <4>1, <4>2 DEF MarkedBy, Answer
    <3> QED BY <2>3, <3>1, <3>2
  <2> QED BY <1>0, <2>1, <2>2, <2>3, <2>4 DEF DeviceInv, Answer
<1>9. CASE Crash
  <2>1. UNCHANGED <<status, ran, manifest, records>>
    BY <1>9 DEF Crash, deviceVars
  <2>2. \A k \in 1..Len(inbox') :
          (status.nonce # 0 /\ inbox'[k] = status) \/ (k \in 1..Len(inbox) /\ inbox'[k] = inbox[k])
    BY <1>9, CrashFacts
  <2> QED BY ONLY <1>D, <2>1, <2>2 DEF DeviceInv, Answer
<1>10. ASSUME Next
       PROVE  DeviceInv'
  BY <1>1, <1>2, <1>3, <1>4, <1>5, <1>6, <1>7, <1>8, <1>9, <1>10, Steps
  DEF CheckConfirm, CheckRetry, Poll, Pass, StoreFails, deviceVars
<1> QED BY <1>1, <1>10 DEF vars, serverVars, deviceVars

(* Each nonce is handed out, published, installed and recorded once. *)
LEMMA NonceInductive ==
  ASSUME FirmwareInv, [Next]_vars
  PROVE  NonceInv'
<1> DEFINE Unsent(q, n) ==
      /\ \A i \in 1..Len(records) : records[i].nonce # n
      /\ req[q].at = "publish" =>
           /\ n # manifest.nonce /\ n # status.nonce
           /\ \A k \in 1..Len(inbox) : inbox[k].nonce # n
    OldMessage(m) ==
      /\ m.nonce \in 1..nonces
      /\ m.nonce = manifest.nonce => status.nonce = manifest.nonce
      /\ m.nonce = status.nonce => m = status
<1>0. /\ records \in Seq(Record) /\ inbox \in Seq(Message)
      /\ Len(records) \in Nat /\ Len(inbox) \in Nat /\ nonces \in Nat
      /\ \A i \in 1..Len(records) : records[i] \in Record
      /\ manifest.nonce \in 0..nonces /\ status.nonce \in 0..nonces
      /\ \A i \in 1..Len(records) : records[i].nonce \in 1..nonces
      /\ \A k \in 1..Len(inbox) : OldMessage(inbox[k])
      /\ \A q \in Requests : req[q] # IdleReq => Unsent(q, req[q].nonce)
  BY FirmwareAssumption, LenProperties, ElementOfSeq DEF FirmwareInv, TypeOK, NonceInv
<1>00. /\ \A q \in Requests : req[q] # IdleReq => req[q].nonce \in 1..nonces /\ req[q].at # "idle"
       /\ \A p, q \in Requests :
            p # q /\ req[q] # IdleReq /\ req[p] # IdleReq => req[p].nonce # req[q].nonce
  BY DEF FirmwareInv, RequestInv
<1>T. /\ nonces \in Nat /\ Len(records) \in Nat /\ Len(inbox) \in Nat
      /\ manifest.nonce \in 0..nonces /\ status.nonce \in 0..nonces
  BY ONLY <1>0
<1>R. \A i \in 1..Len(records) : records[i].nonce \in 1..nonces
  BY ONLY <1>0
<1>M. \A k \in 1..Len(inbox) : OldMessage(inbox[k])
  BY ONLY <1>0
<1>U. \A q \in Requests : req[q] # IdleReq => Unsent(q, req[q].nonce)
  BY ONLY <1>0
<1>N. ASSUME manifest'.nonce \in 0..nonces', status'.nonce \in 0..nonces',
             \A i \in 1..Len(records') : records'[i].nonce \in 1..nonces',
             \A k \in 1..Len(inbox') : OldMessage(inbox[k])',
             \A q \in Requests : req'[q] # IdleReq => Unsent(q, req[q].nonce)'
      PROVE  NonceInv'
  BY ONLY <1>N DEF NonceInv
<1>1. CASE UNCHANGED <<nonces, manifest, status, records, inbox>>
           /\ \A q \in Requests : req'[q] = IdleReq \/ req'[q] = req[q]
  <2>1. \A q \in Requests : req'[q] # IdleReq => Unsent(q, req[q].nonce)'
    BY ONLY <1>U, <1>1
  <2>2. \A k \in 1..Len(inbox') : OldMessage(inbox[k])'
    BY ONLY <1>M, <1>1
  <2> QED BY ONLY <1>N, <1>T, <1>R, <1>1, <2>1, <2>2
<1>2. ASSUME NEW n \in DOMAIN records, TimePasses(n)
      PROVE  NonceInv'
  <2>1. UNCHANGED <<nonces, manifest, status, inbox, req>>
    BY <1>2 DEF TimePasses, deviceVars
  <2>2. Len(records') = Len(records) /\ \A i \in 1..Len(records) : records'[i].nonce = records[i].nonce
    BY <1>2, TimeFacts
  <2>3. \A k \in 1..Len(inbox') : OldMessage(inbox[k])'
    BY ONLY <1>M, <2>1
  <2>4. \A q \in Requests : req'[q] # IdleReq => Unsent(q, req[q].nonce)'
    BY ONLY <1>U, <2>1, <2>2
  <2>5. \A i \in 1..Len(records') : records'[i].nonce \in 1..nonces'
    BY ONLY <1>R, <2>1, <2>2
  <2> HIDE DEF Unsent, OldMessage
  <2> QED BY ONLY <1>N, <1>T, <2>1, <2>3, <2>4, <2>5
<1>3. ASSUME NEW q \in Requests, NEW kind \in {"confirm", "retry"}, Pass(q, kind)
      PROVE  NonceInv'
  <2>1. /\ nonces' = nonces + 1 /\ req'[q].nonce = nonces + 1
        /\ \A p \in Requests : p # q => req'[p] = req[p]
        /\ UNCHANGED <<records, manifest, status, inbox>>
    BY <1>3, PassFacts DEF deviceVars
  <2>2. Unsent(q, req[q].nonce)'
    BY ONLY <1>T, <1>R, <1>M, <2>1
  <2>3. \A k \in 1..Len(inbox) : OldMessage(inbox[k])'
    BY ONLY <1>T, <1>M, <2>1
  <2>4. \A p \in Requests : req'[p] # IdleReq => Unsent(p, req[p].nonce)'
    <3>1. \A p \in Requests : p # q /\ req'[p] # IdleReq => Unsent(p, req[p].nonce)'
      BY ONLY <1>U, <2>1
    <3> QED BY ONLY <2>2, <3>1
  <2>5. \A i \in 1..Len(records') : records'[i].nonce \in 1..nonces'
    BY ONLY <1>T, <1>R, <2>1
  <2> HIDE DEF Unsent, OldMessage
  <2> QED BY ONLY <1>N, <1>T, <2>1, <2>3, <2>4, <2>5
<1>4. ASSUME NEW q \in Requests, PublishManifest(q)
      PROVE  NonceInv'
  <2>1. /\ req[q].at = "publish" /\ req[q] # IdleReq
        /\ \A p \in Requests : p # q => req'[p] = req[p]
        /\ \/ req'[q].at = "store" /\ req'[q].nonce = req[q].nonce
           \/ req'[q] = IdleReq
        /\ manifest'.nonce = manifest.nonce \/ manifest'.nonce = req[q].nonce
        /\ UNCHANGED <<records, nonces, status, inbox>>
    BY <1>4, PublishFacts DEF deviceVars
  <2>2. Unsent(q, req[q].nonce) /\ req[q].nonce \in 1..nonces
    BY ONLY <1>U, <1>00, <2>1, q \in Requests
  <2>3. \A k \in 1..Len(inbox) : OldMessage(inbox[k])'
    BY ONLY <1>M, <2>1, <2>2
  <2>4. \A p \in Requests : p # q /\ req'[p] # IdleReq => Unsent(p, req[p].nonce)'
    BY ONLY <1>U, <1>00, <2>1, q \in Requests
  <2>5. req'[q] # IdleReq => Unsent(q, req[q].nonce)'
    BY ONLY <2>1, <2>2
  <2>6. \A p \in Requests : req'[p] # IdleReq => Unsent(p, req[p].nonce)'
    BY ONLY <2>4, <2>5
  <2>7. manifest'.nonce \in 0..nonces'
    BY ONLY <1>T, <2>1, <2>2
  <2> HIDE DEF Unsent, OldMessage
  <2> QED BY ONLY <1>N, <1>T, <1>R, <2>1, <2>3, <2>6, <2>7
<1>5. ASSUME NEW q \in Requests, End(q), req[q] # IdleReq,
             UNCHANGED <<nonces, manifest, status, inbox>>, Len(records') \in Nat,
             \A i \in 1..Len(records') :
               records'[i].nonce = req[q].nonce
               \/ (i \in 1..Len(records) /\ records'[i].nonce = records[i].nonce)
      PROVE  NonceInv'
  <2>1. req'[q] = IdleReq /\ \A p \in Requests : p # q => req'[p] = req[p]
    BY <1>5, EndFacts
  <2>2. \A i \in 1..Len(records') : records'[i].nonce \in 1..nonces
    BY ONLY <1>R, <1>00, <1>5, q \in Requests
  <2>3. \A p \in Requests : req'[p] # IdleReq => Unsent(p, req[p].nonce)'
    <3> SUFFICES ASSUME NEW p \in Requests, req'[p] # IdleReq
                 PROVE  Unsent(p, req[p].nonce)'
      OBVIOUS
    <3>1. p # q /\ req'[p] = req[p] /\ Unsent(p, req[p].nonce) /\ req[q].nonce # req[p].nonce
      BY ONLY <1>U, <1>00, <1>5, <2>1, q \in Requests, p \in Requests, req'[p] # IdleReq
    <3>2. \A i \in 1..Len(records') : records'[i].nonce # req[p].nonce
      BY ONLY <1>5, <3>1
    <3> QED BY ONLY <1>5, <3>1, <3>2
  <2>4. \A k \in 1..Len(inbox') : OldMessage(inbox[k])'
    BY ONLY <1>M, <1>5
  <2> HIDE DEF Unsent, OldMessage
  <2> QED BY ONLY <1>N, <1>T, <1>5, <2>2, <2>3, <2>4
<1>6. ASSUME NEW q \in Requests, InsertPending(q)
      PROVE  NonceInv'
  <2>1. /\ Len(records') = Len(records) + 1 /\ Len(records) \in Nat
        /\ \A i \in 1..Len(records) : records'[i] = records[i]
        /\ records'[Len(records')].nonce = req[q].nonce
    BY <1>6, InsertFacts
  <2>2. /\ End(q) /\ req[q] # IdleReq /\ UNCHANGED <<nonces, manifest, status, inbox>>
    BY <1>6 DEF InsertPending, deviceVars, IdleReq
  <2> QED BY <1>5, <2>1, <2>2
<1>7. ASSUME NEW q \in Requests, ResetPending(q)
      PROVE  NonceInv'
  <2>1. /\ Len(records') = Len(records) /\ Len(records) \in Nat
        /\ \A i \in 1..Len(records) : i # Len(records) => records'[i] = records[i]
        /\ records'[Len(records)].nonce = req[q].nonce
    BY <1>7, ResetFacts
  <2>2. /\ End(q) /\ req[q] # IdleReq /\ UNCHANGED <<nonces, manifest, status, inbox>>
    BY <1>7 DEF ResetPending, deviceVars, IdleReq
  <2> QED BY <1>5, <2>1, <2>2
<1>8. ASSUME NEW ok \in BOOLEAN, Install(ok)
      PROVE  NonceInv'
  <2>1. /\ status'.nonce = manifest.nonce /\ manifest.nonce # status.nonce /\ manifest.nonce # 0
        /\ inbox' = Append(inbox, status') /\ UNCHANGED <<records, nonces, req, manifest>>
    BY <1>8 DEF Install, serverVars, FirmwareInv, DeviceInv
  <2>2. status' \in Message
    BY <1>8, TypeInductive DEF TypeOK, Next
  <2>3. \A k \in 1..Len(inbox') : inbox'[k] = status' \/ (k \in 1..Len(inbox) /\ inbox'[k] = inbox[k])
    BY <2>1, <2>2, ReportFacts
  <2>4. \A k \in 1..Len(inbox') : OldMessage(inbox[k])'
    BY ONLY <1>T, <1>M, <2>1, <2>2, <2>3
  <2>5. \A q \in Requests : req[q] # IdleReq => Unsent(q, req[q].nonce)'
    BY ONLY <1>U, <2>1, <2>3
  <2> HIDE DEF Unsent, OldMessage
  <2> QED BY ONLY <1>N, <1>T, <1>R, <2>1, <2>4, <2>5
<1>9. CASE Redeliver
  <2>1. /\ status.nonce # 0 /\ inbox' = Append(inbox, status')
        /\ UNCHANGED <<records, nonces, req, manifest, status>>
    BY <1>9 DEF Redeliver, serverVars, deviceVars
  <2>2. status' \in Message
    BY <2>1 DEF FirmwareInv, TypeOK
  <2>3. \A k \in 1..Len(inbox') : inbox'[k] = status \/ (k \in 1..Len(inbox) /\ inbox'[k] = inbox[k])
    BY <2>1, <2>2, ReportFacts
  <2>4. \A k \in 1..Len(inbox') : OldMessage(inbox[k])'
    BY ONLY <1>T, <1>M, <2>1, <2>2, <2>3
  <2>5. \A q \in Requests : req[q] # IdleReq => Unsent(q, req[q].nonce)'
    BY ONLY <1>U, <2>1, <2>3
  <2> HIDE DEF Unsent, OldMessage
  <2> QED BY ONLY <1>N, <1>T, <1>R, <2>1, <2>4, <2>5
<1>10. CASE IngestStatus
  <2>1. UNCHANGED <<nonces, manifest, status, req>>
    BY <1>10 DEF IngestStatus, deviceVars
  <2>2. \A k \in 1..Len(inbox') : k + 1 \in 1..Len(inbox) /\ inbox'[k] = inbox[k + 1]
    BY <1>10, IngestFacts
  <2>3. Len(records') = Len(records) /\ \A i \in 1..Len(records) : records'[i].nonce = records[i].nonce
    BY <1>10, SettledFacts
  <2>4. \A k \in 1..Len(inbox') : OldMessage(inbox[k])'
    BY ONLY <1>M, <2>1, <2>2
  <2>5. \A q \in Requests : req[q] # IdleReq => Unsent(q, req[q].nonce)'
    <3>1. \A q \in Requests : req[q] # IdleReq =>
            \A i \in 1..Len(records') : records'[i].nonce # req[q].nonce
      BY ONLY <1>U, <2>3
    <3>2. \A q \in Requests : req[q] # IdleReq /\ req[q].at = "publish" =>
            \A k \in 1..Len(inbox') : inbox'[k].nonce # req[q].nonce
      BY ONLY <1>U, <2>2
    <3>3. \A q \in Requests : req[q] # IdleReq /\ req[q].at = "publish" =>
            req[q].nonce # manifest.nonce /\ req[q].nonce # status.nonce
      BY ONLY <1>U
    <3> QED BY ONLY <2>1, <3>1, <3>2, <3>3
  <2>6. \A i \in 1..Len(records') : records'[i].nonce \in 1..nonces'
    BY ONLY <1>R, <2>1, <2>3
  <2> HIDE DEF Unsent, OldMessage
  <2> QED BY ONLY <1>N, <1>T, <2>1, <2>4, <2>5, <2>6
<1>11. CASE Crash
  <2>1. UNCHANGED <<nonces, manifest, status, records>> /\ \A q \in Requests : req'[q] = IdleReq
    BY <1>11 DEF Crash, deviceVars
  <2>2. \A k \in 1..Len(inbox') :
          (status.nonce # 0 /\ inbox'[k] = status) \/ (k \in 1..Len(inbox) /\ inbox'[k] = inbox[k])
    BY <1>11, CrashFacts
  <2>3. \A k \in 1..Len(inbox') : OldMessage(inbox[k])'
    BY ONLY <1>T, <1>M, <2>1, <2>2
  <2> QED BY ONLY <1>N, <1>T, <1>R, <2>1, <2>3
<1>12. ASSUME NEW q \in Requests, StoreFails(q)
       PROVE  NonceInv'
  BY <1>1, <1>12, EndFacts DEF StoreFails, deviceVars
<1> HIDE DEF Unsent, OldMessage
<1>13. ASSUME Next
       PROVE  NonceInv'
  BY <1>1, <1>2, <1>3, <1>4, <1>6, <1>7, <1>8, <1>9, <1>10, <1>11, <1>12, <1>13, Steps
  DEF CheckConfirm, CheckRetry, Poll, deviceVars
<1> QED BY <1>1, <1>13 DEF vars, serverVars, deviceVars

-----------------------------------------------------------------------------
(* Requests that do not overlap *)

(* What upsets a record is never forgotten. *)
LEMMA UpsetsGrow ==
  ASSUME FirmwareInv, [Next]_vars
  PROVE  upsets \subseteq upsets' /\ (errors' # errors => "error" \in upsets')
<1>1. CASE UNCHANGED vars
  BY <1>1 DEF vars
<1>2. CASE Next
  BY <1>2, Steps DEF Poll, TimePasses, CheckConfirm, CheckRetry, Pass, PublishManifest, StoreFails,
     InsertPending, ResetPending, Install, Redeliver, IngestStatus, Crash, Upset, Error
<1> QED BY <1>1, <1>2

(* One request at a time leaves at most the newest record of a version     *)
(* pending.                                                                *)
LEMMA AloneInductive ==
  ASSUME FirmwareInv, AloneInv, [Next]_vars
  PROVE  AloneInv'
<1> SUFFICES ASSUME "overlap" \notin upsets'
             PROVE  AloneInv'
  BY DEF AloneInv, Calm
<1>0. /\ records \in Seq(Record) /\ Len(records) \in Nat
      /\ \A i \in 1..Len(records) : records[i] \in Record
  BY LenProperties, ElementOfSeq DEF FirmwareInv, TypeOK
<1>00. /\ \A p, q \in Requests : p # q /\ req[q] # IdleReq => req[p] = IdleReq
       /\ \A i, j \in 1..Len(records) :
            i < j /\ records[i].version = records[j].version => records[i].status # "pending"
       /\ \A q \in Requests : req[q].kind = "confirm" =>
            \A i \in 1..Len(records) :
              records[i].version = req[q].version => records[i].status # "pending"
  BY UpsetsGrow DEF AloneInv, Calm
<1>01. IdleReq.kind = "none"
  BY DEF IdleReq
<1>1. ASSUME \A q \in Requests : req'[q] = IdleReq
                \/ (req[q] # IdleReq /\ req'[q].kind = req[q].kind /\ req'[q].version = req[q].version),
             Len(records') = Len(records),
             \A i \in 1..Len(records) :
               /\ records'[i].version = records[i].version
               /\ records'[i].status = "pending" => records[i].status = "pending"
      PROVE  AloneInv'
  <2>1. \A p, q \in Requests : p # q /\ req'[q] # IdleReq => req'[p] = IdleReq
    BY <1>00, <1>1
  <2>2. \A i, j \in 1..Len(records') :
          i < j /\ records'[i].version = records'[j].version => records'[i].status # "pending"
    BY <1>00, <1>1
  <2>3. \A q \in Requests : req'[q].kind = "confirm" =>
          \A i \in 1..Len(records') :
            records'[i].version = req'[q].version => records'[i].status # "pending"
    BY <1>00, <1>01, <1>1
  <2> QED BY <2>1, <2>2, <2>3 DEF AloneInv
<1>2. ASSUME UNCHANGED <<req, records>>
      PROVE  AloneInv'
  BY <1>00, <1>2 DEF AloneInv
<1>3. ASSUME NEW n \in DOMAIN records, TimePasses(n)
      PROVE  AloneInv'
  <2>1. UNCHANGED req
    BY <1>3 DEF TimePasses
  <2>2. /\ Len(records') = Len(records)
        /\ \A i \in 1..Len(records) :
             records'[i].version = records[i].version /\ records'[i].status = records[i].status
    BY <1>3, TimeFacts
  <2>3. \A i, j \in 1..Len(records') :
          i < j /\ records'[i].version = records'[j].version => records'[i].status # "pending"
    BY <1>00, <2>2
  <2> QED BY <1>00, <2>1, <2>2, <2>3 DEF AloneInv
<1>4. ASSUME NEW q \in Requests, NEW kind \in {"confirm", "retry"}, Pass(q, kind),
             kind = "confirm" => ~HasPending(latest)
      PROVE  AloneInv'
  <2>1. /\ req'[q] = [at |-> "publish", kind |-> kind, version |-> latest, nonce |-> nonces']
        /\ \A p \in Requests : p # q => req'[p] = req[p]
        /\ upsets' = upsets \cup (IF Busy(q) THEN {"overlap"} ELSE {})
        /\ UNCHANGED records
    BY <1>4, PassFacts
  <2>2. \A p \in Requests : p # q => req[p] = IdleReq
    BY <2>1 DEF Busy
  <2>3. kind = "confirm" =>
          \A i \in 1..Len(records) : records[i].version = latest => records[i].status # "pending"
    BY <1>0, <1>4, LenProperties DEF HasPending
  <2>4. req'[q].kind = kind /\ req'[q].version = latest
    BY <2>1
  <2>5. \A p \in Requests : p # q => req'[p] = IdleReq
    BY <2>1, <2>2
  <2>6. \A p \in Requests : req'[p].kind = "confirm" =>
          \A i \in 1..Len(records) : records[i].version = req'[p].version => records[i].status # "pending"
    BY <1>01, <2>3, <2>4, <2>5
  <2> QED BY <1>00, <2>1, <2>5, <2>6 DEF AloneInv
<1>5. ASSUME NEW q \in Requests, PublishManifest(q)
      PROVE  AloneInv'
  <2>1. /\ req[q] # IdleReq /\ UNCHANGED records
        /\ \A p \in Requests : p # q => req'[p] = req[p]
        /\ \/ req'[q].kind = req[q].kind /\ req'[q].version = req[q].version
           \/ req'[q] = IdleReq
    BY <1>5, PublishFacts
  <2> QED BY <1>1, <2>1
<1>6. ASSUME NEW q \in Requests, StoreFails(q)
      PROVE  AloneInv'
  <2>1. req'[q] = IdleReq /\ UNCHANGED records /\ \A p \in Requests : p # q => req'[p] = req[p]
    BY <1>6, EndFacts DEF StoreFails
  <2> QED BY <1>1, <2>1
<1>7. ASSUME NEW q \in Requests, InsertPending(q)
      PROVE  AloneInv'
  <2>1. /\ req[q].kind = "confirm" /\ req[q] # IdleReq /\ End(q)
    BY <1>7, <1>01 DEF InsertPending
  <2>2. \A p \in Requests : req'[p] = IdleReq
    BY <1>00, <2>1, EndFacts
  <2>3. /\ Len(records') = Len(records) + 1
        /\ \A i \in 1..Len(records) : records'[i] = records[i]
        /\ records'[Len(records')].version = req[q].version
    BY <1>7, InsertFacts
  <2>4. \A i \in 1..Len(records) : records[i].version = req[q].version => records[i].status # "pending"
    BY <1>00, <2>1
  <2>5. \A i, j \in 1..Len(records') :
          i < j /\ records'[i].version = records'[j].version => records'[i].status # "pending"
    BY <1>0, <1>00, <2>3, <2>4
  <2> QED BY <1>01, <2>2, <2>5 DEF AloneInv
<1>8. ASSUME NEW q \in Requests, ResetPending(q)
      PROVE  AloneInv'
  <2>1. /\ req[q] # IdleReq /\ End(q)
    BY <1>8, <1>01 DEF ResetPending
  <2>2. \A p \in Requests : req'[p] = IdleReq
    BY <1>00, <2>1, EndFacts
  <2>3. /\ Len(records') = Len(records) /\ Len(records) \in Nat \ {0}
        /\ \A i \in 1..Len(records) : i # Len(records) => records'[i] = records[i]
        /\ records'[Len(records)].version = records[Len(records)].version
    BY <1>8, ResetFacts DEF Last
  <2>5. \A i, j \in 1..Len(records') :
          i < j /\ records'[i].version = records'[j].version => records'[i].status # "pending"
    BY <1>0, <1>00, <2>3
  <2> QED BY <1>01, <2>2, <2>5 DEF AloneInv
<1>9. CASE IngestStatus
  <2>2. Len(records') = Len(records) /\ \A i \in 1..Len(records) :
          /\ records'[i].version = records[i].version
          /\ records'[i].status = "pending" => records[i].status = "pending"
    BY <1>9, SettledFacts
  <2>3. UNCHANGED req
    BY <1>9 DEF IngestStatus
  <2>4. \A i, j \in 1..Len(records') :
          i < j /\ records'[i].version = records'[j].version => records'[i].status # "pending"
    BY <1>00, <2>2
  <2> QED BY <1>00, <2>2, <2>3, <2>4 DEF AloneInv
<1>10. CASE Crash
  BY <1>1, <1>10 DEF Crash
<1>11. ASSUME Next
       PROVE  AloneInv'
  BY <1>2, <1>3, <1>4, <1>5, <1>6, <1>7, <1>8, <1>9, <1>10, <1>11, Steps
  DEF CheckConfirm, CheckRetry, Poll, Install, Redeliver, serverVars
<1> QED BY <1>2, <1>11 DEF vars, serverVars

(* The latest record stays the latest, with its version and nonce. *)
LEMMA LastFacts ==
  ASSUME FirmwareInv, IngestStatus \/ \E n \in DOMAIN records : TimePasses(n)
  PROVE  /\ records' # <<>> <=> records # <<>>
         /\ records # <<>> => Last'.version = Last.version /\ Last'.nonce = Last.nonce
<1>0. records \in Seq(Record) /\ \A i \in 1..Len(records) : records[i] \in Record
  BY ElementOfSeq DEF FirmwareInv, TypeOK
<1>1. /\ records' \in Seq(Record) /\ Len(records') = Len(records) /\ Len(records) \in Nat
      /\ \A i \in 1..Len(records) :
           records'[i].version = records[i].version /\ records'[i].nonce = records[i].nonce
  <2>1. CASE IngestStatus
    BY <2>1, SettledFacts
  <2>2. CASE \E n \in DOMAIN records : TimePasses(n)
    BY <2>2, TimeFacts
  <2> QED BY <2>1, <2>2
<1>2. (records' # <<>> <=> Len(records') # 0) /\ (records # <<>> <=> Len(records) # 0)
  BY <1>0, <1>1, EmptySeq
<1> QED BY <1>1, <1>2 DEF Last

(* The manifest follows its request, then the latest record. *)
LEMMA ManifestInductive ==
  ASSUME FirmwareInv, AloneInv, ManifestInv, [Next]_vars
  PROVE  ManifestInv'
<1> SUFFICES ASSUME "overlap" \notin upsets', "error" \notin upsets'
             PROVE  ManifestInv'
  BY DEF ManifestInv, Calm
<1>0. /\ \A q \in Requests : req[q].at = "store" =>
           manifest.nonce = req[q].nonce /\ manifest.version = req[q].version
      /\ (\A q \in Requests : req[q].at # "store") /\ records # <<>> =>
           /\ manifest.nonce = Last.nonce
           /\ "moved" \notin upsets => manifest.version = Last.version
      /\ \A p, q \in Requests : p # q /\ req[q] # IdleReq => req[p] = IdleReq
      /\ "moved" \in upsets => "moved" \in upsets'
      /\ errors' = errors
  BY UpsetsGrow DEF AloneInv, ManifestInv, Calm
<1>01. IdleReq.at = "idle" /\ IdleReq # [IdleReq EXCEPT !.at = "store"]
  BY DEF IdleReq
<1>1. ASSUME UNCHANGED manifest,
             \A q \in Requests : req'[q].at = "store" <=> req[q].at = "store",
             \A q \in Requests : req[q].at = "store" => req'[q] = req[q],
             records' # <<>> <=> records # <<>>,
             records # <<>> => Last'.version = Last.version /\ Last'.nonce = Last.nonce
      PROVE  ManifestInv'
  BY <1>0, <1>1 DEF ManifestInv, Calm
<1>2. ASSUME NEW q \in Requests, NEW kind \in {"confirm", "retry"}, Pass(q, kind)
      PROVE  ManifestInv'
  <2>1. /\ req[q] = IdleReq /\ req'[q].at = "publish" /\ UNCHANGED <<manifest, records>>
        /\ \A p \in Requests : p # q => req'[p] = req[p]
    BY <1>2, PassFacts
  <2> QED BY <1>01, <1>1, <2>1 DEF Last
<1>3. ASSUME NEW q \in Requests, PublishManifest(q)
      PROVE  ManifestInv'
  <2>1. /\ req[q] # IdleReq
        /\ \A p \in Requests : p # q => req'[p] = req[p]
        /\ req'[q].at = "store"
        /\ req'[q].version = req[q].version /\ req'[q].nonce = req[q].nonce
        /\ manifest'.version = req[q].version /\ manifest'.nonce = req[q].nonce
    <3>1. ~Error
      BY <1>0, FirmwareAssumption DEF Error, FirmwareInv, TypeOK
    <3> QED BY <1>3, <3>1, PublishFacts
  <2>2. \A p \in Requests : p # q => req'[p] = IdleReq
    BY <1>0, <2>1
  <2>3. \A p \in Requests : req'[p].at = "store" =>
          manifest'.nonce = req'[p].nonce /\ manifest'.version = req'[p].version
    BY <1>01, <2>1, <2>2
  <2> QED BY <2>1, <2>3 DEF ManifestInv
<1>4. ASSUME NEW q \in Requests, req[q].at = "store", End(q), UNCHANGED manifest,
             Last'.nonce = req[q].nonce,
             "moved" \notin upsets' => Last'.version = req[q].version
      PROVE  ManifestInv'
  <2>1. \A p \in Requests : req'[p] = IdleReq
    BY <1>0, <1>01, <1>4, EndFacts
  <2> QED BY <1>0, <1>01, <1>4, <2>1 DEF ManifestInv, Calm
<1>5. ASSUME NEW q \in Requests, InsertPending(q)
      PROVE  ManifestInv'
  <2>1. Last'.nonce = req[q].nonce /\ Last'.version = req[q].version
    BY <1>5, InsertFacts DEF Last
  <2> QED BY <1>4, <1>5, <2>1 DEF InsertPending
<1>6. ASSUME NEW q \in Requests, ResetPending(q)
      PROVE  ManifestInv'
  <2>1. Last'.nonce = req[q].nonce /\ Last'.version = Last.version
    BY <1>6, ResetFacts DEF Last
  <2>2. "moved" \notin upsets' => Last.version = req[q].version
    BY <1>6 DEF ResetPending, Upset
  <2>3. req[q].at = "store" /\ End(q) /\ UNCHANGED manifest
    BY <1>6 DEF ResetPending
  <2> QED BY <1>4, <2>1, <2>2, <2>3
<1>7. CASE IngestStatus \/ \E n \in DOMAIN records : TimePasses(n)
  BY <1>1, <1>7, LastFacts DEF IngestStatus, TimePasses
<1>8. CASE UNCHANGED <<manifest, req, records>>
  BY <1>1, <1>8 DEF Last
<1>9. ~Error
  BY <1>0, FirmwareAssumption DEF Error, FirmwareInv, TypeOK
<1>10. ASSUME Next
       PROVE  ManifestInv'
  BY <1>2, <1>3, <1>5, <1>6, <1>7, <1>8, <1>9, <1>10, Steps
  DEF CheckConfirm, CheckRetry, Poll, StoreFails, Install, Redeliver, Crash, serverVars
<1> QED BY <1>8, <1>10 DEF vars, serverVars

-----------------------------------------------------------------------------
(* The answer of the device *)

(* A nonce stands for one version, in the request, the manifest, the       *)
(* status and the record.                                                  *)
LEMMA VersionInductive ==
  ASSUME FirmwareInv, VersionInv, [Next]_vars
  PROVE  VersionInv'
<1>0. /\ \A q \in Requests : req[q].at = "store" =>
           /\ manifest.nonce = req[q].nonce => manifest.version = req[q].version
           /\ status.nonce = req[q].nonce /\ status.result = "ok" => status.version = req[q].version
      /\ "moved" \notin upsets /\ records # <<>> =>
           /\ Last.nonce = manifest.nonce => Last.version = manifest.version
           /\ Last.nonce = status.nonce /\ status.result = "ok" => Last.version = status.version
      /\ "moved" \in upsets => "moved" \in upsets'
  BY UpsetsGrow DEF VersionInv, Calm
<1>01. IdleReq.at = "idle"
  BY DEF IdleReq
<1>02. records # <<>> => Len(records) \in 1..Len(records)
  BY EmptySeq DEF FirmwareInv, TypeOK
<1>1. ASSUME UNCHANGED <<manifest, status>>,
             \A q \in Requests : req'[q].at = "store" => req'[q] = req[q],
             records' # <<>> <=> records # <<>>,
             records # <<>> => Last'.version = Last.version /\ Last'.nonce = Last.nonce
      PROVE  VersionInv'
  BY <1>0, <1>1 DEF VersionInv, Calm
<1>2. ASSUME NEW q \in Requests, NEW kind \in {"confirm", "retry"}, Pass(q, kind)
      PROVE  VersionInv'
  <2>1. /\ req'[q].at = "publish" /\ UNCHANGED <<manifest, records, status>>
        /\ \A p \in Requests : p # q => req'[p] = req[p]
    BY <1>2, PassFacts DEF deviceVars
  <2> QED BY <1>1, <2>1 DEF Last
<1>3. ASSUME NEW q \in Requests, PublishManifest(q)
      PROVE  VersionInv'
  <2>1. /\ req[q].at = "publish" /\ req[q] # IdleReq
        /\ \A p \in Requests : p # q => req'[p] = req[p]
        /\ req'[q] = IdleReq \/ (req'[q].version = req[q].version /\ req'[q].nonce = req[q].nonce)
        /\ manifest' = manifest
           \/ (manifest'.version = req[q].version /\ manifest'.nonce = req[q].nonce)
        /\ manifest'.nonce = req[q].nonce \/ req'[q] = IdleReq
        /\ UNCHANGED <<status, records>>
    BY <1>3, PublishFacts DEF deviceVars
  <2>2. req[q].nonce # manifest.nonce /\ req[q].nonce # status.nonce
    BY <2>1 DEF FirmwareInv, NonceInv
  <2>3. records # <<>> => Last.nonce # req[q].nonce
    BY <1>02, <2>1 DEF FirmwareInv, NonceInv, Last
  <2>4. \A p \in Requests : p # q /\ req[p] # IdleReq => req[p].nonce # req[q].nonce
    BY <2>1 DEF FirmwareInv, RequestInv
  <2>5. \A p \in Requests : req'[p].at = "store" =>
          /\ manifest'.nonce = req'[p].nonce => manifest'.version = req'[p].version
          /\ status.nonce = req'[p].nonce /\ status.result = "ok" => status.version = req'[p].version
    <3> SUFFICES ASSUME NEW p \in Requests, req'[p].at = "store"
                 PROVE  /\ manifest'.nonce = req'[p].nonce => manifest'.version = req'[p].version
                        /\ status.nonce = req'[p].nonce /\ status.result = "ok" =>
                             status.version = req'[p].version
      OBVIOUS
    <3>1. CASE p = q
      BY <1>01, <2>1, <2>2, <3>1
    <3>2. CASE p # q
      BY <1>0, <1>01, <2>1, <2>4, <3>2
    <3> QED BY <3>1, <3>2
  <2>6. Last' = Last
    BY <2>1 DEF Last
  <2> QED BY <1>0, <2>1, <2>3, <2>5, <2>6 DEF VersionInv, Calm
<1>4. ASSUME NEW q \in Requests, req[q].at = "store", End(q), UNCHANGED <<manifest, status>>,
             Last'.nonce = req[q].nonce,
             "moved" \notin upsets' => Last'.version = req[q].version
      PROVE  VersionInv'
  <2>1. req'[q] = IdleReq /\ \A p \in Requests : p # q => req'[p] = req[p]
    BY <1>4, EndFacts
  <2> QED BY <1>0, <1>01, <1>4, <2>1 DEF VersionInv, Calm
<1>5. ASSUME NEW q \in Requests, InsertPending(q)
      PROVE  VersionInv'
  <2>1. Last'.nonce = req[q].nonce /\ Last'.version = req[q].version
    BY <1>5, InsertFacts DEF Last
  <2> QED BY <1>4, <1>5, <2>1 DEF InsertPending, deviceVars
<1>6. ASSUME NEW q \in Requests, ResetPending(q)
      PROVE  VersionInv'
  <2>1. Last'.nonce = req[q].nonce /\ Last'.version = Last.version
    BY <1>6, ResetFacts DEF Last
  <2>2. "moved" \notin upsets' => Last.version = req[q].version
    BY <1>6 DEF ResetPending, Upset
  <2>3. req[q].at = "store" /\ End(q) /\ UNCHANGED <<manifest, status>>
    BY <1>6 DEF ResetPending, deviceVars
  <2> QED BY <1>4, <2>1, <2>2, <2>3
<1>7. ASSUME NEW ok \in BOOLEAN, Install(ok)
      PROVE  VersionInv'
  <2>1. /\ status' = [version |-> running', result |-> IF ok THEN "ok" ELSE "failed",
                      nonce |-> manifest.nonce]
        /\ ok => running' = manifest.version
        /\ UNCHANGED <<req, records, manifest, upsets>>
    BY <1>7 DEF Install, serverVars
  <2>2. status'.nonce = manifest.nonce /\ (status'.result = "ok" => status'.version = manifest.version)
    BY <2>1
  <2>3. Last' = Last
    BY <2>1 DEF Last
  <2> QED BY <1>0, <2>1, <2>2, <2>3 DEF VersionInv, Calm
<1>8. CASE IngestStatus \/ \E n \in DOMAIN records : TimePasses(n)
  BY <1>1, <1>8, LastFacts DEF IngestStatus, TimePasses, deviceVars
<1>9. CASE UNCHANGED <<manifest, status, records>>
           /\ \A q \in Requests : req'[q] = IdleReq \/ req'[q] = req[q]
  BY <1>01, <1>1, <1>9 DEF Last
<1>10. ASSUME NEW q \in Requests, StoreFails(q)
       PROVE  VersionInv'
  BY <1>9, <1>10, EndFacts DEF StoreFails, deviceVars
<1>11. ASSUME Next
       PROVE  VersionInv'
  BY <1>2, <1>3, <1>5, <1>6, <1>7, <1>8, <1>9, <1>10, <1>11, Steps
  DEF CheckConfirm, CheckRetry, Poll, Redeliver, Crash, serverVars, deviceVars
<1> QED BY <1>9, <1>11 DEF vars, serverVars, deviceVars

LEMMA ResultInductive ==
  ASSUME FirmwareInv, VersionInv, ResultInv, [Next]_vars
  PROVE  ResultInv'
<1> SUFFICES ASSUME upsets' \cap {"error", "foreign", "moved"} = {}
             PROVE  ResultInv'
  BY DEF ResultInv, Calm
<1>0. /\ \A q \in Requests : req[q].at = "store" /\ req[q].nonce = status.nonce => UnderWay
      /\ records # <<>> /\ Last.nonce = status.nonce =>
           \/ Last.status = Verdict(status.result)
           \/ Last.status = "pending" /\ UnderWay
      /\ records # <<>> /\ Last.nonce = manifest.nonce /\ manifest.nonce # status.nonce =>
           Last.status = "pending"
      /\ Calm({"moved"}) /\ errors' = errors
  BY UpsetsGrow DEF ResultInv, Calm
<1>01. IdleReq.at = "idle"
  BY DEF IdleReq
<1>02. records # <<>> => Len(records) \in 1..Len(records) /\ Last \in Record
  BY EmptySeq, ElementOfSeq DEF FirmwareInv, TypeOK, Last
<1>03. ~Error
  BY <1>0, FirmwareAssumption DEF Error, FirmwareInv, TypeOK
<1>1. ASSUME UNCHANGED <<manifest, status>>, UnderWay => UnderWay',
             \A q \in Requests : req'[q].at = "store" => req'[q] = req[q],
             records' # <<>> <=> records # <<>>,
             records # <<>> => Last'.status = Last.status /\ Last'.nonce = Last.nonce
      PROVE  ResultInv'
  BY <1>0, <1>1 DEF ResultInv
<1>2. ASSUME NEW q \in Requests, NEW kind \in {"confirm", "retry"}, Pass(q, kind)
      PROVE  ResultInv'
  <2>1. /\ req'[q].at = "publish" /\ UNCHANGED <<manifest, records, status, inbox>>
        /\ \A p \in Requests : p # q => req'[p] = req[p]
    BY <1>2, PassFacts DEF deviceVars
  <2> QED BY <1>1, <2>1 DEF Last, UnderWay
<1>3. ASSUME NEW q \in Requests, PublishManifest(q)
      PROVE  ResultInv'
  <2>1. /\ req[q].at = "publish" /\ req[q] # IdleReq
        /\ \A p \in Requests : p # q => req'[p] = req[p]
        /\ req'[q].nonce = req[q].nonce
        /\ manifest'.nonce = req[q].nonce
        /\ UNCHANGED <<status, records, inbox>>
    BY <1>3, <1>03, PublishFacts DEF deviceVars
  <2>2. req[q].nonce # status.nonce
    BY <2>1 DEF FirmwareInv, NonceInv
  <2>3. records # <<>> => Last.nonce # req[q].nonce
    BY <1>02, <2>1 DEF FirmwareInv, NonceInv, Last
  <2>4. Last' = Last /\ UnderWay' = UnderWay
    BY <2>1 DEF Last, UnderWay
  <2>5. \A p \in Requests : req'[p].at = "store" /\ req'[p].nonce = status.nonce => UnderWay
    BY <1>0, <2>1, <2>2
  <2> QED BY <1>0, <2>1, <2>3, <2>4, <2>5 DEF ResultInv
<1>4. ASSUME NEW q \in Requests, req[q].at = "store", End(q), UNCHANGED <<manifest, status, inbox>>,
             Last'.nonce = req[q].nonce, Last'.status = "pending"
      PROVE  ResultInv'
  <2>1. req'[q] = IdleReq /\ \A p \in Requests : p # q => req'[p] = req[p]
    BY <1>4, EndFacts
  <2>2. UnderWay' = UnderWay
    BY <1>4 DEF UnderWay
  <2> QED BY <1>0, <1>01, <1>4, <2>1, <2>2 DEF ResultInv
<1>5. ASSUME NEW q \in Requests, InsertPending(q)
      PROVE  ResultInv'
  <2>1. Last'.nonce = req[q].nonce /\ Last'.status = "pending"
    BY <1>5, InsertFacts DEF Last
  <2> QED BY <1>4, <1>5, <2>1 DEF InsertPending, deviceVars
<1>6. ASSUME NEW q \in Requests, ResetPending(q)
      PROVE  ResultInv'
  <2>1. Last'.nonce = req[q].nonce /\ Last'.status = "pending"
    BY <1>6, ResetFacts DEF Last
  <2> QED BY <1>4, <1>6, <2>1 DEF ResetPending, deviceVars
<1>7. ASSUME NEW ok \in BOOLEAN, Install(ok)
      PROVE  ResultInv'
  <2>1. /\ status'.nonce = manifest.nonce /\ manifest.nonce # status.nonce
        /\ inbox' = Append(inbox, status') /\ UNCHANGED <<req, records, manifest>>
    BY <1>7 DEF Install, serverVars
  <2>2. status' \in Message
    BY <1>7, TypeInductive DEF TypeOK, Next
  <2>3. UnderWay'
    BY <2>1, <2>2, ReportFacts DEF UnderWay
  <2>4. Last' = Last
    BY <2>1 DEF Last
  <2> QED BY <1>0, <2>1, <2>3, <2>4 DEF ResultInv
<1>8. CASE Redeliver
  <2>1. inbox' = Append(inbox, status') /\ UNCHANGED <<req, records, manifest, status>>
    BY <1>8 DEF Redeliver, serverVars, deviceVars
  <2>2. status' \in Message
    BY <2>1 DEF FirmwareInv, TypeOK
  <2>3. UnderWay'
    BY <2>1, <2>2, ReportFacts DEF UnderWay
  <2> QED BY <1>1, <2>1, <2>3 DEF Last
<1>9. CASE IngestStatus
  <2> DEFINE m == Head(inbox)
  <2>1. /\ records # <<>> /\ m.nonce = Last.nonce /\ UNCHANGED <<req, manifest, status>>
        /\ /\ Last.status = "pending" /\ m.result # "none"
           /\ m.result = "ok" => Last.version = m.version
           => MarkedBy(m, Last, Last')
    BY <1>0, <1>9, IngestFacts DEF IngestStatus, deviceVars
  <2>2. /\ m = inbox[1] /\ 1 \in 1..Len(inbox) /\ Len(inbox) \in Nat
        /\ Len(inbox') = Len(inbox) - 1
        /\ \A k \in 1..Len(inbox') : inbox'[k] = inbox[k + 1]
    BY <1>9, IngestFacts
  <2>3. Last'.nonce = Last.nonce /\ records' # <<>>
    BY <1>9, <2>1, LastFacts
  <2>4. Last' = Last \/ MarkedBy(m, Last, Last')
    <3>1. /\ Len(records') = Len(records)
          /\ \A i \in 1..Len(records) :
               records'[i] = records[i] \/ MarkedBy(m, records[i], records'[i])
      BY <1>9, IngestFacts
    <3> QED BY <1>02, <2>1, <3>1 DEF Last
  <2>5. /\ m.nonce = manifest.nonce => status.nonce = manifest.nonce
        /\ m.nonce = status.nonce => m = status
        /\ m.nonce # 0 /\ m.result # "none"
    BY <2>2 DEF FirmwareInv, NonceInv, DeviceInv, Answer
  <2> HIDE DEF m
  <2>6. ASSUME NEW q \in Requests, req[q].at = "store", req[q].nonce = status.nonce
        PROVE  UnderWay'
    <3>1. Last.nonce # req[q].nonce
      BY <1>01, <1>02, <2>1, <2>6 DEF FirmwareInv, NonceInv, Last
    <3>2. m # status
      BY <2>1, <2>6, <3>1
    <3>3. PICK k \in 1..Len(inbox) : inbox[k] = status
      BY <1>0, <2>6 DEF UnderWay
    <3>4. k - 1 \in 1..Len(inbox') /\ inbox'[k - 1] = status
      BY <2>2, <3>2, <3>3
    <3> QED BY <2>1, <3>4 DEF UnderWay
  <2>7. CASE Last.nonce = status.nonce
    <3>1. m = status
      BY <2>1, <2>5, <2>7
    <3>2. CASE Last.status = "pending"
      <4>1. MarkedBy(m, Last, Last')
        BY <1>0, <2>1, <2>5, <2>7, <3>1, <3>2 DEF VersionInv
      <4>2. Last'.status = Verdict(status.result)
        BY <1>02, <2>1, <3>1, <4>1 DEF MarkedBy, Record
      <4> QED BY <1>0, <2>1, <2>3, <2>6, <2>7, <4>2, <2>5 DEF ResultInv
    <3>3. CASE Last.status # "pending"
      <4>1. Last' = Last
        BY <2>4, <3>3 DEF MarkedBy
      <4> QED BY <1>0, <2>1, <2>3, <2>5, <2>6, <2>7, <3>3, <4>1 DEF ResultInv
    <3> QED BY <3>2, <3>3
  <2>8. CASE Last.nonce # status.nonce
    BY <2>1, <2>3, <2>5, <2>6, <2>8 DEF ResultInv
  <2> QED BY <2>7, <2>8
<1>10. ASSUME NEW n \in DOMAIN records, TimePasses(n)
       PROVE  ResultInv'
  <2>1. UNCHANGED <<manifest, status, inbox, req>>
    BY <1>10 DEF TimePasses, deviceVars
  <2>2. (records' # <<>> <=> records # <<>>) /\ (records # <<>> => Last'.nonce = Last.nonce)
    BY <1>10, LastFacts
  <2>3. records # <<>> => Last'.status = Last.status
    BY <1>02, <1>10, TimeFacts DEF Last
  <2> QED BY <1>1, <2>1, <2>2, <2>3 DEF UnderWay
<1>11. CASE UNCHANGED <<manifest, status, records, inbox, req>>
  BY <1>1, <1>11 DEF Last, UnderWay
<1>12. ASSUME Next
       PROVE  ResultInv'
  BY <1>2, <1>3, <1>5, <1>6, <1>7, <1>8, <1>9, <1>10, <1>11, <1>12, <1>03, Steps
  DEF CheckConfirm, CheckRetry, Poll, StoreFails, Crash, serverVars, deviceVars
<1> QED BY <1>11, <1>12 DEF vars, serverVars, deviceVars

-----------------------------------------------------------------------------
(* Theorems *)

LEMMA InitInv ==
  ASSUME Init
  PROVE  FirmwareInv /\ AloneInv /\ ManifestInv /\ VersionInv /\ ResultInv
<1>0. records = <<>> /\ inbox = <<>> /\ Len(records) = 0 /\ Len(inbox) = 0
      /\ records \in Seq(Record) /\ inbox \in Seq(Message)
  BY EmptySeq DEF Init
<1>1. \A q \in Requests : req[q] = IdleReq
  BY DEF Init
<1>2. IdleReq.at = "idle" /\ IdleReq.kind = "none"
  BY DEF IdleReq
<1>3. TypeOK
  BY <1>0, FirmwareAssumption DEF Init, TypeOK, IdleReq, Message
<1>4. manifest.version = 0 /\ manifest.nonce = 0 /\ status.nonce = 0 /\ nonces = 0
  BY DEF Init
<1>5. RequestInv
  BY <1>1, <1>2 DEF RequestInv
<1>6. DeviceInv
  BY <1>0, <1>4 DEF DeviceInv
<1>7. NonceInv
  BY <1>0, <1>1, <1>4 DEF NonceInv
<1>8. AloneInv
  BY <1>0, <1>1, <1>2 DEF AloneInv
<1>9. ManifestInv /\ VersionInv /\ ResultInv
  BY <1>0, <1>1, <1>2 DEF ManifestInv, VersionInv, ResultInv
<1> QED BY <1>3, <1>5, <1>6, <1>7, <1>8, <1>9 DEF FirmwareInv

(* The inductive invariant: every request, message and failure keeps the   *)
(* relation of requests, manifest, device answers and update records.      *)
THEOREM InvCorrect ==
  Spec => [](FirmwareInv /\ AloneInv /\ ManifestInv /\ VersionInv /\ ResultInv)
<1>1. FirmwareInv /\ [Next]_vars => FirmwareInv'
  BY TypeInductive, RequestInductive, DeviceInductive, NonceInductive DEF FirmwareInv
<1>2. FirmwareInv /\ AloneInv /\ [Next]_vars => AloneInv'
  BY AloneInductive
<1>3. FirmwareInv /\ AloneInv /\ ManifestInv /\ [Next]_vars => ManifestInv'
  BY ManifestInductive
<1>4. FirmwareInv /\ VersionInv /\ [Next]_vars => VersionInv'
  BY VersionInductive
<1>5. FirmwareInv /\ VersionInv /\ ResultInv /\ [Next]_vars => ResultInv'
  BY ResultInductive
<1> QED BY InitInv, <1>1, <1>2, <1>3, <1>4, <1>5, PTL DEF Spec

(* Requests, the manifest, the inbox and the records keep their types: a   *)
(* stored record is pending, succeeded or failed, a timeout is computed.   *)
THEOREM TypeCorrect == Spec => []TypeOK
<1>1. FirmwareInv => TypeOK
  BY DEF FirmwareInv
<1> QED BY <1>1, InvCorrect, PTL

(* MarkSucceeded marks no record whose version the device did not install. *)
THEOREM SucceededCorrect == Spec => []SucceededWasInstalled
<1>1. FirmwareInv => SucceededWasInstalled
  BY LenProperties DEF FirmwareInv, TypeOK, DeviceInv, SucceededWasInstalled
<1> QED BY <1>1, InvCorrect, PTL

(* ConfirmUpdate and RetryUpdate, one request at a time, never leave two   *)
(* pending records for one version.                                        *)
THEOREM PendingCorrect == Spec => []OnePendingPerVersion
<1>1. FirmwareInv /\ AloneInv => OnePendingPerVersion
  <2> SUFFICES ASSUME FirmwareInv, AloneInv, Calm({"overlap"}),
                      NEW i \in DOMAIN records, NEW j \in DOMAIN records,
                      records[i].status = "pending", records[j].status = "pending",
                      records[i].version = records[j].version
               PROVE  i = j
    BY DEF OnePendingPerVersion
  <2>1. i \in 1..Len(records) /\ j \in 1..Len(records) /\ Len(records) \in Nat
    BY LenProperties DEF FirmwareInv, TypeOK
  <2>2. ~(i < j) /\ ~(j < i)
    BY <2>1 DEF AloneInv
  <2> QED BY <2>1, <2>2
<1> QED BY <1>1, InvCorrect, PTL

(* The retained manifest of publishManifest belongs to the latest record   *)
(* between requests that neither overlapped nor failed.                    *)
THEOREM ManifestCorrect == Spec => []ManifestMatchesRecord
<1>1. ManifestInv => ManifestMatchesRecord
  <2>1. IdleReq.at = "idle"
    BY DEF IdleReq
  <2> QED BY <2>1 DEF ManifestInv, ManifestMatchesRecord, AllIdle
<1> QED BY <1>1, InvCorrect, PTL

(* IngestStatus records the device's answer to the latest manifest.        *)
THEOREM ResultCorrect == Spec => []ResultRecorded
<1>1. ResultInv => ResultRecorded
  <2> SUFFICES ASSUME ResultInv, Calm({"error", "foreign", "moved"}), inbox = <<>>,
                      records # <<>>, status.nonce = Last.nonce
               PROVE  Last.status = IF status.result = "ok" THEN "succeeded" ELSE "failed"
    BY DEF ResultRecorded
  <2>1. ~UnderWay
    BY EmptySeq DEF UnderWay
  <2> QED BY <2>1 DEF ResultInv, Verdict
<1> QED BY <1>1, InvCorrect, PTL
-----------------------------------------------------------------------------
(* Every update is an order of module Orders *)

(* A nonce has one record, and messages come only from a device that       *)
(* answered.                                                               *)
OneRecord == \A i, j \in 1..Len(records) : records[i].nonce = records[j].nonce => i = j
Heard     == inbox # <<>> => status.nonce # 0

OrdersInv == OneRecord /\ Heard

(* A nonce leaves a step with its request.                                 *)
LEMMA Leaves ==
  ASSUME RequestInv, NEW q \in Requests, NEW at, req[q].at = at, at # "idle",
         \A p \in Requests : p # q => req'[p] = req[p], req'[q].at # at
  PROVE  /\ req[q].nonce \in NoncesAt(at) /\ req[q].nonce \in 1..nonces
         /\ NoncesAt(at)' = NoncesAt(at) \ {req[q].nonce}
<1>1. req[q] # IdleReq /\ req[q].nonce \in 1..nonces
  BY DEF RequestInv, IdleReq
<1>2. \A p \in Requests : p # q /\ req[p].at = at => req[p].nonce # req[q].nonce
  BY <1>1 DEF RequestInv, IdleReq
<1>3. \A n : n \in NoncesAt(at)' <=> \E p \in Requests : p # q /\ req[p].at = at /\ req[p].nonce = n
  BY DEF NoncesAt
<1>4. \A n : n \in NoncesAt(at) <=> \E p \in Requests : req[p].at = at /\ req[p].nonce = n
  BY DEF NoncesAt
<1> QED BY ONLY <1>1, <1>2, <1>3, <1>4, q \in Requests, req[q].at = at

(* It enters a step with its request.                                      *)
LEMMA Enters ==
  ASSUME NEW q \in Requests, NEW at, req[q].at # at, req'[q].at = at,
         \A p \in Requests : p # q => req'[p] = req[p]
  PROVE  NoncesAt(at)' = NoncesAt(at) \cup {req'[q].nonce}
<1>1. \A n : n \in NoncesAt(at)' <=> \E p \in Requests : req'[p].at = at /\ req'[p].nonce = n
  BY DEF NoncesAt
<1>2. \A n : n \in NoncesAt(at) <=> \E p \in Requests : p # q /\ req[p].at = at /\ req[p].nonce = n
  BY DEF NoncesAt
<1> QED BY <1>1, <1>2

(* The steps that the request is not at keep their nonces.                 *)
LEMMA Stays ==
  ASSUME NEW q \in Requests, NEW at, req[q].at # at, req'[q].at # at,
         \A p \in Requests : p # q => req'[p] = req[p]
  PROVE  NoncesAt(at)' = NoncesAt(at)
BY DEF NoncesAt

(* The entries of the book by the index of their record.                   *)
LEMMA BookEntries ==
  ASSUME records \in Seq(Record)
  PROVE  Book = {<<records[i].nonce, records[i].status>> : i \in 1..Len(records)}
BY LenProperties DEF Book

(* Other columns than nonce and status are not in the book.                *)
LEMMA BookStays ==
  ASSUME records \in Seq(Record), records' \in Seq(Record), Len(records') = Len(records),
         \A i \in 1..Len(records) :
           records'[i].nonce = records[i].nonce /\ records'[i].status = records[i].status
  PROVE  Book' = Book
<1>1. Book = {<<records[i].nonce, records[i].status>> : i \in 1..Len(records)}
  BY BookEntries
<1>2. Book' = {<<records'[i].nonce, records'[i].status>> : i \in 1..Len(records')}
  BY LenProperties DEF Book
<1> QED BY <1>1, <1>2

(* One record changes, and its entry with it.                              *)
LEMMA BookMoves ==
  ASSUME records \in Seq(Record), records' \in Seq(Record), Len(records') = Len(records),
         OneRecord, NEW k \in 1..Len(records),
         \A i \in 1..Len(records) : i # k => records'[i] = records[i]
  PROVE  /\ <<records[k].nonce, records[k].status>> \in Book
         /\ Book' = (Book \ {<<records[k].nonce, records[k].status>>})
                      \cup {<<records'[k].nonce, records'[k].status>>}
<1>1. \A e : e \in Book <=>
        \E i \in 1..Len(records) : e = <<records[i].nonce, records[i].status>>
  BY BookEntries
<1>2. Book' = {<<records'[i].nonce, records'[i].status>> : i \in 1..Len(records')}
  BY LenProperties DEF Book
<1>3. \A e : e \in Book' <=>
        \E i \in 1..Len(records) : e = <<records'[i].nonce, records'[i].status>>
  BY <1>2
<1>4. \A i \in 1..Len(records) : i # k =>
        <<records[i].nonce, records[i].status>> # <<records[k].nonce, records[k].status>>
  BY DEF OneRecord
<1> QED BY ONLY <1>1, <1>3, <1>4, k \in 1..Len(records),
        \A i \in 1..Len(records) : i # k => records'[i] = records[i]

(* ORDER BY created_at DESC LIMIT 1: a message changes one record.         *)
LEMMA MarkOne ==
  ASSUME records \in Seq(Record), NEW m,
         NEW i \in 1..Len(records), NEW j \in 1..Len(records),
         Mark(m)[i] # records[i], Mark(m)[j] # records[j]
  PROVE  i = j
<1>1. DOMAIN records = 1..Len(records) /\ Len(records) \in Nat
  BY LenProperties
<1>2. ASSUME NEW S \in SUBSET (1..Len(records)), NEW new,
             Newest(S, new)[i] # records[i], Newest(S, new)[j] # records[j]
      PROVE  i = j
  <2>1. i \in S /\ \A k \in S : k <= i
    BY ONLY <1>1, <1>2, i \in 1..Len(records) DEF Newest
  <2>2. j \in S /\ \A k \in S : k <= j
    BY ONLY <1>1, <1>2, j \in 1..Len(records) DEF Newest
  <2> QED BY <2>1, <2>2
<1>3. Pending \in SUBSET (1..Len(records))
  BY <1>1 DEF Pending
<1>4. CASE m.result = "ok"
  <2> DEFINE S == {k \in Pending : records[k].version = m.version}
  <2>1. S \in SUBSET (1..Len(records))
    BY <1>3
  <2>2. Mark(m) = Newest(S, "succeeded")
    BY <1>4 DEF Mark, MarkSucceeded
  <2> HIDE DEF S
  <2> QED BY <1>2, <2>1, <2>2
<1>5. CASE m.result = "failed"
  <2>1. Mark(m) = Newest(Pending, "failed")
    BY <1>5 DEF Mark, MarkFailed
  <2> QED BY <1>2, <1>3, <2>1
<1>6. CASE m.result \notin {"ok", "failed"}
  <2>1. Mark(m) = records
    BY <1>6 DEF Mark
  <2> QED BY <2>1
<1> QED BY <1>4, <1>5, <1>6

(* What a status message does to the book.                                 *)
LEMMA IngestSettles ==
  ASSUME FirmwareInv, OneRecord, IngestStatus
  PROVE  \/ Book' = Book
         \/ \E n \in 1..MaxNonces, verdict \in {"succeeded", "failed"} :
              /\ <<n, "pending">> \in Book
              /\ Book' = (Book \ {<<n, "pending">>}) \cup {<<n, verdict>>}
<1>1. /\ records \in Seq(Record) /\ records' \in Seq(Record) /\ Len(records') = Len(records)
      /\ \A i \in 1..Len(records) :
           records'[i] = records[i] \/ MarkedBy(Head(inbox), records[i], records'[i])
  BY IngestFacts DEF FirmwareInv, TypeOK
<1>2. CASE \A i \in 1..Len(records) : records'[i] = records[i]
  BY <1>1, <1>2, BookStays
<1>3. CASE \E i \in 1..Len(records) : records'[i] # records[i]
  <2>1. PICK k \in 1..Len(records) : records'[k] # records[k]
    BY <1>3
  <2>2. records' = Mark(Head(inbox))
    BY <2>1 DEF IngestStatus
  <2>3. \A i \in 1..Len(records) : i # k => records'[i] = records[i]
    BY <1>1, <2>1, <2>2, MarkOne
  <2>4. /\ <<records[k].nonce, records[k].status>> \in Book
        /\ Book' = (Book \ {<<records[k].nonce, records[k].status>>})
                     \cup {<<records'[k].nonce, records'[k].status>>}
    BY <1>1, <2>3, BookMoves
  <2>5. records[k] \in Record /\ MarkedBy(Head(inbox), records[k], records'[k])
    BY <1>1, <2>1, ElementOfSeq
  <2>6. /\ records[k].nonce \in 1..MaxNonces /\ records[k].status = "pending"
        /\ records'[k].nonce = records[k].nonce /\ records'[k].status \in {"succeeded", "failed"}
    BY ONLY <2>5 DEF MarkedBy, Record, Verdict
  <2> QED BY ONLY <2>4, <2>6
<1> QED BY <1>2, <1>3

(* A nonce is recorded once, by the request that has it.                   *)
LEMMA OneRecordInductive ==
  ASSUME FirmwareInv, OneRecord, [Next]_vars
  PROVE  OneRecord'
<1>1. CASE UNCHANGED records
  BY <1>1 DEF OneRecord
<1>2. ASSUME NEW n \in DOMAIN records, TimePasses(n)
      PROVE  OneRecord'
  BY <1>2, TimeFacts DEF OneRecord
<1>3. ASSUME NEW q \in Requests, req[q] # IdleReq
      PROVE  \A i \in 1..Len(records) : records[i].nonce # req[q].nonce
  BY <1>3 DEF FirmwareInv, NonceInv
<1>4. ASSUME NEW q \in Requests, InsertPending(q)
      PROVE  OneRecord'
  <2>1. req[q] # IdleReq
    BY <1>4 DEF InsertPending, IdleReq
  <2>2. /\ Len(records') = Len(records) + 1 /\ Len(records) \in Nat
        /\ \A i \in 1..Len(records) : records'[i] = records[i]
        /\ records'[Len(records')].nonce = req[q].nonce
    BY <1>4, InsertFacts
  <2>3. \A i \in 1..Len(records) : records'[i].nonce # req[q].nonce
    BY <1>3, <2>1, <2>2
  <2>4. \A i \in 1..Len(records') : i \in 1..Len(records) \/ i = Len(records')
    BY <2>2
  <2> QED BY ONLY <2>2, <2>3, <2>4, OneRecord DEF OneRecord
<1>5. ASSUME NEW q \in Requests, ResetPending(q)
      PROVE  OneRecord'
  <2>1. req[q] # IdleReq
    BY <1>5 DEF ResetPending, IdleReq
  <2>2. /\ Len(records') = Len(records)
        /\ \A i \in 1..Len(records) : i # Len(records) => records'[i] = records[i]
        /\ records'[Len(records)].nonce = req[q].nonce
    BY <1>5, ResetFacts
  <2>3. \A i \in 1..Len(records) : records[i].nonce # req[q].nonce
    BY <1>3, <2>1
  <2> QED BY ONLY <2>2, <2>3, OneRecord DEF OneRecord
<1>6. CASE IngestStatus
  BY <1>6, SettledFacts DEF OneRecord
<1>7. CASE Next
  BY <1>1, <1>2, <1>4, <1>5, <1>6, <1>7, Steps
  DEF CheckConfirm, CheckRetry, Pass, Poll, PublishManifest, StoreFails, Install, Redeliver, Crash,
      serverVars
<1> QED BY <1>1, <1>7 DEF vars, serverVars

(* The inbox holds what the device answered.                               *)
LEMMA HeardInductive ==
  ASSUME FirmwareInv, Heard, [Next]_vars
  PROVE  Heard'
<1>1. CASE UNCHANGED <<inbox, status>>
  BY <1>1 DEF Heard
<1>2. ASSUME NEW ok \in BOOLEAN, Install(ok)
      PROVE  Heard'
  <2>1. status'.nonce = manifest.nonce /\ manifest.nonce # 0
    BY <1>2 DEF Install, FirmwareInv, DeviceInv
  <2> QED BY <2>1 DEF Heard
<1>3. CASE Redeliver
  BY <1>3 DEF Redeliver, deviceVars, Heard
<1>4. CASE IngestStatus
  BY <1>4 DEF IngestStatus, deviceVars, Heard
<1>5. CASE Crash
  BY <1>5 DEF Crash, deviceVars, Heard
<1>6. CASE Next
  BY <1>1, <1>2, <1>3, <1>4, <1>5, <1>6, Steps
  DEF CheckConfirm, CheckRetry, Pass, Poll, TimePasses, PublishManifest, StoreFails, InsertPending,
      ResetPending, deviceVars
<1> QED BY <1>1, <1>6 DEF vars, deviceVars

(* A new record is a new entry.                                            *)
LEMMA BookGrows ==
  ASSUME FirmwareInv, NEW q \in Requests, InsertPending(q)
  PROVE  Book' = Book \cup {<<req[q].nonce, "pending">>}
<1>1. /\ records' \in Seq(Record) /\ Len(records') = Len(records) + 1 /\ Len(records) \in Nat
      /\ \A i \in 1..Len(records) : records'[i] = records[i]
      /\ records'[Len(records) + 1].nonce = req[q].nonce
      /\ records'[Len(records) + 1].status = "pending"
  BY InsertFacts
<1>2. Book = {<<records[i].nonce, records[i].status>> : i \in 1..Len(records)}
  BY BookEntries DEF FirmwareInv, TypeOK
<1>3. Book' = {<<records'[i].nonce, records'[i].status>> : i \in 1..Len(records')}
  BY <1>1, LenProperties DEF Book
<1>4. 1..Len(records') = 1..Len(records) \cup {Len(records) + 1}
  BY <1>1
<1> QED BY ONLY <1>1, <1>2, <1>3, <1>4

(* What a request that ends does to the orders.                            *)
LEMMA OrderEnds ==
  ASSUME FirmwareInv, NEW q \in Requests, NEW at \in {"publish", "store"}, req[q].at = at, End(q)
  PROVE  /\ req[q].nonce \in NoncesAt(at) /\ req[q].nonce \in 1..MaxNonces
         /\ NoncesAt(at)' = NoncesAt(at) \ {req[q].nonce}
         /\ \A other \in {"publish", "store"} : other # at => NoncesAt(other)' = NoncesAt(other)
<1>1. req'[q].at = "idle" /\ \A p \in Requests : p # q => req'[p] = req[p]
  BY EndFacts DEF IdleReq
<1>2. /\ req[q].nonce \in NoncesAt(at) /\ req[q].nonce \in 1..nonces
      /\ NoncesAt(at)' = NoncesAt(at) \ {req[q].nonce}
  BY <1>1, Leaves DEF FirmwareInv
<1>3. \A other \in {"publish", "store"} : other # at => NoncesAt(other)' = NoncesAt(other)
  BY <1>1, Stays
<1>4. nonces \in 0..MaxNonces
  BY DEF FirmwareInv, TypeOK
<1> QED BY <1>2, <1>3, <1>4, FirmwareAssumption

(* The steps of a request: asked, announced or lost, filed or given up.    *)
LEMMA RequestRefines ==
  ASSUME FirmwareInv, OrdersInv, NEW q \in Requests,
         CheckConfirm(q) \/ CheckRetry(q) \/ PublishManifest(q) \/ StoreFails(q)
           \/ InsertPending(q) \/ ResetPending(q)
  PROVE  Updates!Next
<1>1. ASSUME NEW kind \in {"confirm", "retry"}, Pass(q, kind)
      PROVE  Updates!Next
  <2>1. /\ req[q].at = "idle" /\ nonces' = nonces + 1 /\ nonces' \in 1..MaxNonces
        /\ req'[q].at = "publish" /\ req'[q].nonce = nonces'
        /\ \A p \in Requests : p # q => req'[p] = req[p]
        /\ UNCHANGED <<records, manifest, status>>
    BY <1>1, PassFacts DEF IdleReq, deviceVars
  <2>2. /\ NoncesAt("publish")' = NoncesAt("publish") \cup {nonces'}
        /\ NoncesAt("store")' = NoncesAt("store")
    BY <2>1, Enters, Stays
  <2>3. nonces \in Nat
    BY FirmwareAssumption DEF FirmwareInv, TypeOK
  <2>4. nonces' \notin 1..nonces /\ 1..nonces' = (1..nonces) \cup {nonces'}
    BY <2>1, <2>3
  <2>5. Book' = Book
    BY <2>1 DEF Book
  <2>6. Updates!Ask(nonces')
    BY <2>1, <2>2, <2>4, <2>5 DEF Updates!Ask
  <2> QED BY <2>1, <2>6 DEF Updates!Next
<1>2. CASE PublishManifest(q)
  <2>1. /\ req[q].at = "publish" /\ req[q] # IdleReq
        /\ \A p \in Requests : p # q => req'[p] = req[p]
        /\ \/ /\ req'[q].at = "store" /\ req'[q].nonce = req[q].nonce
              /\ manifest'.nonce = req[q].nonce
           \/ /\ req'[q] = IdleReq
              /\ manifest'.nonce = manifest.nonce \/ manifest'.nonce = req[q].nonce
        /\ UNCHANGED <<records, nonces, status>>
    BY <1>2, PublishFacts DEF deviceVars
  <2>2. IdleReq.at = "idle"
    BY DEF IdleReq
  <2>3. /\ req[q].nonce \in NoncesAt("publish") /\ req[q].nonce \in 1..nonces
        /\ NoncesAt("publish")' = NoncesAt("publish") \ {req[q].nonce}
    BY <2>1, <2>2, Leaves DEF FirmwareInv
  <2>4. nonces \in 0..MaxNonces
    BY DEF FirmwareInv, TypeOK
  <2>5. req[q].nonce \in 1..MaxNonces
    BY <2>3, <2>4, FirmwareAssumption
  <2>6. Book' = Book
    BY <2>1 DEF Book
  <2>7. CASE req'[q].at = "store" /\ req'[q].nonce = req[q].nonce /\ manifest'.nonce = req[q].nonce
    <3>1. NoncesAt("store")' = NoncesAt("store") \cup {req[q].nonce}
      BY <2>1, <2>7, Enters
    <3>2. Updates!Announce(req[q].nonce)
      BY <2>1, <2>3, <2>6, <2>7, <3>1 DEF Updates!Announce
    <3> QED BY <2>5, <3>2 DEF Updates!Next
  <2>8. CASE req'[q] = IdleReq /\ (manifest'.nonce = manifest.nonce \/ manifest'.nonce = req[q].nonce)
    <3>1. NoncesAt("store")' = NoncesAt("store")
      BY <2>1, <2>2, <2>8, Stays
    <3>2. Updates!Fail(req[q].nonce)
      BY <2>1, <2>3, <2>6, <2>8, <3>1 DEF Updates!Fail
    <3> QED BY <2>5, <3>2 DEF Updates!Next
  <2> QED BY <2>1, <2>7, <2>8
<1>3. CASE StoreFails(q)
  <2>1. req[q].at = "store" /\ End(q) /\ UNCHANGED <<records, nonces, manifest, status>>
    BY <1>3 DEF StoreFails, deviceVars
  <2>2. /\ NoncesAt("store")' = NoncesAt("store") \ {req[q].nonce}
        /\ NoncesAt("publish")' = NoncesAt("publish")
    BY <2>1, OrderEnds
  <2>3. Book' = Book
    BY <2>1 DEF Book
  <2> QED BY <2>1, <2>2, <2>3 DEF Updates!Next, Updates!Stop
<1>4. CASE InsertPending(q)
  <2>1. req[q].at = "store" /\ End(q) /\ UNCHANGED <<nonces, manifest, status>>
    BY <1>4 DEF InsertPending, deviceVars
  <2>2. /\ req[q].nonce \in NoncesAt("store") /\ req[q].nonce \in 1..MaxNonces
        /\ NoncesAt("store")' = NoncesAt("store") \ {req[q].nonce}
        /\ NoncesAt("publish")' = NoncesAt("publish")
    BY <2>1, OrderEnds
  <2>3. Book' = Book \cup {<<req[q].nonce, "pending">>}
    BY <1>4, BookGrows
  <2>4. Updates!File(req[q].nonce)
    BY <2>1, <2>2, <2>3 DEF Updates!File
  <2> QED BY <2>2, <2>4 DEF Updates!Next
<1>5. CASE ResetPending(q)
  <2>1. req[q].at = "store" /\ End(q) /\ UNCHANGED <<nonces, manifest, status>>
    BY <1>5 DEF ResetPending, deviceVars
  <2>2. /\ req[q].nonce \in NoncesAt("store") /\ req[q].nonce \in 1..MaxNonces
        /\ NoncesAt("store")' = NoncesAt("store") \ {req[q].nonce}
        /\ NoncesAt("publish")' = NoncesAt("publish")
    BY <2>1, OrderEnds
  <2>3. /\ records' \in Seq(Record) /\ Len(records') = Len(records) /\ Len(records) \in Nat \ {0}
        /\ \A i \in 1..Len(records) : i # Len(records) => records'[i] = records[i]
        /\ records'[Len(records)].nonce = req[q].nonce
        /\ records'[Len(records)].status = "pending"
    BY <1>5, ResetFacts
  <2>4. records \in Seq(Record) /\ OneRecord /\ Len(records) \in 1..Len(records)
    BY <2>3 DEF FirmwareInv, TypeOK, OrdersInv
  <2>5. \E old \in Book : Book' = (Book \ {old}) \cup {<<req[q].nonce, "pending">>}
    BY <2>3, <2>4, BookMoves
  <2>6. Updates!File(req[q].nonce)
    BY <2>1, <2>2, <2>5 DEF Updates!File
  <2> QED BY <2>2, <2>6 DEF Updates!Next
<1> QED BY <1>1, <1>2, <1>3, <1>4, <1>5 DEF CheckConfirm, CheckRetry

(* A failed call or a stop ends orders, the device's answer and the status *)
(* message settle them; the rest is invisible.                             *)
LEMMA OrderRefines ==
  ASSUME FirmwareInv, OrdersInv, [Next]_vars
  PROVE  [Updates!Next]_Updates!ovars
<1>1. ASSUME UNCHANGED <<req, nonces, manifest, status>>, Book' = Book
      PROVE  UNCHANGED Updates!ovars
  <2>1. \A at : NoncesAt(at)' = NoncesAt(at)
    BY <1>1 DEF NoncesAt
  <2> QED BY <1>1, <2>1 DEF Updates!ovars
<1>2. CASE UNCHANGED vars
  BY <1>1, <1>2 DEF vars, serverVars, deviceVars, Book
<1>3. ASSUME NEW v \in Versions, Poll(v)
      PROVE  UNCHANGED Updates!ovars
  BY <1>1, <1>3 DEF Poll, deviceVars, Book
<1>4. ASSUME NEW n \in DOMAIN records, TimePasses(n)
      PROVE  UNCHANGED Updates!ovars
  <2>1. Book' = Book
    BY <1>4, TimeFacts, BookStays DEF FirmwareInv, TypeOK
  <2> QED BY <1>1, <1>4, <2>1 DEF TimePasses, deviceVars
<1>5. ASSUME NEW ok \in BOOLEAN, Install(ok)
      PROVE  Updates!Next
  <2>1. /\ manifest.nonce # 0 /\ manifest.nonce # status.nonce /\ status'.nonce = manifest.nonce
        /\ UNCHANGED <<req, nonces, records, manifest>>
    BY <1>5 DEF Install, serverVars, FirmwareInv, DeviceInv
  <2>2. \A at : NoncesAt(at)' = NoncesAt(at)
    BY <2>1 DEF NoncesAt
  <2>3. Book' = Book
    BY <2>1 DEF Book
  <2> QED BY <2>1, <2>2, <2>3 DEF Updates!Next, Updates!Reply
<1>6. CASE Redeliver
  BY <1>1, <1>6 DEF Redeliver, serverVars, deviceVars, Book
<1>7. CASE IngestStatus
  <2>1. UNCHANGED <<req, nonces, manifest, status>> /\ inbox # <<>>
    BY <1>7 DEF IngestStatus, deviceVars
  <2>2. status.nonce # 0
    BY <2>1 DEF OrdersInv, Heard
  <2>3. CASE Book' = Book
    BY <1>1, <2>1, <2>3
  <2>4. CASE Book' # Book
    <3>1. PICK n \in 1..MaxNonces, verdict \in {"succeeded", "failed"} :
            /\ <<n, "pending">> \in Book
            /\ Book' = (Book \ {<<n, "pending">>}) \cup {<<n, verdict>>}
      BY <1>7, <2>4, IngestSettles DEF OrdersInv
    <3>2. \A at : NoncesAt(at)' = NoncesAt(at)
      BY <2>1 DEF NoncesAt
    <3>3. Updates!Settle(n, verdict)
      BY <2>1, <2>2, <3>1, <3>2 DEF Updates!Settle
    <3> QED BY <3>3 DEF Updates!Next
  <2> QED BY <2>3, <2>4
<1>8. CASE Crash
  <2>1. UNCHANGED <<records, nonces, manifest, status>> /\ \A q \in Requests : req'[q].at = "idle"
    BY <1>8 DEF Crash, deviceVars, IdleReq
  <2>2. NoncesAt("publish")' = {} /\ NoncesAt("store")' = {}
    BY <2>1 DEF NoncesAt
  <2>3. Book' = Book
    BY <2>1 DEF Book
  <2> QED BY <2>1, <2>2, <2>3 DEF Updates!Next, Updates!Stop
<1> QED BY <1>2, <1>3, <1>4, <1>5, <1>6, <1>7, <1>8, Steps, RequestRefines

(* ConfirmUpdate, RetryUpdate, the device and IngestStatus together treat  *)
(* every nonce as an order, whatever overlaps, fails or comes twice.       *)
THEOREM OrdersCorrect == Spec => ImplementsOrders
<1>1. Init => Updates!Init /\ OrdersInv
  <2> SUFFICES ASSUME Init PROVE Updates!Init /\ OrdersInv
    OBVIOUS
  <2>1. /\ records = <<>> /\ inbox = <<>> /\ Len(records) = 0 /\ DOMAIN records = {}
        /\ nonces = 0 /\ manifest.nonce = 0 /\ status.nonce = 0
        /\ \A q \in Requests : req[q].at = "idle"
    BY EmptySeq DEF Init, IdleReq
  <2>2. OrdersInv
    BY <2>1 DEF OrdersInv, OneRecord, Heard
  <2>3. NoncesAt("publish") = {} /\ NoncesAt("store") = {} /\ Book = {} /\ 1..nonces = {}
    BY <2>1 DEF NoncesAt, Book
  <2> QED BY <2>1, <2>2, <2>3 DEF Updates!Init
<1>2. FirmwareInv /\ OrdersInv /\ [Next]_vars => OrdersInv'
  BY OneRecordInductive, HeardInductive DEF OrdersInv
<1>3. FirmwareInv /\ OrdersInv /\ [Next]_vars => [Updates!Next]_Updates!ovars
  BY OrderRefines
<1> QED BY <1>1, <1>2, <1>3, InvCorrect, PTL DEF Spec, ImplementsOrders, Updates!Spec
=============================================================================
