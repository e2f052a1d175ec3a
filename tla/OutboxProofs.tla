---------------------------- MODULE OutboxProofs ----------------------------
(***************************************************************************)
(* Theorems about Outbox for every set of runners and rows, every batch    *)
(* size and every value of maxAttempts.                                    *)
(***************************************************************************)
EXTENDS Outbox, TLAPS

USE DEF Claimed, Live, Final, Status, Returned, Job

-----------------------------------------------------------------------------
(* Any number of runners *)

(* The attempts budget is inductive together with the types: RecordFailure *)
(* writes snap + 1, no snapshot of a held row reaches maxAttempts, and a   *)
(* row is inserted with attempts 0.                                        *)
BudgetInv ==
  /\ TypeOK
  /\ AttemptsWithinBudget
  /\ \A e \in Events : status[e] = "absent" => attempts[e] = 0

(* ClaimBatch copies attempts into a snapshot only of rows it may claim,   *)
(* which have attempts left.                                               *)
LEMMA ClaimKeepsBudget ==
  ASSUME NEW r \in Runners, BudgetInv, ClaimBatch(r)
  PROVE  BudgetInv'
<1>1. PICK S \in SUBSET Claimable :
        /\ MarkClaimed(S)
        /\ job' = [job EXCEPT ![r] =
             [e \in Events |-> IF e \in S /\ HasProcessor(e) THEN "queued" ELSE "none"]]
        /\ snap' = [snap EXCEPT ![r] =
             [e \in Events |-> IF e \in S /\ HasProcessor(e) THEN attempts[e] ELSE 0]]
        /\ UNCHANGED <<attempts, history, faults>>
  BY DEF ClaimBatch, Batches
<1>2. TypeOK'
  BY <1>1, OutboxAssumption DEF BudgetInv, TypeOK, MarkClaimed, history
<1>3. AttemptsWithinBudget'
  BY <1>1, OutboxAssumption
  DEF BudgetInv, TypeOK, AttemptsWithinBudget, MarkClaimed, Claimable
<1>4. \A e \in Events : status'[e] = "absent" => attempts'[e] = 0
  BY <1>1 DEF BudgetInv, TypeOK, MarkClaimed
<1> QED BY <1>2, <1>3, <1>4 DEF BudgetInv

(* RecordFailure writes the snapshot plus one and dead at maxAttempts: a    *)
(* pending row has attempts left again, a dead one none.                   *)
LEMMA FailureKeepsBudget ==
  ASSUME NEW r \in Runners, NEW e \in Events, BudgetInv, RecordFailure(r, e)
  PROVE  BudgetInv'
<1> DEFINE n == snap[r][e] + 1
<1>1. /\ n \in 1..MaxAttempts
      /\ attempts' = [attempts EXCEPT ![e] = n]
      /\ status' = [status EXCEPT ![e] = IF n >= MaxAttempts THEN "dead" ELSE "pending"]
      /\ job' = [job EXCEPT ![r][e] = "none"]
      /\ snap' = [snap EXCEPT ![r][e] = 0]
      /\ UNCHANGED <<history, faults>>
  BY OutboxAssumption DEF BudgetInv, TypeOK, AttemptsWithinBudget, RecordFailure, FailWith, Finish
<1> HIDE DEF n
<1>2. TypeOK'
  BY <1>1, OutboxAssumption DEF BudgetInv, TypeOK, history
<1>3. AttemptsWithinBudget'
  BY <1>1, OutboxAssumption DEF BudgetInv, TypeOK, AttemptsWithinBudget
<1>4. \A d \in Events : status'[d] = "absent" => attempts'[d] = 0
  BY <1>1 DEF BudgetInv, TypeOK
<1> QED BY <1>2, <1>3, <1>4 DEF BudgetInv

(* The budget survives every step of the table and its runners.            *)
LEMMA BudgetInductive == BudgetInv /\ [Next]_vars => BudgetInv'
<1> SUFFICES ASSUME BudgetInv, [Next]_vars
             PROVE  BudgetInv'
  OBVIOUS
<1> USE OutboxAssumption DEF BudgetInv, TypeOK, AttemptsWithinBudget,
        rowVars, jobVars, history
<1>1. CASE UNCHANGED vars
  BY <1>1 DEF vars
<1>2. ASSUME NEW e \in Events, ClaimExpires(e)
      PROVE  BudgetInv'
  BY <1>2 DEF ClaimExpires
<1>10. ASSUME NEW S \in SUBSET Events, Insert(S)
       PROVE  BudgetInv'
  BY <1>10 DEF Insert
<1>3. ASSUME NEW r \in Runners, ClaimBatch(r)
      PROVE  BudgetInv'
  BY <1>3, ClaimKeepsBudget
<1>4. ASSUME NEW r \in Runners, ClaimAnswerLost(r)
      PROVE  BudgetInv'
  <2>1. PICK S \in SUBSET Claimable : MarkClaimed(S)
    BY <1>4 DEF ClaimAnswerLost, Batches
  <2>2. faults' \in 0..MaxFaults /\ UNCHANGED <<attempts, job, snap, delivered, calls>>
    BY <1>4 DEF ClaimAnswerLost
  <2> QED BY <2>1, <2>2 DEF Claimable, MarkClaimed
<1>5. ASSUME NEW r \in Runners, Crash(r)
      PROVE  BudgetInv'
  BY <1>5 DEF Crash
<1>6. ASSUME NEW r \in Runners, NEW e \in Events, Process(r, e)
      PROVE  BudgetInv'
  <2>1. PICK x \in Returned : job' = [job EXCEPT ![r][e] = x]
    BY <1>6 DEF Process, ProcessOk, ProcessFail
  <2>2. /\ job[r][e] = "queued"
        /\ calls' = [calls EXCEPT ![e] = @ + 1]
        /\ UNCHANGED <<status, attempts, snap, faults>>
    BY <1>6 DEF Process, ProcessOk, ProcessFail, Call
  <2>3. delivered' \subseteq Events
    BY <1>6 DEF Process, ProcessOk, ProcessFail
  <2> QED BY <2>1, <2>2, <2>3
<1>7. ASSUME NEW r \in Runners, NEW e \in Events, MarkCompleted(r, e)
      PROVE  BudgetInv'
  BY <1>7 DEF MarkCompleted, Finish
<1>8. ASSUME NEW r \in Runners, NEW e \in Events, RecordFailure(r, e)
      PROVE  BudgetInv'
  BY <1>8, FailureKeepsBudget
<1>9. ASSUME NEW r \in Runners, NEW e \in Events, SettleError(r, e)
      PROVE  BudgetInv'
  <2>1. faults' \in 0..MaxFaults /\ UNCHANGED <<status, attempts, delivered, calls>>
    BY <1>9 DEF SettleError
  <2>2. /\ job' = [job EXCEPT ![r][e] = "none"]
        /\ snap' = [snap EXCEPT ![r][e] = 0]
    BY <1>9 DEF SettleError, Finish
  <2> QED BY <2>1, <2>2
<1> QED
  BY <1>1, <1>2, <1>3, <1>4, <1>5, <1>6, <1>7, <1>8, <1>9, <1>10 DEF Next, Settle

(* The table starts empty.                                                 *)
LEMMA BudgetInitially == Init => BudgetInv
BY OutboxAssumption DEF Init, BudgetInv, TypeOK, AttemptsWithinBudget

(* The budget holds in every state.                                        *)
LEMMA BudgetAlways == Spec => []BudgetInv
BY BudgetInitially, BudgetInductive, PTL DEF Spec

(* The columns and the runner memory keep their types; in particular       *)
(* attempts never passes maxAttempts.                                      *)
THEOREM TypeCorrect == Spec => []TypeOK
<1>1. BudgetInv => TypeOK
  BY DEF BudgetInv
<1> QED BY <1>1, BudgetAlways, PTL

(* However many runners share the table, RecordFailure (store_postgres.go) *)
(* declares a row dead exactly when its last attempt is used.              *)
THEOREM BudgetCorrect == Spec => []AttemptsWithinBudget
<1>1. BudgetInv => AttemptsWithinBudget
  BY DEF BudgetInv
<1> QED BY <1>1, BudgetAlways, PTL

-----------------------------------------------------------------------------
(* At-least-once delivery *)

(* What remembers the effect between Process and MarkCompleted is the      *)
(* runner's memory: a job in state "ok" is the missing link.               *)
DeliveryInv ==
  /\ CompletedWasDelivered
  /\ \A r \in Runners, e \in Events : job[r][e] = "ok" => e \in delivered

(* Only a Process that returned no error leads to MarkCompleted.           *)
LEMMA DeliveryInductive == TypeOK /\ DeliveryInv /\ [Next]_vars => DeliveryInv'
<1> SUFFICES ASSUME TypeOK, DeliveryInv, [Next]_vars
             PROVE  DeliveryInv'
  OBVIOUS
<1> USE DEF TypeOK, DeliveryInv, CompletedWasDelivered, rowVars, jobVars, history
<1>1. CASE UNCHANGED vars
  BY <1>1 DEF vars
<1>2. ASSUME NEW e \in Events, ClaimExpires(e)
      PROVE  DeliveryInv'
  BY <1>2 DEF ClaimExpires
<1>10. ASSUME NEW S \in SUBSET Events, Insert(S)
       PROVE  DeliveryInv'
  BY <1>10 DEF Insert
<1>3. ASSUME NEW r \in Runners, ClaimBatch(r)
      PROVE  DeliveryInv'
  <2>1. PICK S \in SUBSET Claimable :
          /\ MarkClaimed(S)
          /\ job' = [job EXCEPT ![r] =
               [e \in Events |-> IF e \in S /\ HasProcessor(e) THEN "queued" ELSE "none"]]
    BY <1>3 DEF ClaimBatch, Batches
  <2>2. delivered' = delivered
    BY <1>3 DEF ClaimBatch
  <2> QED BY <2>1, <2>2 DEF MarkClaimed
<1>4. ASSUME NEW r \in Runners, ClaimAnswerLost(r)
      PROVE  DeliveryInv'
  BY <1>4 DEF ClaimAnswerLost, MarkClaimed
<1>5. ASSUME NEW r \in Runners, Crash(r)
      PROVE  DeliveryInv'
  BY <1>5 DEF Crash
<1>6. ASSUME NEW r \in Runners, NEW e \in Events, Process(r, e)
      PROVE  DeliveryInv'
  BY <1>6 DEF Process, ProcessOk, ProcessFail, Call
<1>7. ASSUME NEW r \in Runners, NEW e \in Events, MarkCompleted(r, e)
      PROVE  DeliveryInv'
  BY <1>7 DEF MarkCompleted, Finish
<1>8. ASSUME NEW r \in Runners, NEW e \in Events, RecordFailure(r, e)
      PROVE  DeliveryInv'
  BY <1>8 DEF RecordFailure, FailWith, Finish
<1>9. ASSUME NEW r \in Runners, NEW e \in Events, SettleError(r, e)
      PROVE  DeliveryInv'
  BY <1>9 DEF SettleError, Finish
<1> QED
  BY <1>1, <1>2, <1>3, <1>4, <1>5, <1>6, <1>7, <1>8, <1>9, <1>10 DEF Next, Settle

(* A row that MarkCompleted (store_postgres.go) closed had its effect,     *)
(* whatever crashes, reclaims and late runners there were.                 *)
THEOREM DeliveryCorrect == Spec => []CompletedWasDelivered
<1>1. Init => DeliveryInv
  BY DEF Init, DeliveryInv, CompletedWasDelivered
<1>2. DeliveryInv => CompletedWasDelivered
  BY DEF DeliveryInv
<1> QED BY <1>1, <1>2, DeliveryInductive, TypeCorrect, PTL DEF Spec

-----------------------------------------------------------------------------
(* Runners that do not share a row *)

(* What the guarantees below rest on: no two runners hold the same row.    *)
(* Two things bring it about: a single server process, which has one       *)
(* runner, or, while a deployment runs two, claims that are settled before *)
(* claim_timeout_seconds (30) are over.  Nothing in the code enforces the  *)
(* second: a goroutine may have 50 rows to publish, each up to 10 seconds. *)
Exclusive ==
  \A q, r \in Runners, e \in Events :
    job[q][e] # "none" /\ job[r][e] # "none" => q = r

SingleRunner == \A q, r \in Runners : q = r

Timely == \A r \in Runners, e \in Events : job[r][e] # "none" => status[e] # "expired"

(* Nobody else changes attempts between a claim and the settling of a row. *)
LEMMA SnapshotInductive ==
  BudgetInv /\ SnapshotIsCurrent /\ Exclusive /\ [Next]_vars => SnapshotIsCurrent'
<1> SUFFICES ASSUME TypeOK, SnapshotIsCurrent, Exclusive, [Next]_vars
             PROVE  SnapshotIsCurrent'
  BY DEF BudgetInv
<1> USE DEF TypeOK, SnapshotIsCurrent, rowVars, jobVars, history
<1>1. CASE UNCHANGED vars
  BY <1>1 DEF vars
<1>2. ASSUME NEW e \in Events, ClaimExpires(e)
      PROVE  SnapshotIsCurrent'
  BY <1>2 DEF ClaimExpires
<1>10. ASSUME NEW S \in SUBSET Events, Insert(S)
       PROVE  SnapshotIsCurrent'
  BY <1>10 DEF Insert
<1>3. ASSUME NEW r \in Runners, ClaimBatch(r)
      PROVE  SnapshotIsCurrent'
  <2>1. PICK S \in SUBSET Claimable :
          /\ MarkClaimed(S)
          /\ job' = [job EXCEPT ![r] =
               [e \in Events |-> IF e \in S /\ HasProcessor(e) THEN "queued" ELSE "none"]]
          /\ snap' = [snap EXCEPT ![r] =
               [e \in Events |-> IF e \in S /\ HasProcessor(e) THEN attempts[e] ELSE 0]]
    BY <1>3 DEF ClaimBatch, Batches
  <2>2. attempts' = attempts
    BY <1>3 DEF ClaimBatch
  <2> QED BY <2>1, <2>2 DEF MarkClaimed
<1>4. ASSUME NEW r \in Runners, ClaimAnswerLost(r)
      PROVE  SnapshotIsCurrent'
  BY <1>4 DEF ClaimAnswerLost, MarkClaimed
<1>5. ASSUME NEW r \in Runners, Crash(r)
      PROVE  SnapshotIsCurrent'
  BY <1>5 DEF Crash
<1>6. ASSUME NEW r \in Runners, NEW e \in Events, Process(r, e)
      PROVE  SnapshotIsCurrent'
  <2>1. PICK x \in Returned : job' = [job EXCEPT ![r][e] = x]
    BY <1>6 DEF Process, ProcessOk, ProcessFail
  <2>2. job[r][e] = "queued" /\ UNCHANGED <<status, attempts, snap>>
    BY <1>6 DEF Process, ProcessOk, ProcessFail, Call
  <2> QED BY <2>1, <2>2
<1>7. ASSUME NEW r \in Runners, NEW e \in Events, MarkCompleted(r, e)
      PROVE  SnapshotIsCurrent'
  BY <1>7 DEF MarkCompleted, Finish, Exclusive
<1>8. ASSUME NEW r \in Runners, NEW e \in Events, RecordFailure(r, e)
      PROVE  SnapshotIsCurrent'
  BY <1>8 DEF RecordFailure, FailWith, Finish, Exclusive
<1>9. ASSUME NEW r \in Runners, NEW e \in Events, SettleError(r, e)
      PROVE  SnapshotIsCurrent'
  BY <1>9 DEF SettleError, Finish
<1> QED
  BY <1>1, <1>2, <1>3, <1>4, <1>5, <1>6, <1>7, <1>8, <1>9, <1>10 DEF Next, Settle

(* As long as no two runners hold the same row, the snapshot ClaimBatch    *)
(* returned is never stale, although a claim may have expired.             *)
THEOREM SnapshotCorrect == Spec /\ []Exclusive => []SnapshotIsCurrent
<1>1. Init => SnapshotIsCurrent
  BY DEF Init, SnapshotIsCurrent
<1>2. BudgetInv /\ SnapshotIsCurrent /\ Exclusive /\ [Next]_vars => SnapshotIsCurrent'
  BY SnapshotInductive
<1> QED BY <1>1, <1>2, BudgetAlways, PTL DEF Spec

(* A single runner excludes itself: tick (runner.go) waits for its         *)
(* goroutines before it claims again.                                      *)
THEOREM SingleExcludes ==
  ASSUME SingleRunner
  PROVE  []Exclusive
<1>1. Exclusive
  BY DEF SingleRunner, Exclusive
<1> QED BY <1>1, PTL

(* A runner takes only rows whose claim expired from another one: as long  *)
(* as every runner settles a row or stops before its claim expires, any    *)
(* number of them never share one.                                         *)
LEMMA TimelyExcludes ==
  TypeOK /\ SnapshotIsCurrent /\ Exclusive /\ Timely /\ [Next]_vars => Exclusive'
<1> SUFFICES ASSUME TypeOK, SnapshotIsCurrent, Exclusive, Timely, [Next]_vars
             PROVE  Exclusive'
  OBVIOUS
<1> USE DEF TypeOK, Exclusive, rowVars, jobVars, history
<1>1. ASSUME \A r \in Runners, e \in Events : job'[r][e] # "none" => job[r][e] # "none"
      PROVE  Exclusive'
  BY <1>1
<1>2. CASE UNCHANGED vars
  BY <1>2 DEF vars
<1>3. ASSUME NEW e \in Events, ClaimExpires(e)
      PROVE  Exclusive'
  BY <1>3 DEF ClaimExpires
<1>10. ASSUME NEW S \in SUBSET Events, Insert(S)
       PROVE  Exclusive'
  BY <1>10 DEF Insert
<1>4. ASSUME NEW r \in Runners, ClaimBatch(r)
      PROVE  Exclusive'
  <2>1. PICK S \in SUBSET Claimable :
          job' = [job EXCEPT ![r] =
            [e \in Events |-> IF e \in S /\ HasProcessor(e) THEN "queued" ELSE "none"]]
    BY <1>4 DEF ClaimBatch, Batches
  <2>2. \A q \in Runners, e \in Events : job[q][e] # "none" => e \notin Claimable
    BY DEF SnapshotIsCurrent, Timely, Claimable
  <2>3. \A q \in Runners \ {r} : job'[q] = job[q]
    BY <2>1
  <2>4. \A e \in Events : job'[r][e] # "none" => e \in Claimable
    BY <2>1
  <2> QED BY ONLY <2>2, <2>3, <2>4, Exclusive DEF Exclusive
<1>5. ASSUME NEW r \in Runners, ClaimAnswerLost(r) \/ Crash(r)
      PROVE  Exclusive'
  <2>1. \/ job' = job
        \/ job' = [job EXCEPT ![r] = [e \in Events |-> "none"]]
    BY <1>5 DEF ClaimAnswerLost, Crash
  <2>0. job \in [Runners -> [Events -> Job]]
    OBVIOUS
  <2>2. \A q \in Runners, e \in Events : job'[q][e] # "none" => job[q][e] # "none"
    BY ONLY <2>0, <2>1
  <2> HIDE DEF Exclusive, TypeOK
  <2> QED BY <2>2, <1>1
<1>6. ASSUME NEW r \in Runners, NEW e \in Events, Process(r, e) \/ Settle(r, e) \/ SettleError(r, e)
      PROVE  Exclusive'
  <2>1. PICK x \in Job : job' = [job EXCEPT ![r][e] = x]
    BY <1>6 DEF Process, ProcessOk, ProcessFail, Settle, MarkCompleted, RecordFailure, FailWith,
              SettleError, Finish
  <2>2. job[r][e] # "none"
    BY <1>6 DEF Process, ProcessOk, ProcessFail, Call, Settle, MarkCompleted, RecordFailure,
              FailWith, SettleError
  <2>3. \A q \in Runners, d \in Events : job'[q][d] # "none" => job[q][d] # "none"
    BY <2>1, <2>2
  <2> HIDE DEF Exclusive, TypeOK
  <2> QED BY <2>3, <1>1
<1> QED BY <1>2, <1>3, <1>10, <1>4, <1>5, <1>6 DEF Next

(* Two servers of a deployment keep apart as long as each settles its rows *)
(* before their claims expire: the runners never share a row.              *)
THEOREM TimelyRunnersExclude == Spec /\ []Timely => []Exclusive
<1>1. Init => SnapshotIsCurrent /\ Exclusive
  BY DEF Init, SnapshotIsCurrent, Exclusive
<1>2. BudgetInv /\ SnapshotIsCurrent /\ Exclusive /\ Timely /\ [Next]_vars
        => (SnapshotIsCurrent /\ Exclusive)'
  BY SnapshotInductive, TimelyExcludes DEF BudgetInv
<1> QED BY <1>1, <1>2, BudgetAlways, PTL DEF Spec

-----------------------------------------------------------------------------
(* The retry budget *)

(* Every call is accounted for: by a recorded failure, by a fault that hid *)
(* its result, or by the one result that is on its way or was successful.  *)
ResultDue(e) == status[e] = "completed" \/ \E r \in Runners : job[r][e] \in Returned

CallsInv ==
  /\ \A e \in Events : ResultDue(e) => calls[e] <= attempts[e] + faults + 1
  /\ \A e \in Events : ~ResultDue(e) => calls[e] <= attempts[e] + faults
  /\ \A e \in Events : status[e] = "completed" => attempts[e] < MaxAttempts

(* Every call of Process is paid for by an attempt, a fault or the result  *)
(* that is due.                                                            *)
LEMMA CallsInductive ==
  BudgetInv /\ SnapshotIsCurrent /\ Exclusive /\ CallsInv /\ [Next]_vars => CallsInv'
<1> SUFFICES ASSUME TypeOK, AttemptsWithinBudget, SnapshotIsCurrent, Exclusive, CallsInv,
                    [Next]_vars
             PROVE  CallsInv'
  BY DEF BudgetInv
<1> USE OutboxAssumption DEF TypeOK, CallsInv, ResultDue, rowVars, jobVars, history
<1>1. CASE UNCHANGED vars
  BY <1>1 DEF vars
<1>2. ASSUME NEW e \in Events, ClaimExpires(e)
      PROVE  CallsInv'
  BY <1>2 DEF ClaimExpires
<1>10. ASSUME NEW S \in SUBSET Events, Insert(S)
       PROVE  CallsInv'
  BY <1>10 DEF Insert
<1>3. ASSUME NEW r \in Runners, ClaimBatch(r)
      PROVE  CallsInv'
  <2>1. PICK S \in SUBSET Claimable :
          /\ MarkClaimed(S)
          /\ job' = [job EXCEPT ![r] =
               [e \in Events |-> IF e \in S /\ HasProcessor(e) THEN "queued" ELSE "none"]]
    BY <1>3 DEF ClaimBatch, Batches
  <2>2. Idle(r) /\ UNCHANGED <<attempts, calls, faults>>
    BY <1>3 DEF ClaimBatch
  <2>3. \A e \in Events : ResultDue(e)' <=> ResultDue(e)
    BY <2>1, <2>2 DEF MarkClaimed, Idle, Claimable
  <2>4. \A e \in Events : status'[e] = "completed" => status[e] = "completed"
    BY <2>1 DEF MarkClaimed
  <2> HIDE DEF ResultDue
  <2> QED BY <2>2, <2>3, <2>4
<1>4. ASSUME NEW r \in Runners, ClaimAnswerLost(r)
      PROVE  CallsInv'
  <2>1. PICK S \in SUBSET Claimable : MarkClaimed(S)
    BY <1>4 DEF ClaimAnswerLost, Batches
  <2>2. faults' = faults + 1 /\ UNCHANGED <<attempts, job, calls>>
    BY <1>4 DEF ClaimAnswerLost
  <2> QED BY <2>1, <2>2 DEF MarkClaimed, Claimable
<1>5. ASSUME NEW r \in Runners, Crash(r)
      PROVE  CallsInv'
  <2>1. /\ faults' = faults + 1 /\ UNCHANGED <<status, attempts, calls>>
        /\ job' = [job EXCEPT ![r] = [e \in Events |-> "none"]]
    BY <1>5 DEF Crash
  <2>2. \A q \in Runners, e \in Events : job'[q][e] \in Returned => job[q][e] \in Returned
    BY <2>1 DEF Returned
  <2>3. \A e \in Events : ResultDue(e)' => ResultDue(e)
    BY ONLY <2>1, <2>2 DEF ResultDue
  <2> HIDE DEF ResultDue
  <2> QED BY <2>1, <2>3
<1>6. ASSUME NEW r \in Runners, NEW e \in Events, Process(r, e)
      PROVE  CallsInv'
  <2>1. PICK x \in Returned : job' = [job EXCEPT ![r][e] = x]
    BY <1>6 DEF Process, ProcessOk, ProcessFail
  <2>2. /\ job[r][e] = "queued"
        /\ calls' = [calls EXCEPT ![e] = @ + 1]
        /\ UNCHANGED <<status, attempts, faults>>
    BY <1>6 DEF Process, ProcessOk, ProcessFail, Call
  <2>3. ~ResultDue(e) /\ ResultDue(e)'
    <3>1. status[e] # "completed" /\ \A q \in Runners : q # r => job[q][e] = "none"
      BY <2>2 DEF SnapshotIsCurrent, Exclusive
    <3> QED BY <2>1, <2>2, <3>1 DEF Returned
  <2>4. \A d \in Events \ {e} : ResultDue(d)' <=> ResultDue(d)
    BY <2>1, <2>2
  <2> HIDE DEF ResultDue
  <2> QED BY <2>2, <2>3, <2>4
<1>7. ASSUME NEW r \in Runners, NEW e \in Events, MarkCompleted(r, e)
      PROVE  CallsInv'
  <2>1. /\ job[r][e] = "ok"
        /\ status' = [status EXCEPT ![e] = "completed"]
        /\ job' = [job EXCEPT ![r][e] = "none"]
        /\ UNCHANGED <<attempts, calls, faults>>
    BY <1>7 DEF MarkCompleted, Finish
  <2>2. ResultDue(e) /\ ResultDue(e)' /\ attempts[e] < MaxAttempts
    BY <2>1 DEF SnapshotIsCurrent, AttemptsWithinBudget
  <2>3. \A d \in Events \ {e} : ResultDue(d)' <=> ResultDue(d)
    BY <2>1
  <2> HIDE DEF ResultDue
  <2> QED BY <2>1, <2>2, <2>3
<1>8. ASSUME NEW r \in Runners, NEW e \in Events, RecordFailure(r, e)
      PROVE  CallsInv'
  <2>1. PICK verdict \in {"dead", "pending"} :
          /\ job[r][e] = "failed"
          /\ attempts' = [attempts EXCEPT ![e] = snap[r][e] + 1]
          /\ status' = [status EXCEPT ![e] = verdict]
          /\ job' = [job EXCEPT ![r][e] = "none"]
          /\ UNCHANGED <<calls, faults>>
    BY <1>8 DEF RecordFailure, FailWith, Finish
  <2>2. ResultDue(e) /\ attempts'[e] = attempts[e] + 1
    BY <2>1 DEF SnapshotIsCurrent
  <2>3. ~ResultDue(e)'
    BY <2>1 DEF Exclusive, SnapshotIsCurrent
  <2>4. \A d \in Events \ {e} : ResultDue(d)' <=> ResultDue(d)
    BY <2>1
  <2>5. \A d \in Events : status'[d] = "completed" => d # e /\ status[d] = "completed"
    BY <2>1
  <2> HIDE DEF ResultDue
  <2> QED BY <2>1, <2>2, <2>3, <2>4, <2>5
<1>9. ASSUME NEW r \in Runners, NEW e \in Events, SettleError(r, e)
      PROVE  CallsInv'
  <2>1. /\ job' = [job EXCEPT ![r][e] = "none"]
        /\ faults' = faults + 1
        /\ UNCHANGED <<status, attempts, calls>>
    BY <1>9 DEF SettleError, Finish
  <2>2. \A d \in Events : ResultDue(d)' => ResultDue(d)
    BY <2>1
  <2>3. \A d \in Events : calls'[d] <= attempts'[d] + faults'
    BY <2>1
  <2> HIDE DEF ResultDue
  <2> QED BY <2>1, <2>2, <2>3
<1> QED
  BY <1>1, <1>2, <1>3, <1>4, <1>5, <1>6, <1>7, <1>8, <1>9, <1>10 DEF Next, Settle

(* As long as no two runners hold the same row, it is handed to Process at *)
(* most maxAttempts times, plus once for each crash or failed write that   *)
(* hid a result.                                                           *)
THEOREM CallsCorrect == Spec /\ []Exclusive => []CallsWithinBudget
<1>1. Init => CallsInv
  BY OutboxAssumption DEF Init, CallsInv, ResultDue
<1>2. BudgetInv /\ SnapshotIsCurrent /\ Exclusive /\ CallsInv /\ [Next]_vars => CallsInv'
  BY CallsInductive
<1>3. BudgetInv /\ SnapshotIsCurrent /\ CallsInv => CallsWithinBudget
  <2> SUFFICES ASSUME BudgetInv, SnapshotIsCurrent, CallsInv, NEW e \in Events
               PROVE  calls[e] <= MaxAttempts + faults
    BY DEF CallsWithinBudget
  <2>1. CASE \E r \in Runners : job[r][e] \in Returned
    <3>1. attempts[e] < MaxAttempts
      BY <2>1 DEF BudgetInv, AttemptsWithinBudget, SnapshotIsCurrent
    <3> QED BY <2>1, <3>1, OutboxAssumption DEF BudgetInv, TypeOK, CallsInv, ResultDue
  <2>2. CASE status[e] = "completed"
    BY <2>2, OutboxAssumption DEF BudgetInv, TypeOK, CallsInv, ResultDue
  <2>3. CASE ~ResultDue(e)
    BY <2>3, OutboxAssumption DEF BudgetInv, TypeOK, CallsInv
  <2> QED BY <2>1, <2>2, <2>3 DEF ResultDue
<1> QED BY <1>1, <1>2, <1>3, BudgetAlways, SnapshotCorrect, PTL DEF Spec

-----------------------------------------------------------------------------
(* The outbox implements module Delivery *)

ContractInv == BudgetInv /\ DeliveryInv /\ SnapshotIsCurrent

(* What each Outbox step is to Delivery. *)
LEMMA OutcomeUnchanged ==
  ASSUME \A e \in Events : Outcome(e)' = Outcome(e),
         UNCHANGED <<attempts, delivered>>
  PROVE  UNCHANGED Contract!dvars
BY DEF Contract!dvars

(* RecordFailure's comparison with >= decides as = would.                  *)
LEMMA LastAttempt ==
  ASSUME NEW a \in 0..MaxAttempts, a < MaxAttempts
  PROVE  a + 1 >= MaxAttempts <=> a + 1 = MaxAttempts
BY OutboxAssumption

(* MarkCompleted is Confirm, and RecordFailure is Fail.                    *)
LEMMA SettleRefines ==
  ASSUME ContractInv, NEW r \in Runners, NEW e \in Events, MarkCompleted(r, e) \/ RecordFailure(r, e)
  PROVE  Contract!Confirm(e) \/ Contract!Fail(e)
<1> USE OutboxAssumption DEF ContractInv, BudgetInv, TypeOK, rowVars, jobVars, history
<1> DEFINE bar == [d \in Events |-> Outcome(d)]
<1>1. CASE MarkCompleted(r, e)
  <2>1. job[r][e] = "ok" /\ UNCHANGED <<attempts, delivered>>
    BY <1>1 DEF MarkCompleted
  <2>2. e \in delivered /\ bar[e] = "open"
    BY <2>1 DEF DeliveryInv, SnapshotIsCurrent, Outcome
  <2>3. bar' = [bar EXCEPT ![e] = "done"]
    BY <1>1 DEF MarkCompleted, Outcome
  <2> QED BY <2>1, <2>2, <2>3 DEF Contract!Confirm
<1>2. CASE RecordFailure(r, e)
  <2>1. /\ attempts' = [attempts EXCEPT ![e] = @ + 1]
        /\ delivered' = delivered
    BY <1>2 DEF RecordFailure, FailWith, SnapshotIsCurrent
  <2>2. bar[e] = "open" /\ attempts[e] < MaxAttempts
    BY <1>2 DEF RecordFailure, FailWith, SnapshotIsCurrent, AttemptsWithinBudget, Outcome
  <2>3. status' = [status EXCEPT ![e] =
          IF attempts[e] + 1 = MaxAttempts THEN "dead" ELSE "pending"]
    <3>1. job[r][e] = "failed" /\ snap[r][e] = attempts[e]
      BY <1>2 DEF RecordFailure, FailWith, SnapshotIsCurrent
    <3>2. status' = [status EXCEPT ![e] =
            IF snap[r][e] + 1 >= MaxAttempts THEN "dead" ELSE "pending"]
      BY <1>2 DEF RecordFailure, FailWith
    <3>3. (attempts[e] + 1 >= MaxAttempts) <=> (attempts[e] + 1 = MaxAttempts)
      BY <2>2, LastAttempt
    <3>4. (IF attempts[e] + 1 >= MaxAttempts THEN "dead" ELSE "pending")
            = (IF attempts[e] + 1 = MaxAttempts THEN "dead" ELSE "pending")
      BY <3>3
    <3> QED BY <3>1, <3>2, <3>4
  <2>4. bar' = [bar EXCEPT ![e] =
          IF attempts[e] + 1 = MaxAttempts THEN "abandoned" ELSE "open"]
    BY <2>3 DEF Outcome
  <2> QED BY <2>1, <2>2, <2>4 DEF Contract!Fail
<1> QED BY <1>1, <1>2

(* Insert is PostAll, a successful Process is Act, MarkCompleted is Confirm,   *)
(* RecordFailure is Fail; everything else is invisible to the contract.    *)
LEMMA StepRefines == ContractInv /\ [Next]_vars => [Contract!Next]_Contract!dvars
<1> SUFFICES ASSUME ContractInv, [Next]_vars
             PROVE  [Contract!Next]_Contract!dvars
  OBVIOUS
<1> USE OutboxAssumption DEF ContractInv, BudgetInv, TypeOK, rowVars, jobVars, history
<1> DEFINE bar == [e \in Events |-> Outcome(e)]
<1>1. CASE UNCHANGED vars
  BY <1>1, OutcomeUnchanged DEF vars, Outcome
<1>2. ASSUME NEW S \in SUBSET Events, Insert(S)
      PROVE  Contract!Next
  <2>1. /\ \A e \in S : bar[e] = "none"
        /\ bar' = [e \in Events |-> IF e \in S THEN "open" ELSE bar[e]]
        /\ UNCHANGED <<attempts, delivered>>
    BY <1>2 DEF Insert, Outcome
  <2> QED BY <2>1 DEF Contract!Next, Contract!PostAll
<1>3. ASSUME NEW e \in Events, ClaimExpires(e)
      PROVE  UNCHANGED Contract!dvars
  BY <1>3, OutcomeUnchanged DEF ClaimExpires, Outcome
<1>4. ASSUME NEW r \in Runners, ClaimBatch(r) \/ ClaimAnswerLost(r)
      PROVE  UNCHANGED Contract!dvars
  <2>1. PICK S \in SUBSET Claimable : MarkClaimed(S)
    BY <1>4 DEF ClaimBatch, ClaimAnswerLost, Batches
  <2>2. \A e \in Events : Outcome(e)' = Outcome(e)
    BY <2>1 DEF MarkClaimed, Claimable, Outcome
  <2> QED BY <1>4, <2>2, OutcomeUnchanged DEF ClaimBatch, ClaimAnswerLost
<1>5. ASSUME NEW r \in Runners, Crash(r)
      PROVE  UNCHANGED Contract!dvars
  BY <1>5, OutcomeUnchanged DEF Crash, Outcome
<1>6. ASSUME NEW r \in Runners, NEW e \in Events, Process(r, e)
      PROVE  [Contract!Next]_Contract!dvars
  <2>1. job[r][e] = "queued" /\ UNCHANGED <<status, attempts>>
    BY <1>6 DEF Process, ProcessOk, ProcessFail, Call
  <2>2. bar[e] = "open" /\ bar' = bar
    BY <2>1 DEF SnapshotIsCurrent, Outcome
  <2>3. delivered' = delivered \/ delivered' = delivered \cup {e}
    BY <1>6 DEF Process, ProcessOk, ProcessFail
  <2>4. CASE delivered' = delivered
    BY <2>1, <2>2, <2>4 DEF Contract!dvars
  <2>5. CASE delivered' = delivered \cup {e}
    BY <2>1, <2>2, <2>5 DEF Contract!Next, Contract!Act
  <2> QED BY <2>3, <2>4, <2>5
<1>7. ASSUME NEW r \in Runners, NEW e \in Events, MarkCompleted(r, e) \/ RecordFailure(r, e)
      PROVE  Contract!Next
  BY <1>7, SettleRefines DEF Contract!Next
<1>8. ASSUME NEW r \in Runners, NEW e \in Events, SettleError(r, e)
      PROVE  UNCHANGED Contract!dvars
  BY <1>8, OutcomeUnchanged DEF SettleError, Outcome
<1> QED
  BY <1>1, <1>2, <1>3, <1>4, <1>5, <1>6, <1>7, <1>8 DEF Next, Settle

(* As long as no two runners hold the same row, every row follows the      *)
(* contract of Delivery: done only after its effect, dead only after       *)
(* maxAttempts counted failures, and never taken up again after either.    *)
THEOREM OutboxImplementsDelivery == Spec /\ []Exclusive => ImplementsDelivery
<1>1. Init => ContractInv
  BY BudgetInitially DEF Init, ContractInv, DeliveryInv, CompletedWasDelivered, SnapshotIsCurrent
<1>2. ContractInv /\ Exclusive /\ [Next]_vars => ContractInv'
  BY BudgetInductive, DeliveryInductive, SnapshotInductive DEF ContractInv, BudgetInv
<1>3. Init => Contract!Init
  BY DEF Init, Contract!Init, Outcome
<1>4. ContractInv /\ [Next]_vars => [Contract!Next]_Contract!dvars
  BY StepRefines
<1> QED BY <1>1, <1>2, <1>3, <1>4, PTL DEF Spec, ImplementsDelivery, Contract!Spec

-----------------------------------------------------------------------------
(* The outbox implements module Claims *)

(* What a settled or dropped row is to Claims.                             *)
LEMMA RowLeaves ==
  ASSUME TypeOK, Exclusive, NEW r \in Runners, NEW e \in Events, job[r][e] # "none",
         job' = [job EXCEPT ![r][e] = "none"]
  PROVE  e \in InHand /\ InHand' = InHand \ {e}
<1>1. \A q \in Runners, d \in Events :
        job'[q][d] # "none" <=> job[q][d] # "none" /\ d # e
  BY DEF TypeOK, Exclusive
<1> QED BY <1>1 DEF InHand

(* Each step of the table and its runners is a step of Claims.             *)
LEMMA StepFollowsClaims ==
  ContractInv /\ Exclusive /\ Exclusive' /\ [Next]_vars => [Protocol!ClaimsNext]_Protocol!cvars
<1> SUFFICES ASSUME ContractInv, Exclusive, Exclusive', [Next]_vars
             PROVE  [Protocol!ClaimsNext]_Protocol!cvars
  OBVIOUS
<1> USE OutboxAssumption DEF ContractInv, BudgetInv, TypeOK, rowVars, jobVars, history
<1> DEFINE bar == [e \in Events |-> Outcome(e)]
<1>0. ASSUME \A e \in Events : Outcome(e)' = Outcome(e), UNCHANGED <<attempts, delivered>>
      PROVE  UNCHANGED Protocol!dvars
  BY <1>0 DEF Protocol!dvars
<1>1. CASE UNCHANGED vars
  BY <1>1, <1>0 DEF vars, Protocol!cvars, Protocol!dvars, Outcome, InHand, Missing
<1>2. ASSUME NEW S \in SUBSET Events, Insert(S)
      PROVE  Protocol!Commit
  <2>1. /\ \A e \in S : bar[e] = "none"
        /\ bar' = [e \in Events |-> IF e \in S THEN "open" ELSE bar[e]]
        /\ UNCHANGED <<attempts, delivered>>
    BY <1>2 DEF Insert, Outcome
  <2>2. InHand' = InHand
    BY <1>2 DEF Insert, InHand
  <2>3. Missing' = Missing
    BY <1>2, <2>2 DEF Insert, Missing
  <2> QED BY <2>1, <2>2, <2>3 DEF Protocol!Commit, Protocol!PostAll
<1>3. ASSUME NEW e \in Events, ClaimExpires(e)
      PROVE  Protocol!Expire(e) \/ UNCHANGED Protocol!cvars
  <2>1. UNCHANGED Protocol!dvars
    BY <1>3, <1>0 DEF ClaimExpires, Outcome
  <2>2. InHand' = InHand
    BY <1>3 DEF ClaimExpires, InHand
  <2>3. CASE e \in InHand
    <3>1. Missing' = Missing
      BY <1>3, <2>2, <2>3 DEF ClaimExpires, Missing
    <3> QED BY <2>1, <2>2, <3>1 DEF Protocol!cvars, Protocol!dvars
  <2>4. CASE e \notin InHand
    <3>1. e \in Missing /\ Missing' = Missing \ {e}
      BY <1>3, <2>2, <2>4 DEF ClaimExpires, Missing
    <3> QED BY <2>1, <2>2, <3>1 DEF Protocol!Expire
  <2> QED BY <2>3, <2>4
<1>4. ASSUME NEW r \in Runners, ClaimBatch(r)
      PROVE  \E S, missing \in SUBSET Events : Protocol!Claim(S, missing)
  <2>1. PICK B \in SUBSET Claimable :
          /\ MarkClaimed(B)
          /\ job' = [job EXCEPT ![r] =
               [e \in Events |-> IF e \in B /\ HasProcessor(e) THEN "queued" ELSE "none"]]
    BY <1>4 DEF ClaimBatch, Batches
  <2>2. UNCHANGED <<attempts, delivered>> /\ \A e \in Events : job[r][e] = "none"
    BY <1>4 DEF ClaimBatch, Idle
  <2> DEFINE S == {e \in B : HasProcessor(e)}
             missing == (B \ S) \ InHand
  <2>3. UNCHANGED Protocol!dvars
    BY <1>0, <2>1, <2>2 DEF MarkClaimed, Claimable, Outcome
  <2>4. \A q \in Runners, e \in Events :
          job'[q][e] # "none" <=> job[q][e] # "none" \/ (q = r /\ e \in S)
    BY <2>1, <2>2 DEF Claimable
  <2>5. InHand' = InHand \cup S
    BY <2>4 DEF InHand, Claimable
  <2>6. S \cap InHand = {}
    <3> SUFFICES ASSUME NEW e \in S, NEW q \in Runners, job[q][e] # "none"
                 PROVE  FALSE
      BY DEF InHand
    <3>1. e \in Events /\ job'[q][e] # "none" /\ job'[r][e] # "none"
      BY <2>4 DEF Claimable
    <3>2. q = r
      BY <3>1 DEF Exclusive
    <3> QED BY <2>2, <3>1, <3>2
  <2>7. \A e \in S \cup missing : bar[e] = "open" /\ e \notin InHand \cup Missing
    BY <2>6 DEF Claimable, Missing, Outcome
  <2>8. Missing' = Missing \cup missing
    <3>1. \A e \in Events : status'[e] = "processing" <=> status[e] = "processing" \/ e \in B
      BY <2>1 DEF MarkClaimed
    <3> HIDE DEF S
    <3>2. S \subseteq B /\ B \subseteq Events /\ \A e \in B : status[e] # "processing"
      BY DEF S, Claimable
    <3> QED BY <2>5, <2>6, <3>1, <3>2 DEF Missing
  <2>9. S \in SUBSET Events /\ missing \in SUBSET Events /\ S \cap missing = {}
    BY DEF Claimable
  <2> HIDE DEF S, missing
  <2>10. Protocol!Claim(S, missing)
    BY <2>3, <2>5, <2>7, <2>8, <2>9 DEF Protocol!Claim
  <2> QED BY <2>9, <2>10
<1>5. ASSUME NEW r \in Runners, ClaimAnswerLost(r)
      PROVE  \E S, missing \in SUBSET Events : Protocol!Claim(S, missing)
  <2>1. PICK B \in SUBSET Claimable : MarkClaimed(B)
    BY <1>5 DEF ClaimAnswerLost, Batches
  <2> DEFINE missing == B \ InHand
  <2>2. UNCHANGED <<attempts, delivered, job>>
    BY <1>5 DEF ClaimAnswerLost
  <2>3. UNCHANGED Protocol!dvars
    BY <1>0, <2>1, <2>2 DEF MarkClaimed, Claimable, Outcome
  <2>4. InHand' = InHand
    BY <2>2 DEF InHand
  <2>5. Missing' = Missing \cup missing
    BY <2>1, <2>4 DEF MarkClaimed, Missing, Claimable
  <2>6. \A e \in missing : bar[e] = "open" /\ e \notin InHand \cup Missing
    BY DEF Claimable, Missing, Outcome
  <2>7. missing \in SUBSET Events
    BY DEF Claimable
  <2> HIDE DEF missing
  <2>8. Protocol!Claim({}, missing)
    BY <2>3, <2>4, <2>5, <2>6 DEF Protocol!Claim
  <2> QED BY <2>7, <2>8
<1>6. ASSUME NEW r \in Runners, Crash(r)
      PROVE  \E S, missing \in SUBSET Events : Protocol!Drop(S, missing)
  <2> DEFINE S == {e \in Events : job[r][e] # "none"}
             missing == {e \in S : status[e] = "processing"}
  <2>1. UNCHANGED <<status, attempts, delivered>> /\ job' = [job EXCEPT ![r] = [e \in Events |-> "none"]]
    BY <1>6 DEF Crash
  <2>2. UNCHANGED Protocol!dvars
    BY <1>0, <2>1 DEF Outcome
  <2>3. \A q \in Runners, e \in Events : job'[q][e] # "none" <=> job[q][e] # "none" /\ e \notin S
    BY <2>1 DEF Exclusive
  <2>4. S \subseteq InHand
    BY DEF InHand
  <2>5. InHand' = InHand \ S
    <3> HIDE DEF S
    <3> QED BY <2>3 DEF InHand
  <2>6. Missing' = Missing \cup missing
    <3>1. missing = {e \in S : status[e] = "processing"} /\ S \subseteq Events
      OBVIOUS
    <3> HIDE DEF S, missing
    <3> QED BY <2>1, <2>4, <2>5, <3>1 DEF Missing
  <2>7. S \in SUBSET Events /\ missing \in SUBSET Events /\ missing \subseteq S
    OBVIOUS
  <2> HIDE DEF S, missing
  <2>8. Protocol!Drop(S, missing)
    BY <2>2, <2>4, <2>5, <2>6, <2>7 DEF Protocol!Drop
  <2> QED BY <2>7, <2>8
<1>7. ASSUME NEW r \in Runners, NEW e \in Events, Process(r, e)
      PROVE  Protocol!Work(e) \/ UNCHANGED Protocol!cvars
  <2>1. PICK x \in Returned : job' = [job EXCEPT ![r][e] = x]
    BY <1>7 DEF Process, ProcessOk, ProcessFail
  <2>2. job[r][e] = "queued" /\ UNCHANGED <<status, attempts>>
    BY <1>7 DEF Process, ProcessOk, ProcessFail, Call
  <2>3. bar[e] = "open" /\ bar' = bar
    BY <2>2 DEF SnapshotIsCurrent, Outcome
  <2>4. e \in InHand /\ InHand' = InHand
    <3>1. \A q \in Runners, d \in Events : job'[q][d] # "none" <=> job[q][d] # "none"
      BY <2>1, <2>2
    <3> QED BY <2>2, <3>1 DEF InHand
  <2>5. Missing' = Missing
    BY <2>2, <2>4 DEF Missing
  <2>6. delivered' = delivered \/ delivered' = delivered \cup {e}
    BY <1>7 DEF Process, ProcessOk, ProcessFail
  <2>7. CASE delivered' = delivered
    BY <2>2, <2>3, <2>4, <2>5, <2>7 DEF Protocol!cvars
  <2>8. CASE delivered' = delivered \cup {e}
    BY <2>2, <2>3, <2>4, <2>5, <2>8 DEF Protocol!Work, Protocol!Act
  <2> QED BY <2>6, <2>7, <2>8
<1>8. ASSUME NEW r \in Runners, NEW e \in Events, Settle(r, e)
      PROVE  Protocol!Settle(e)
  <2>1. job[r][e] # "none" /\ job' = [job EXCEPT ![r][e] = "none"]
    BY <1>8 DEF Settle, MarkCompleted, RecordFailure, FailWith, Finish
  <2>2. e \in InHand /\ InHand' = InHand \ {e}
    BY <2>1, RowLeaves
  <2>3. PICK verdict \in {"completed", "dead", "pending"} : status' = [status EXCEPT ![e] = verdict]
    BY <1>8 DEF Settle, MarkCompleted, RecordFailure, FailWith
  <2>4. Missing' = Missing
    BY <2>2, <2>3 DEF Missing
  <2>5. Protocol!Confirm(e) \/ Protocol!Fail(e)
    <3>1. Contract!Confirm(e) \/ Contract!Fail(e)
      BY <1>8, SettleRefines DEF Settle
    <3> QED BY <3>1 DEF Contract!Confirm, Contract!Fail, Protocol!Confirm, Protocol!Fail
  <2> QED BY <2>2, <2>4, <2>5 DEF Protocol!Settle
<1>9. ASSUME NEW r \in Runners, NEW e \in Events, SettleError(r, e)
      PROVE  \E S, missing \in SUBSET Events : Protocol!Drop(S, missing)
  <2>1. /\ job[r][e] # "none" /\ job' = [job EXCEPT ![r][e] = "none"]
        /\ UNCHANGED <<status, attempts, delivered>>
    BY <1>9 DEF SettleError, Finish
  <2>2. e \in InHand /\ InHand' = InHand \ {e}
    BY <2>1, RowLeaves
  <2>3. UNCHANGED Protocol!dvars
    BY <1>0, <2>1 DEF Outcome
  <2> DEFINE missing == IF status[e] = "processing" THEN {e} ELSE {}
  <2>4. Missing' = Missing \cup missing
    BY <2>1, <2>2 DEF Missing
  <2>5. Protocol!Drop({e}, missing)
    BY <2>2, <2>3, <2>4 DEF Protocol!Drop
  <2> QED BY <2>5
<1> QED
  BY <1>1, <1>2, <1>3, <1>4, <1>5, <1>6, <1>7, <1>8, <1>9 DEF Next, Protocol!ClaimsNext

(* As long as no two runners hold the same row, ClaimBatch, process and    *)
(* the writes of the results keep the protocol of Claims: a row is         *)
(* processed and settled by the runner that has it in hand, and taken up   *)
(* again only when it was settled or its claim expired.                    *)
THEOREM OutboxImplementsClaims == Spec /\ []Exclusive => ImplementsClaims
<1>1. Init => ContractInv
  BY BudgetInitially DEF Init, ContractInv, DeliveryInv, CompletedWasDelivered, SnapshotIsCurrent
<1>2. ContractInv /\ Exclusive /\ [Next]_vars => ContractInv'
  BY BudgetInductive, DeliveryInductive, SnapshotInductive DEF ContractInv, BudgetInv
<1>3. Init => Protocol!ClaimsInit
  BY DEF Init, Protocol!ClaimsInit, Protocol!Init, Outcome, InHand, Missing
<1>4. ContractInv /\ Exclusive /\ Exclusive' /\ [Next]_vars => [Protocol!ClaimsNext]_Protocol!cvars
  BY StepFollowsClaims
<1> QED BY <1>1, <1>2, <1>3, <1>4, PTL DEF Spec, ImplementsClaims, Protocol!ClaimsSpec

-----------------------------------------------------------------------------
(* Settled rows *)

(* What MarkCompleted and RecordFailure decided stays decided.             *)
FinalIsFinal ==
  [][\A e \in Events : status[e] \in Final => UNCHANGED <<status[e], attempts[e]>>]_vars

(* MarkCompleted and RecordFailure name their row by id only, yet they     *)
(* never meet a completed or dead one.                                     *)
LEMMA FinalStep ==
  TypeOK /\ SnapshotIsCurrent /\ [Next]_vars
    => [\A e \in Events : status[e] \in Final => UNCHANGED <<status[e], attempts[e]>>]_vars
<1> SUFFICES ASSUME TypeOK, SnapshotIsCurrent, [Next]_vars, NEW d \in Events, status[d] \in Final
             PROVE  status'[d] = status[d] /\ attempts'[d] = attempts[d]
  OBVIOUS
<1> USE DEF TypeOK, rowVars, jobVars, history
<1>1. CASE UNCHANGED vars
  BY <1>1 DEF vars
<1>2. ASSUME NEW e \in Events, ClaimExpires(e)
      PROVE  status'[d] = status[d] /\ attempts'[d] = attempts[d]
  BY <1>2 DEF ClaimExpires
<1>10. ASSUME NEW S \in SUBSET Events, Insert(S)
       PROVE  status'[d] = status[d] /\ attempts'[d] = attempts[d]
  BY <1>10 DEF Insert
<1>3. ASSUME NEW r \in Runners, ClaimBatch(r) \/ ClaimAnswerLost(r)
      PROVE  status'[d] = status[d] /\ attempts'[d] = attempts[d]
  <2>1. PICK S \in SUBSET Claimable : MarkClaimed(S)
    BY <1>3 DEF ClaimBatch, ClaimAnswerLost, Batches
  <2>2. attempts' = attempts
    BY <1>3 DEF ClaimBatch, ClaimAnswerLost
  <2> QED BY <2>1, <2>2 DEF MarkClaimed, Claimable
<1>4. ASSUME NEW r \in Runners, Crash(r)
      PROVE  status'[d] = status[d] /\ attempts'[d] = attempts[d]
  BY <1>4 DEF Crash
<1>5. ASSUME NEW r \in Runners, NEW e \in Events, Process(r, e) \/ SettleError(r, e)
      PROVE  status'[d] = status[d] /\ attempts'[d] = attempts[d]
  BY <1>5 DEF Process, ProcessOk, ProcessFail, Call, SettleError
<1>6. ASSUME NEW r \in Runners, NEW e \in Events, Settle(r, e)
      PROVE  status'[d] = status[d] /\ attempts'[d] = attempts[d]
  <2>1. job[r][e] # "none"
    BY <1>6 DEF Settle, MarkCompleted, RecordFailure, FailWith
  <2>2. e # d
    BY <2>1 DEF SnapshotIsCurrent
  <2> QED BY <1>6, <2>2 DEF Settle, MarkCompleted, RecordFailure, FailWith
<1> QED BY <1>1, <1>2, <1>3, <1>4, <1>5, <1>6, <1>10 DEF Next

(* As long as no two runners hold the same row, a completed row is never   *)
(* reopened and a dead one never revived: no late RecordFailure overwrites *)
(* the status that MarkCompleted wrote.                                    *)
THEOREM FinalCorrect == Spec /\ []Exclusive => FinalIsFinal
BY FinalStep, TypeCorrect, SnapshotCorrect, PTL DEF Spec, FinalIsFinal

(* With one server process the outbox keeps its whole promise, even when   *)
(* claims expire while the runner still works on them.                     *)
THEOREM SingleRunnerCorrect ==
  ASSUME SingleRunner
  PROVE  Spec => []SnapshotIsCurrent /\ []CallsWithinBudget /\ FinalIsFinal /\ ImplementsDelivery
BY SingleExcludes, SnapshotCorrect, CallsCorrect, FinalCorrect, OutboxImplementsDelivery, PTL

(* With any number of server processes it does so as long as each settles  *)
(* its rows before their claims expire; the servers may stop at any time.  *)
THEOREM TimelyRunnersCorrect ==
  Spec /\ []Timely
    => []SnapshotIsCurrent /\ []CallsWithinBudget /\ FinalIsFinal /\ ImplementsDelivery
BY TimelyRunnersExclude, SnapshotCorrect, CallsCorrect, FinalCorrect, OutboxImplementsDelivery, PTL
=============================================================================
