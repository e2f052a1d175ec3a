------------------------------- MODULE Outbox -------------------------------
(***************************************************************************)
(* The transactional outbox: the table outbox_events, the store that       *)
(* claims and settles its rows, and the runners that poll it               *)
(* (internal/outbox).  A server process has one runner; two run side by    *)
(* side while a deployment replaces one server by another.                 *)
(*                                                                         *)
(* A runner's tick claims a batch, starts one goroutine per event type and *)
(* waits for all of them.  A goroutine hands its rows one after the other  *)
(* to the processor of the type (Process) and then writes the result to    *)
(* the row (MarkCompleted or RecordFailure).  Every database call and      *)
(* every Process call is a step of its own, so other runners, API          *)
(* transactions, crashes and the passing of time come in between.          *)
(*                                                                         *)
(* ProcessFailSwallowed, the Claimable variants Unfiltered, PendingOnly    *)
(* and Fresh and the RecordFailure variants OffByOne, Uncounted and        *)
(* Requeues are wrong variants, not in Next: they serve to test that the   *)
(* properties notice.                                                      *)
(***************************************************************************)
EXTENDS Integers, FiniteSets

CONSTANTS
  Runners,      \* the server processes that run an outbox.Runner
  Events,       \* the rows ever inserted, each named by its created_at
  Types,        \* event types
  TypeOf,       \* the event_type of each row
  Registered,   \* the types that have a processor
  NoTimeout,    \* the types whose Process waits without a timeout
  MaxAttempts,  \* Runner.maxAttempts (5 in main.go)
  BatchSize,    \* batchSize (50), the LIMIT of ClaimBatch
  MaxFaults     \* bound of the model: crashes and database errors

ASSUME OutboxAssumption ==
  /\ Events \subseteq Nat
  /\ TypeOf \in [Events -> Types]
  /\ Registered \subseteq Types
  /\ NoTimeout \subseteq Types
  /\ MaxAttempts \in Nat \ {0}
  /\ BatchSize \in Nat \ {0}
  /\ MaxFaults \in Nat

VARIABLES
  status,     \* the row: column status, "absent" before its insert commits
  attempts,   \* the row: column attempts
  job,        \* runner memory: where the row is in the runner's batch
  snap,       \* runner memory: Event.Attempts as ClaimBatch returned it
  delivered,  \* history: the rows whose Process had its effect
  calls,      \* history: how often each row was handed to Process
  faults      \* bound: crashes and database errors so far

rowVars == <<status, attempts>>
jobVars == <<job, snap>>
history == <<delivered, calls>>
vars    == <<status, attempts, job, snap, delivered, calls, faults>>

(* "expired" is a processing row whose claimed_at is older than its        *)
(* claim_timeout_seconds.                                                  *)
Claimed == {"processing", "expired"}
Live    == {"pending"} \cup Claimed
Final   == {"completed", "dead"}
Status  == {"absent"} \cup Live \cup Final

(* A row of a batch waits for its goroutine, or Process has returned nil   *)
(* ("ok") or an error ("failed") and the row is about to be written.       *)
Returned == {"ok", "failed"}
Job      == {"none", "queued"} \cup Returned

TypeOK ==
  /\ status \in [Events -> Status]
  /\ attempts \in [Events -> 0..MaxAttempts]
  /\ job \in [Runners -> [Events -> Job]]
  /\ snap \in [Runners -> [Events -> 0..MaxAttempts]]
  /\ delivered \subseteq Events
  /\ calls \in [Events -> Nat]
  /\ faults \in 0..MaxFaults

Init ==
  /\ status = [e \in Events |-> "absent"]
  /\ attempts = [e \in Events |-> 0]
  /\ job = [r \in Runners |-> [e \in Events |-> "none"]]
  /\ snap = [r \in Runners |-> [e \in Events |-> 0]]
  /\ delivered = {}
  /\ calls = [e \in Events |-> 0]
  /\ faults = 0

-----------------------------------------------------------------------------
(* API transactions *)

(* A transaction commits that inserted one row or several.  created_at is  *)
(* the start of the transaction, so rows may appear in any order of it.    *)
Insert(S) ==
  /\ \A e \in S : status[e] = "absent"
  /\ status' = [e \in Events |-> IF e \in S THEN "pending" ELSE status[e]]
  /\ UNCHANGED <<attempts, jobVars, history, faults>>

-----------------------------------------------------------------------------
(* The runner *)

Idle(r) == \A e \in Events : job[r][e] = "none"

ClaimableUnfiltered == {e \in Events : status[e] \notin {"absent", "completed"}}
ClaimablePendingOnly == {e \in Events : status[e] = "pending"}
ClaimableFresh ==
  {e \in Events : status[e] = "expired" \/ (status[e] = "pending" /\ attempts[e] = 0)}
Claimable == {e \in Events : status[e] \in {"pending", "expired"}}

(* Rows that another runner is just writing may be locked. *)
Lockable(r) == {e \in Events : \E q \in Runners \ {r} : job[q][e] \in Returned}

(* ORDER BY created_at FOR UPDATE SKIP LOCKED LIMIT BatchSize *)
IsBatch(S, C) ==
  /\ S \subseteq C
  /\ Cardinality(S) <= BatchSize
  /\ S = C \/ Cardinality(S) = BatchSize
  /\ \A e \in S, d \in C \ S : e < d

Batches(r) ==
  {S \in (SUBSET Claimable) \ {{}} :
     \E locked \in SUBSET (Lockable(r) \cap Claimable) :
        IsBatch(S, Claimable \ locked)}

MarkClaimed(S) == status' = [e \in Events |-> IF e \in S THEN "processing" ELSE status[e]]

HasProcessor(e) == TypeOf[e] \in Registered

(* The start of tick.  Rows without a processor are claimed and dropped.   *)
ClaimBatch(r) ==
  /\ Idle(r)
  /\ \E S \in Batches(r) :
       /\ MarkClaimed(S)
       /\ job' = [job EXCEPT ![r] =
            [e \in Events |-> IF e \in S /\ HasProcessor(e) THEN "queued" ELSE "none"]]
       /\ snap' = [snap EXCEPT ![r] =
            [e \in Events |-> IF e \in S /\ HasProcessor(e) THEN attempts[e] ELSE 0]]
  /\ UNCHANGED <<attempts, history, faults>>

(* The UPDATE commits and its result is lost: tick returns on the error.   *)
ClaimAnswerLost(r) ==
  /\ faults < MaxFaults
  /\ Idle(r)
  /\ \E S \in Batches(r) : MarkClaimed(S)
  /\ faults' = faults + 1
  /\ UNCHANGED <<attempts, jobVars, history>>

(* The goroutine of the row's type has no other row in hand. *)
GoroutineFree(r, e) ==
  \A d \in Events : TypeOf[d] = TypeOf[e] => job[r][d] \notin Returned

Call(r, e) ==
  /\ job[r][e] = "queued"
  /\ GoroutineFree(r, e)
  /\ calls' = [calls EXCEPT ![e] = @ + 1]
  /\ UNCHANGED <<rowVars, snap, faults>>

ProcessOk(r, e) ==
  /\ Call(r, e)
  /\ job' = [job EXCEPT ![r][e] = "ok"]
  /\ delivered' = delivered \cup {e}

ProcessFailSwallowed(r, e) ==
  /\ Call(r, e)
  /\ job' = [job EXCEPT ![r][e] = "ok"]
  /\ UNCHANGED delivered

(* An error may hide an effect: a publish that times out may have been     *)
(* sent, a credential may exist although its answer was lost.              *)
ProcessFail(r, e) ==
  /\ Call(r, e)
  /\ job' = [job EXCEPT ![r][e] = "failed"]
  /\ delivered' \in {delivered, delivered \cup {e}}

(* process returns: the goroutine drops its copy of the event. *)
Finish(r, e) ==
  /\ job' = [job EXCEPT ![r][e] = "none"]
  /\ snap' = [snap EXCEPT ![r][e] = 0]

(* The UPDATE names the row by id only: it overwrites any status. *)
MarkCompleted(r, e) ==
  /\ job[r][e] = "ok"
  /\ status' = [status EXCEPT ![e] = "completed"]
  /\ Finish(r, e)
  /\ UNCHANGED <<attempts, history, faults>>

FailWith(r, e, newAttempts, verdict) ==
  /\ job[r][e] = "failed"
  /\ attempts' = [attempts EXCEPT ![e] = newAttempts]
  /\ status' = [status EXCEPT ![e] = verdict]
  /\ UNCHANGED <<history, faults>>

RecordFailureOffByOne(r, e) ==
  /\ FailWith(r, e, snap[r][e] + 1, IF snap[r][e] >= MaxAttempts THEN "dead" ELSE "pending")
  /\ Finish(r, e)

RecordFailureUncounted(r, e) ==
  /\ FailWith(r, e, snap[r][e], IF snap[r][e] >= MaxAttempts THEN "dead" ELSE "pending")
  /\ Finish(r, e)

(* attempts and status come from the snapshot taken by the claim. *)
RecordFailure(r, e) ==
  /\ LET newAttempts == snap[r][e] + 1
     IN  FailWith(r, e, newAttempts, IF newAttempts >= MaxAttempts THEN "dead" ELSE "pending")
  /\ Finish(r, e)

(* The write fails: process only logs it and takes the next row. *)
SettleError(r, e) ==
  /\ faults < MaxFaults
  /\ job[r][e] \in Returned
  /\ Finish(r, e)
  /\ faults' = faults + 1
  /\ UNCHANGED <<rowVars, history>>

(* The server process stops between two steps and starts again. *)
Crash(r) ==
  /\ faults < MaxFaults
  /\ ~Idle(r)
  /\ job' = [job EXCEPT ![r] = [e \in Events |-> "none"]]
  /\ snap' = [snap EXCEPT ![r] = [e \in Events |-> 0]]
  /\ faults' = faults + 1
  /\ UNCHANGED <<rowVars, history>>

(* Time: claimed_at falls behind now() - claim_timeout_seconds. *)
ClaimExpires(e) ==
  /\ status[e] = "processing"
  /\ status' = [status EXCEPT ![e] = "expired"]
  /\ UNCHANGED <<attempts, jobVars, history, faults>>

Process(r, e) == ProcessOk(r, e) \/ ProcessFail(r, e)
Settle(r, e)  == MarkCompleted(r, e) \/ RecordFailure(r, e)

Next ==
  \/ \E S \in SUBSET Events : Insert(S)
  \/ \E e \in Events : ClaimExpires(e)
  \/ \E r \in Runners : ClaimBatch(r) \/ ClaimAnswerLost(r) \/ Crash(r)
  \/ \E r \in Runners, e \in Events : Process(r, e) \/ Settle(r, e) \/ SettleError(r, e)

Spec == Init /\ [][Next]_vars

(* The ticker keeps ticking, the database answers in the end and time      *)
(* passes.  Process returns in the end for the types whose calls have a    *)
(* timeout; the HTTP clients of the broker APIs have none.  Inserts,       *)
(* faults and the outcome of a call are not fair.                          *)
Fairness ==
  /\ \A r \in Runners : WF_vars(ClaimBatch(r))
  /\ \A r \in Runners, e \in Events :
       /\ TypeOf[e] \notin NoTimeout => WF_vars(Process(r, e))
       /\ WF_vars(Settle(r, e) \/ SettleError(r, e))
  /\ \A e \in Events : WF_vars(ClaimExpires(e))

FairSpec == Spec /\ Fairness

-----------------------------------------------------------------------------
(* Properties for any number of runners *)

(* RecordFailure computes attempts and the verdict dead from a snapshot    *)
(* that other runners may have made stale.  Whatever they did meanwhile, a *)
(* row that can still be processed has attempts left and a dead row has    *)
(* used all of them; no runner holds a row whose next failure would pass   *)
(* maxAttempts unnoticed.                                                  *)
AttemptsWithinBudget ==
  /\ \A e \in Events : status[e] \in Live => attempts[e] < MaxAttempts
  /\ \A e \in Events : status[e] = "dead" => attempts[e] = MaxAttempts
  /\ \A r \in Runners, e \in Events : job[r][e] # "none" => snap[r][e] < MaxAttempts

(* At-least-once: a completed row had its effect, whichever runner marked  *)
(* it and however many crashes, lost answers and reclaims came before.     *)
CompletedWasDelivered ==
  \A e \in Events : status[e] = "completed" => e \in delivered

(* Every row that has a processor ends completed or dead and stays so,     *)
(* although a late runner may reopen a completed row for a while, unless a *)
(* runner hangs forever in a Process that has no timeout: its tick waits   *)
(* for all goroutines, so it never claims again.                           *)
Hung == \E r \in Runners, e \in Events :
          job[r][e] = "queued" /\ TypeOf[e] \in NoTimeout

SettledUnlessHung ==
  \A e \in Events :
    HasProcessor(e) /\ status[e] # "absent" ~> [](status[e] \in Final) \/ []Hung

-----------------------------------------------------------------------------
(* Properties of a single runner *)

(* A row in the runner's hands is claimed by it in the table and its       *)
(* attempts are still those of the snapshot, so RecordFailure never loses  *)
(* an increment, even when the claim expired long ago.                     *)
SnapshotIsCurrent ==
  \A r \in Runners, e \in Events :
    job[r][e] # "none" => status[e] \in Claimed /\ attempts[e] = snap[r][e]

(* Process is called at most maxAttempts times for a row, and once more    *)
(* for every crash or failed write that hid the result of a call.          *)
CallsWithinBudget ==
  \A e \in Events : calls[e] <= MaxAttempts + faults

(* With a single runner the table keeps the contract of module Delivery:   *)
(* every failure is counted, a row is confirmed only after its effect, and *)
(* completed and dead are final.                                           *)
Outcome(e) ==
  CASE status[e] = "absent"    -> "none"
    [] status[e] \in Live      -> "open"
    [] status[e] = "completed" -> "done"
    [] status[e] = "dead"      -> "abandoned"

Contract == INSTANCE Delivery WITH
  Items <- Events, MaxFailures <- MaxAttempts,
  outcome <- [e \in Events |-> Outcome(e)], failures <- attempts, effect <- delivered

ImplementsDelivery == Contract!Spec

(* It keeps it with the claims: a row is processed and settled only by the *)
(* runner that has it in hand, and a row whose claim got lost waits until  *)
(* the claim expires (module Claims).                                      *)
InHand  == {e \in Events : \E r \in Runners : job[r][e] # "none"}
Missing == {e \in Events : status[e] = "processing"} \ InHand

Protocol == INSTANCE Claims WITH
  Items <- Events, MaxFailures <- MaxAttempts,
  outcome <- [e \in Events |-> Outcome(e)], failures <- attempts, effect <- delivered,
  hand <- InHand, stuck <- Missing

ImplementsClaims == Protocol!ClaimsSpec

=============================================================================
