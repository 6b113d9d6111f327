------------------------------ MODULE JobQueue ------------------------------
(***************************************************************************)
(* The durable job queue: SQLiteJobQueue over the DurableJob rows.         *)
(*                                                                         *)
(* Every public operation of the class is one BEGIN IMMEDIATE transaction, *)
(* so it is one action here.  Callers are not constrained: any worker may  *)
(* call any operation on any job at any time; JobWorkers and ApiJobs       *)
(* restrict the callers to the two programs that use the queue.            *)
(*                                                                         *)
(* Absolute times are kept as the seconds that remain: "lease" is          *)
(* lease_expires_at minus now, "delay" is available_at minus now, both cut *)
(* off at zero, where the code's comparisons stop telling values apart.    *)
(***************************************************************************)
EXTENDS Integers, FiniteSets

CONSTANTS
  Jobs,           \* one job specification per idempotency key
  Workers,        \* worker identities that may hold a lease
  Providers,
  ProviderOf,     \* spec.provider
  Priority,       \* spec.priority, the smaller number first
  MaxAttempts,    \* spec.maximum_attempts
  MaxQueueDepth,  \* JobAdmissionPolicy.maximum_queue_depth
  MaxActive,      \* JobAdmissionPolicy.maximum_active_jobs
  ProviderLimit,  \* JobAdmissionPolicy.provider_limit
  LeaseSeconds,   \* lease_seconds of claim and renew_lease
  MaxDelay,       \* the longest retry_delay_seconds a caller asks for
  Operations,     \* keys of paid operations
  Results,        \* result references a worker may report
  NoWorker, NoResult

ASSUME JobsAssumption == IsFiniteSet(Jobs)
ASSUME WorkersAssumption == NoWorker \notin Workers
ASSUME ResultsAssumption == NoResult \notin Results
ASSUME SpecAssumption ==
  /\ ProviderOf \in [Jobs -> Providers]
  /\ Priority \in [Jobs -> Nat]
  /\ MaxAttempts \in [Jobs -> Nat \ {0}]
ASSUME PolicyAssumption ==
  /\ MaxQueueDepth \in Nat \ {0}
  /\ MaxActive \in Nat \ {0}
  /\ ProviderLimit \in [Providers -> Nat \ {0}]
ASSUME TimeAssumption == LeaseSeconds \in Nat \ {0} /\ MaxDelay \in Nat

VARIABLES
  row,      \* durable_jobs: the payload column of each job
  audit,    \* job_audit_events: the claims so far, and the last transition
  receipt   \* job_operation_receipts

vars == <<row, audit, receipt>>

-----------------------------------------------------------------------------
Waiting  == {"queued", "retryable"}
Active   == {"running", "cancelling"}
Terminal == {"cancelled", "completed", "failed", "dead_letter"}
Status   == {"absent", "interrupted"} \union Waiting \union Active \union Terminal

\* LEASE_RENEWED events are not transitions and are not remembered.
AuditAction ==
  {"none", "enqueued", "claimed", "cancellation_requested", "cancelled",
   "interrupted", "resumed", "completed", "retry_scheduled", "failed",
   "dead_lettered", "lease_recovered"}

FailureClass == {"transient", "permanent"}

Row == [status   : Status,
        attempts : Nat,
        owner    : Workers \union {NoWorker},
        lease    : Nat,
        delay    : Nat,
        cancel   : BOOLEAN,        \* cancellation_requested_at is set
        result   : Results \union {NoResult},
        created  : Nat]            \* rank of created_at

NoRow == [status |-> "absent", attempts |-> 0, owner |-> NoWorker,
          lease |-> 0, delay |-> 0, cancel |-> FALSE, result |-> NoResult,
          created |-> 0]

InStatus(S) == {j \in Jobs : row[j].status \in S}
Enqueued    == {j \in Jobs : row[j].status # "absent"}
ActiveOf(p) == {j \in InStatus(Active) : ProviderOf[j] = p}

\* Mutant of Loads: the attempts validator is dropped.
LoadsAnyRow(j) == row[j].status # "absent"

\* DurableJob.model_validate_json raises on a row whose attempts exceed the
\* maximum, so every operation that reads such a row fails.
Loads(j) == row[j].status # "absent" /\ row[j].attempts <= MaxAttempts[j]

\* Mutant of Owned: the owner is not compared.
OwnedByAnyone(j, w) == Loads(j) /\ row[j].status \in Active

\* _owned looks at the owner and the status; it does not look at the expiry.
Owned(j, w) == Loads(j) /\ row[j].status \in Active /\ row[j].owner = w

\* Mutant of Released: the owner is left in the row.
KeepsOwner(r) == [r EXCEPT !.lease = 0]

Released(r) == [r EXCEPT !.owner = NoWorker, !.lease = 0]

Save(j, r) == row' = [row EXCEPT ![j] = r]

Audit(j, action) ==
  audit' = [audit EXCEPT ![j] =
              [last   |-> action,
               claims |-> @.claims + (IF action = "claimed" THEN 1 ELSE 0)]]

-----------------------------------------------------------------------------
Init ==
  /\ row = [j \in Jobs |-> NoRow]
  /\ audit = [j \in Jobs |-> [last |-> "none", claims |-> 0]]
  /\ receipt = [j \in Jobs |-> [o \in Operations |-> "none"]]

\* A second enqueue of the same key returns the stored job and writes nothing.
Enqueue(j) ==
  /\ row[j].status = "absent"
  /\ Cardinality(InStatus(Waiting)) < MaxQueueDepth
  /\ Save(j, [NoRow EXCEPT !.status = "queued", !.created = Cardinality(Enqueued)])
  /\ Audit(j, "enqueued")
  /\ UNCHANGED receipt

\* Mutant of Candidates: interrupted jobs are claimed without their resume.
CandidatesWithInterrupted ==
  {j \in InStatus(Waiting \union {"interrupted"}) : row[j].delay = 0}

\* Mutant of Candidates: jobs that wait for their retry are never claimed.
CandidatesQueuedOnly == {j \in InStatus({"queued"}) : row[j].delay = 0}

Candidates == {j \in InStatus(Waiting) : row[j].delay = 0}

\* Mutant of HasProviderSlot: <= for <.
ProviderSlotOffByOne(j) ==
  Cardinality(ActiveOf(ProviderOf[j])) <= ProviderLimit[ProviderOf[j]]

HasProviderSlot(j) ==
  Cardinality(ActiveOf(ProviderOf[j])) < ProviderLimit[ProviderOf[j]]

\* ORDER BY priority ASC, created_at ASC
Before(k, j) ==
  \/ Priority[k] < Priority[j]
  \/ Priority[k] = Priority[j] /\ row[k].created < row[j].created

Claimable(j) ==
  /\ Cardinality(InStatus(Active)) < MaxActive
  /\ j \in Candidates
  /\ HasProviderSlot(j)
  /\ \A k \in Candidates : Before(k, j) => Loads(k) /\ ~HasProviderSlot(k)
  /\ Loads(j)

\* The claimed row is written by model_copy, which runs no validator.
Claim(j, w) ==
  /\ Claimable(j)
  /\ Save(j, [row[j] EXCEPT !.status = "running", !.attempts = @ + 1,
                            !.owner = w, !.lease = LeaseSeconds])
  /\ Audit(j, "claimed")
  /\ UNCHANGED receipt

\* An expired lease that nobody recovered yet is renewed like any other.
RenewLease(j, w) ==
  /\ Owned(j, w)
  /\ Save(j, [row[j] EXCEPT !.lease = LeaseSeconds])
  /\ UNCHANGED <<audit, receipt>>

RequestCancellation(j) ==
  /\ Loads(j)
  /\ \/ /\ row[j].status \in Waiting \union {"interrupted"}
        /\ Save(j, [row[j] EXCEPT !.status = "cancelled", !.cancel = TRUE])
        /\ Audit(j, "cancelled")
     \/ /\ row[j].status = "running"
        /\ Save(j, [row[j] EXCEPT !.status = "cancelling", !.cancel = TRUE])
        /\ Audit(j, "cancellation_requested")
  /\ UNCHANGED receipt

\* A boundary call on a job that is not being cancelled changes nothing.
SafeBoundary(j, w) ==
  /\ Owned(j, w)
  /\ row[j].status = "cancelling"
  /\ Save(j, [Released(row[j]) EXCEPT !.status = "cancelled"])
  /\ Audit(j, "cancelled")
  /\ UNCHANGED receipt

\* _finish_active: the common body of interrupt and complete.
FinishActive(j, w, status, result) ==
  /\ Owned(j, w)
  /\ row[j].status # "cancelling"
  /\ Save(j, [Released(row[j]) EXCEPT !.status = status, !.result = result])
  /\ Audit(j, status)
  /\ UNCHANGED receipt

Interrupt(j, w) == FinishActive(j, w, "interrupted", NoResult)

Complete(j, w, result) == FinishActive(j, w, "completed", result)

\* Mutant of Resume: the event is not appended.
ResumeUnaudited(j) ==
  /\ Loads(j)
  /\ row[j].status = "interrupted"
  /\ Save(j, [row[j] EXCEPT !.status = "queued", !.delay = 0])
  /\ UNCHANGED <<audit, receipt>>

Resume(j) ==
  /\ Loads(j)
  /\ row[j].status = "interrupted"
  /\ Save(j, [row[j] EXCEPT !.status = "queued", !.delay = 0])
  /\ Audit(j, "resumed")
  /\ UNCHANGED receipt

CompleteInterrupted(j, result) ==
  /\ Loads(j)
  /\ row[j].status = "interrupted"
  /\ Save(j, [row[j] EXCEPT !.status = "completed", !.result = result])
  /\ Audit(j, "completed")
  /\ UNCHANGED receipt

\* Mutant of FailureOutcome: the audit action is written into the status column.
FailureOutcomeAsStatus(j, class) ==
  IF class = "transient" /\ row[j].attempts < MaxAttempts[j]
  THEN [status |-> "retry_scheduled", action |-> "retry_scheduled"]
  ELSE [status |-> "dead_letter", action |-> "dead_lettered"]

\* The status and the audit action of a failed attempt.
FailureOutcome(j, class) ==
  IF class = "transient"
  THEN IF row[j].attempts < MaxAttempts[j]
       THEN [status |-> "retryable", action |-> "retry_scheduled"]
       ELSE [status |-> "dead_letter", action |-> "dead_lettered"]
  ELSE [status |-> "failed", action |-> "failed"]

Fail(j, w, class, delay) ==
  /\ Owned(j, w)
  /\ Save(j, [Released(row[j]) EXCEPT !.status = FailureOutcome(j, class).status,
                                      !.delay = delay])
  /\ Audit(j, FailureOutcome(j, class).action)
  /\ UNCHANGED receipt

\* Mutant of Expired: jobs that are being cancelled keep their lease.
ExpiredRunning == {j \in InStatus({"running"}) : row[j].lease = 0}

Expired == {j \in InStatus(Active) : row[j].lease = 0}

RecoveredStatus(j) ==
  CASE row[j].status = "cancelling"        -> "cancelled"
    [] row[j].status # "cancelling"
       /\ row[j].attempts < MaxAttempts[j] -> "retryable"
    [] OTHER                               -> "dead_letter"

\* One transaction over all active rows: one row that cannot be read makes it
\* raise, and then no lease is recovered.
RecoverExpiredLeases ==
  /\ Expired # {}
  /\ \A j \in InStatus(Active) : Loads(j)
  /\ row' = [j \in Jobs |->
               IF j \in Expired
               THEN [Released(row[j]) EXCEPT !.status = RecoveredStatus(j),
                                             !.delay = 0]
               ELSE row[j]]
  /\ audit' = [j \in Jobs |->
                 IF j \in Expired
                 THEN [audit[j] EXCEPT !.last = "lease_recovered"]
                 ELSE audit[j]]
  /\ UNCHANGED receipt

\* Mutant of BeginOperation: only a completed receipt refuses the reservation.
BeginUnlessCompleted(j, o) ==
  /\ Loads(j)
  /\ receipt[j][o] # "completed"
  /\ receipt' = [receipt EXCEPT ![j][o] = "reserved"]
  /\ UNCHANGED <<row, audit>>

\* Neither receipt operation looks at the status or the owner of the job, and
\* begin_operation answers False when the receipt exists.
BeginOperation(j, o) ==
  /\ Loads(j)
  /\ receipt[j][o] = "none"
  /\ receipt' = [receipt EXCEPT ![j][o] = "reserved"]
  /\ UNCHANGED <<row, audit>>

CompleteOperation(j, o) ==
  /\ receipt[j][o] = "reserved"
  /\ receipt' = [receipt EXCEPT ![j][o] = "completed"]
  /\ UNCHANGED <<row, audit>>

\* One second passes for every row.
Decrement(n) == IF n > 0 THEN n - 1 ELSE 0

Tick ==
  /\ \E j \in Jobs : row[j].lease > 0 \/ row[j].delay > 0
  /\ row' = [j \in Jobs |->
               [row[j] EXCEPT !.lease = Decrement(@), !.delay = Decrement(@)]]
  /\ UNCHANGED <<audit, receipt>>

-----------------------------------------------------------------------------
WorkerCall(j, w) ==
  \/ Claim(j, w)
  \/ RenewLease(j, w)
  \/ SafeBoundary(j, w)
  \/ Interrupt(j, w)
  \/ \E result \in Results : Complete(j, w, result)
  \/ \E class \in FailureClass, delay \in 0 .. MaxDelay : Fail(j, w, class, delay)

ClientCall(j) ==
  \/ Enqueue(j)
  \/ RequestCancellation(j)
  \/ Resume(j)
  \/ \E result \in Results : CompleteInterrupted(j, result)
  \/ \E o \in Operations : BeginOperation(j, o) \/ CompleteOperation(j, o)

Next ==
  \/ \E j \in Jobs, w \in Workers : WorkerCall(j, w)
  \/ \E j \in Jobs : ClientCall(j)
  \/ RecoverExpiredLeases
  \/ Tick

Spec == Init /\ [][Next]_vars
-----------------------------------------------------------------------------
\* The tables hold values of their columns' types.
TypeOK ==
  /\ row \in [Jobs -> Row]
  /\ audit \in [Jobs -> [last : AuditAction, claims : Nat]]
  /\ receipt \in [Jobs -> [Operations -> {"none", "reserved", "completed"}]]

\* DurableJob.validate_lease: exactly the active jobs hold a lease.  The
\* operations write rows by model_copy, which skips the validator, so each of
\* them has to maintain it or the row cannot be read again.
LeaseInv ==
  \A j \in Jobs :
    /\ row[j].status \in Active <=> row[j].owner # NoWorker
    /\ row[j].lease > 0 => row[j].status \in Active

\* The global and the per-provider limits bound the jobs that hold a lease,
\* a job being cancelled included, however claims, failures, recoveries and
\* cancellations interleave.
CapacityInv ==
  /\ Cardinality(InStatus(Active)) <= MaxActive
  /\ \A p \in Providers : Cardinality(ActiveOf(p)) <= ProviderLimit[p]

\* The audit events a job may end with in each status.
LastEvents(status) ==
  CASE status = "absent"      -> {"none"}
    [] status = "queued"      -> {"enqueued", "resumed"}
    [] status = "running"     -> {"claimed"}
    [] status = "interrupted" -> {"interrupted"}
    [] status = "cancelling"  -> {"cancellation_requested"}
    [] status = "cancelled"   -> {"cancelled", "lease_recovered"}
    [] status = "completed"   -> {"completed"}
    [] status = "failed"      -> {"failed"}
    [] status = "retryable"   -> {"retry_scheduled", "lease_recovered"}
    [] status = "dead_letter" -> {"dead_lettered", "lease_recovered"}

\* The audit trail accounts for the job: it has one CLAIMED event for every
\* attempt the row counts, and its last transition explains the status.
AuditInv ==
  \A j \in Jobs :
    /\ audit[j].claims = row[j].attempts
    /\ audit[j].last \in LastEvents(row[j].status)

\* A job exceeds its attempts by at most one, and only while it is running:
\* the next read of that row raises, so it never leaves that status.
OvershootInv ==
  \A j \in Jobs :
    row[j].attempts > MaxAttempts[j] =>
      /\ row[j].attempts = MaxAttempts[j] + 1
      /\ row[j].status = "running"

\* Exactly the completed jobs carry a result reference, which the API resolves
\* to the investigation it shows; a retried or resumed job has no stale one.
ResultInv ==
  \A j \in Jobs : row[j].status = "completed" <=> row[j].result # NoResult

\* TERMINAL_JOB_STATUSES are final: no late worker, client or recovery changes
\* anything of a terminal row but the time that passes.
TerminalIsFinal ==
  [][\A j \in Jobs :
       row[j].status \in Terminal =>
         row'[j] = [row[j] EXCEPT !.delay = row'[j].delay]]_vars

\* domain/jobs.py: "attempts may not exceed maximum attempts".
AttemptsBounded == \A j \in Jobs : row[j].attempts <= MaxAttempts[j]

\* No more jobs run or wait to run than admission and the active limit allow,
\* although retries and recoveries return jobs to the queue without admission.
\* It holds for the programs that never resume an interrupted job.
BacklogInv ==
  Cardinality(InStatus(Waiting)) + Cardinality(InStatus(Active))
    <= MaxQueueDepth + MaxActive

-----------------------------------------------------------------------------
(* What a client sees of a job, and the lifecycle it is promised.          *)

Phase(status) ==
  IF status \in Waiting THEN "waiting"
  ELSE IF status \in Active THEN "working" ELSE status

Lifecycle == INSTANCE JobLifecycle
               WITH phase <- [j \in Jobs |-> Phase(row[j].status)]

\* The queue implements the lifecycle: every operation is one lifecycle step
\* or changes nothing that a client can see.
ImplementsLifecycle == Lifecycle!Spec
=============================================================================
