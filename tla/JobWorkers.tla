----------------------------- MODULE JobWorkers -----------------------------
(***************************************************************************)
(* DurableJobWorker.run_once over the durable job queue: several workers,  *)
(* each with its own identity, execute the jobs they claim while clients   *)
(* enqueue and cancel, leases expire and are recovered, and workers crash. *)
(*                                                                         *)
(* A worker remembers the attempt it claimed; the queue does not ask for   *)
(* it back, it only compares the owner of the lease.  The attempt is also  *)
(* what the worker reports as its result, so a result of a superseded      *)
(* attempt can be told apart.                                              *)
(***************************************************************************)
EXTENDS JobQueue

CONSTANT NoJob

ASSUME NoJobAssumption == NoJob \notin Jobs
ASSUME AttemptResults == \A j \in Jobs : 1 .. MaxAttempts[j] \subseteq Results

VARIABLES
  exec,   \* what each worker process is executing
  paid    \* how often the provider was called under each operation key

workerVars == <<exec, paid>>
allVars == <<row, audit, receipt, exec, paid>>

PC == {"idle", "executing", "reserved", "called", "finishing"}

Idle == [job |-> NoJob, attempt |-> 0, pc |-> "idle", op |-> "none"]

Busy(w) == exec[w].pc # "idle"
Goto(w, pc) == exec' = [exec EXCEPT ![w].pc = pc]
Stop(w) == exec' = [exec EXCEPT ![w] = Idle]

-----------------------------------------------------------------------------
WorkersInit ==
  /\ Init
  /\ exec = [w \in Workers |-> Idle]
  /\ paid = [j \in Jobs |-> [o \in Operations |-> 0]]

\* run_once: claim, then the executor is entered.
Start(w) ==
  /\ ~Busy(w)
  /\ \E j \in Jobs :
       /\ Claim(j, w)
       /\ exec' = [exec EXCEPT ![w] = [job |-> j, attempt |-> row[j].attempts + 1,
                                       pc |-> "executing", op |-> "none"]]
  /\ UNCHANGED paid

\* A queue call of a worker that lost its lease raises JobLeaseError, which
\* run_once does not catch: the execution ends and the queue is unchanged.
Evicted(w) ==
  /\ ~Owned(exec[w].job, w)
  /\ Stop(w)
  /\ UNCHANGED <<vars, paid>>

\* context.safe_boundary, called by the executor between nodes and by
\* _execute_claimed after the executor returned.
AtBoundary(w) ==
  /\ exec[w].pc = "executing"
  /\ \/ SafeBoundary(exec[w].job, w) /\ Stop(w) /\ UNCHANGED paid
     \/ Evicted(w)

\* The executor reserves a paid operation; it calls the provider only if the
\* reservation is new.
Reserve(w, o) ==
  /\ exec[w].pc = "executing"
  /\ BeginOperation(exec[w].job, o)
  /\ exec' = [exec EXCEPT ![w].pc = "reserved", ![w].op = o]
  /\ UNCHANGED paid

CallProvider(w) ==
  /\ exec[w].pc = "reserved"
  /\ paid' = [paid EXCEPT ![exec[w].job][exec[w].op] = @ + 1]
  /\ Goto(w, "called")
  /\ UNCHANGED vars

StoreReceipt(w) ==
  /\ exec[w].pc = "called"
  /\ CompleteOperation(exec[w].job, exec[w].op)
  /\ exec' = [exec EXCEPT ![w].pc = "executing", ![w].op = "none"]
  /\ UNCHANGED paid

\* The executor returned and the last boundary saw no cancellation.
Return(w) ==
  /\ exec[w].pc = "executing"
  /\ Owned(exec[w].job, w)
  /\ row[exec[w].job].status = "running"
  /\ Goto(w, "finishing")
  /\ UNCHANGED <<vars, paid>>

\* queue.complete; a cancellation that arrived after the last boundary makes
\* it raise JobStateError, which ends the execution and leaves the lease.
Finish(w) ==
  /\ exec[w].pc = "finishing"
  /\ \/ Complete(exec[w].job, w, exec[w].attempt)
     \/ /\ Owned(exec[w].job, w) => row[exec[w].job].status = "cancelling"
        /\ UNCHANGED vars
  /\ Stop(w)
  /\ UNCHANGED paid

\* The executor raised RetryableJobExecutionError or PermanentJobExecutionError.
Raise(w, class) ==
  /\ exec[w].pc \in {"executing", "reserved", "called"}
  /\ \/ Fail(exec[w].job, w, class, 0) /\ Stop(w) /\ UNCHANGED paid
     \/ Evicted(w)

\* The process dies.  A process that takes its place has the same identity.
Crash(w) ==
  /\ Busy(w)
  /\ Stop(w)
  /\ UNCHANGED <<vars, paid>>

Step(w) ==
  Start(w) \/ AtBoundary(w) \/ CallProvider(w) \/ StoreReceipt(w) \/ Return(w) \/ Finish(w)

Environment ==
  /\ \/ \E j \in Jobs : Enqueue(j) \/ RequestCancellation(j)
     \/ RecoverExpiredLeases
     \/ Tick
  /\ UNCHANGED workerVars

WorkersNext ==
  \/ \E w \in Workers :
       \/ Step(w)
       \/ \E o \in Operations : Reserve(w, o)
       \/ \E class \in FailureClass : Raise(w, class)
       \/ Crash(w)
  \/ Environment

WorkersSpec == WorkersInit /\ [][WorkersNext]_allVars

\* Worker processes keep running, time passes, and whoever operates the workers
\* calls recover_expired_leases again and again.  Nothing forces a client to
\* enqueue or cancel, an executor to fail or to reserve, or a worker to crash.
WorkersFairness ==
  /\ \A w \in Workers : WF_allVars(Step(w))
  /\ WF_allVars(RecoverExpiredLeases /\ UNCHANGED workerVars)
  /\ WF_allVars(Tick /\ UNCHANGED workerVars)

FairWorkersSpec == WorkersSpec /\ WorkersFairness

-----------------------------------------------------------------------------
\* The tables and the executions hold values of their types.
WorkersTypeOK ==
  /\ TypeOK
  /\ exec \in [Workers -> [job : Jobs \union {NoJob}, attempt : Nat, pc : PC,
                           op : Operations \union {"none"}]]
  /\ paid \in [Jobs -> [Operations -> Nat]]

\* The lease works as a fencing token although it carries no attempt number:
\* a worker that still executes a superseded attempt of a job cannot hold the
\* lease of a later attempt, because it claims nothing before it stops.
FencingInv ==
  \A w \in Workers :
    Busy(w) /\ Owned(exec[w].job, w) => row[exec[w].job].attempts = exec[w].attempt

\* A job completes with the result of its last attempt, never with that of an
\* attempt whose lease had expired and been recovered.
CompletedByLastAttempt ==
  \A j \in Jobs : row[j].status = "completed" => row[j].result = row[j].attempts

\* persistence/jobs.py, begin_operation: "Reserve a paid operation once across
\* retries and worker crashes": no operation is called twice for one job.
PaidAtMostOnce == \A j \in Jobs, o \in Operations : paid[j][o] <= 1

\* Every admitted job reaches a terminal status, whatever crashes and expires.
EveryJobSettles ==
  \A j \in Jobs : row[j].status # "absent" ~> row[j].status \in Terminal
=============================================================================
