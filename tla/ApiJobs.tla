------------------------------ MODULE ApiJobs ------------------------------
(***************************************************************************)
(* The API process and the durable job queue: one worker loop in the       *)
(* process executes the jobs one at a time, request handlers enqueue,      *)
(* cancel and review jobs beside it, and the process dies and is started   *)
(* again by its supervisor.                                                *)
(*                                                                         *)
(* Authoritative jobs run the LangGraph workflow: it may park for a human  *)
(* review, and every node ends with a safe boundary.  Direct jobs run the  *)
(* configured orchestrator, which stores a completed investigation before  *)
(* it returns; the finalize node of the graph stores one, too, before its  *)
(* own checkpoint.  Each attempt of a direct job, and a create node that   *)
(* runs again, makes a new investigation; the job is resolved to the       *)
(* oldest.  Investigations of other jobs with the same claim are not       *)
(* modelled.                                                               *)
(***************************************************************************)
EXTENDS JobQueue

CONSTANTS
  Authoritative,  \* the jobs of kind authoritative_langgraph_investigation
  Api,            \* the worker identity "api-async-worker"
  Report,         \* the result reference of a finished job
  NoJob,
  MaxCrashes      \* bound on the crashes of the process

ASSUME ApiAssumption == Api \in Workers /\ Report \in Results /\ NoJob \notin Jobs
ASSUME KindAssumption == Authoritative \subseteq Jobs
ASSUME RestartAssumption == MaxCrashes \in Nat

VARIABLES
  loop,      \* where worker_loop is; "dead" once an exception has left it
  current,   \* the job execute_next_job claimed
  renewing,  \* the renew_lease task is alive
  saved,     \* a completed investigation of the job is stored: "found", or
             \* "hidden" by the unfinished one of an earlier attempt
  thread,    \* the graph thread of the job; "decided" until it is at its end
  resuming,  \* the threads a review request is running
  crashes

loopVars == <<loop, current, renewing>>
processVars == <<loopVars, resuming, crashes>>
apiVars == <<row, audit, receipt, loop, current, renewing, saved, thread, resuming, crashes>>

ApiInit ==
  /\ Init
  /\ loop = "down" /\ current = NoJob /\ renewing = FALSE /\ crashes = 0
  /\ resuming = {}
  /\ saved = [j \in Jobs |-> "none"]
  /\ thread = [j \in Jobs |-> "open"]

Places == {"down", "idle", "running", "completing", "interrupting", "dead"}

Enter(place) == loop' = place /\ UNCHANGED <<current, renewing, resuming, crashes>>

\* execute_next_job returned, its renewal task has been awaited.
Leave(place) ==
  /\ loop' = place /\ current' = NoJob /\ renewing' = FALSE
  /\ UNCHANGED <<resuming, crashes>>

-----------------------------------------------------------------------------
(* The worker loop.                                                        *)

\* worker_loop recovers expired leases once, before its first claim.
Boot ==
  /\ loop = "down"
  /\ RecoverExpiredLeases \/ (Expired = {} /\ UNCHANGED vars)
  /\ Enter("idle")
  /\ UNCHANGED <<saved, thread>>

ClaimNext ==
  /\ loop = "idle"
  /\ \E j \in Jobs : Claim(j, Api) /\ current' = j
  /\ loop' = "running" /\ renewing' = TRUE
  /\ UNCHANGED <<saved, thread, resuming, crashes>>

\* The renewal task, every 30 of the 90 seconds of a lease.
Renew ==
  /\ renewing
  /\ RenewLease(current, Api)
  /\ UNCHANGED <<processVars, saved, thread>>

\* Any exception of renew_lease ends the task for the rest of the job.
RenewalFails ==
  /\ renewing
  /\ renewing' = FALSE
  /\ UNCHANGED <<vars, loop, current, resuming, crashes, saved, thread>>

\* Mutant of Boundary: the loop does not return after the cancellation.
BoundaryContinues ==
  /\ loop = "running"
  /\ current \in Authoritative \/ saved[current] # "none"
  /\ SafeBoundary(current, Api)
  /\ UNCHANGED <<processVars, saved, thread>>

\* authoritative_safe_boundary inside the graph, or the boundary after either
\* kind of work: the job is cancelled and the loop goes on.
Boundary ==
  /\ loop = "running"
  /\ current \in Authoritative \/ saved[current] # "none"
  /\ SafeBoundary(current, Api)
  /\ Leave("idle")
  /\ UNCHANGED <<saved, thread>>

\* Who runs the work on a job: the loop, or the request that resumed its thread.
Runs(j) == (loop = "running" /\ current = j) \/ j \in resuming

\* resolve_job_investigation returns the oldest investigation of the job, which
\* from the second attempt on may be one that was never finished.
Store(j) ==
  \E state \in {"found", "hidden"} :
    /\ row[j].attempts <= 1 => state = "found"
    /\ saved' = [saved EXCEPT ![j] = IF @ = "none" THEN state ELSE @]

\* InvestigationService stores the investigation as completed, for a direct job
\* at the end of the work, for a thread in its finalize node.
StoreInvestigation(j) ==
  /\ Runs(j) /\ thread[j] \in {"open", "decided"}
  /\ Store(j)
  /\ UNCHANGED <<vars, processVars, thread>>

\* The graph interrupts itself for a human review; the job is still running.
\* A thread whose investigation is stored is past its routing.
GraphParks ==
  /\ loop = "running" /\ current \in Authoritative
  /\ thread[current] = "open" /\ saved[current] = "none"
  /\ thread' = [thread EXCEPT ![current] = "parked"]
  /\ UNCHANGED <<vars, processVars, saved>>

\* A reviewed thread gets to its end, which is finalize only for an approval or
\* a revision.
FinishThread(j) ==
  /\ Runs(j) /\ thread[j] = "decided"
  /\ thread' = [thread EXCEPT ![j] = "done"]
  /\ UNCHANGED <<vars, processVars, saved>>

\* Mutant of WorkReturns: an interrupted graph closes the job as completed.
WorkReturnsCompleted ==
  /\ loop = "running"
  /\ row[current].status = "running"
  /\ current \in Authoritative \/ saved[current] # "none"
  /\ Enter("completing")
  /\ UNCHANGED <<vars, saved, thread>>

\* The work returned, and the boundary after it saw no cancellation.  Whether
\* the job is interrupted is decided by the thread as it is then; without a
\* review it has run through finalize.
WorkReturns ==
  /\ loop = "running"
  /\ row[current].status = "running"
  /\ thread[current] = "open" => saved[current] # "none"
  /\ Enter(IF thread[current] = "parked" THEN "interrupting" ELSE "completing")
  /\ thread' = [thread EXCEPT ![current] =
                  IF current \in Authoritative /\ @ = "open" THEN "done" ELSE @]
  /\ UNCHANGED <<vars, saved>>

CloseCompleted ==
  /\ loop = "completing"
  /\ Complete(current, Api, Report)
  /\ Leave("idle")
  /\ UNCHANGED <<saved, thread>>

CloseInterrupted ==
  /\ loop = "interrupting"
  /\ Interrupt(current, Api)
  /\ Leave("idle")
  /\ UNCHANGED <<saved, thread>>

\* The except branch of execute_next_job.  A stored investigation completes the
\* job, which raises again when the job is being cancelled: that exception
\* leaves worker_loop, and nothing starts the loop again.
Handle(class) ==
  /\ IF saved[current] = "found"
     THEN \/ Complete(current, Api, Report) /\ Leave("idle")
          \/ row[current].status = "cancelling" /\ UNCHANGED vars /\ Leave("dead")
     ELSE Fail(current, Api, class, 0) /\ Leave("idle")
  /\ UNCHANGED <<saved, thread>>

\* Provider errors are transient, all other exceptions of the work permanent.
WorkRaises(class) == loop = "running" /\ Handle(class)

\* A cancellation arrived between the last boundary and the close, which then
\* raises JobStateError.
CloseRaises ==
  /\ loop \in {"completing", "interrupting"}
  /\ row[current].status = "cancelling"
  /\ Handle("permanent")

\* The process is killed or shut down: the task is cancelled, which the except
\* branch does not see.
Crash ==
  /\ loop # "down" /\ crashes < MaxCrashes
  /\ crashes' = crashes + 1
  /\ loop' = "down" /\ current' = NoJob /\ renewing' = FALSE /\ resuming' = {}
  /\ UNCHANGED <<vars, saved, thread>>

-----------------------------------------------------------------------------
(* The request handlers; none of them works while the process is down.     *)

Submit(j) == loop # "down" /\ Enqueue(j) /\ UNCHANGED <<processVars, saved, thread>>

CancelRequest(j) ==
  /\ loop # "down"
  /\ RequestCancellation(j)
  /\ UNCHANGED <<processVars, saved, thread>>

\* review_authoritative_job, first part: the decision resumes the parked
\* thread.  The status of the job is not looked at.
DecideReview(j) ==
  /\ loop # "down" /\ thread[j] = "parked"
  /\ thread' = [thread EXCEPT ![j] = "decided"]
  /\ resuming' = resuming \union {j}
  /\ UNCHANGED <<vars, loopVars, crashes, saved>>

\* The request returns or raises, wherever the thread is.
ReviewEnds(j) ==
  /\ j \in resuming /\ resuming' = resuming \ {j}
  /\ UNCHANGED <<vars, loopVars, crashes, saved, thread>>

\* Second part, or the same decision sent again: the thread has no interrupt
\* left, so the job is completed and its investigation stored.
CloseReview(j) ==
  /\ loop # "down" /\ j \in Authoritative /\ thread[j] \in {"decided", "done"}
  /\ CompleteInterrupted(j, Report)
  /\ Store(j)
  /\ UNCHANGED <<processVars, thread>>

Pass == Tick /\ UNCHANGED <<processVars, saved, thread>>

Work ==
  \/ ClaimNext \/ Boundary \/ GraphParks \/ WorkReturns
  \/ CloseCompleted \/ CloseInterrupted \/ CloseRaises
  \/ current \in Jobs /\ (StoreInvestigation(current) \/ FinishThread(current))

ApiNext ==
  \/ Boot \/ Work \/ Renew \/ RenewalFails \/ Crash \/ Pass
  \/ \E class \in FailureClass : WorkRaises(class)
  \/ \E j \in Jobs :
       \/ Submit(j) \/ CancelRequest(j)
       \/ DecideReview(j) \/ StoreInvestigation(j) \/ FinishThread(j)
       \/ ReviewEnds(j) \/ CloseReview(j)

ApiSpec == ApiInit /\ [][ApiNext]_apiVars

\* The supervisor restarts the process, its loop is scheduled, time passes, and
\* work on a job ends: every provider call has a timeout.  No client has to act.
ApiFairness == WF_apiVars(Boot) /\ WF_apiVars(Work) /\ WF_apiVars(Pass)

FairApiSpec == ApiSpec /\ ApiFairness

-----------------------------------------------------------------------------
\* The tables and the state of the process hold values of their types.
ApiTypeOK ==
  /\ TypeOK
  /\ loop \in Places
  /\ current \in Jobs \union {NoJob}
  /\ renewing \in BOOLEAN
  /\ saved \in [Jobs -> {"none", "hidden", "found"}]
  /\ thread \in [Jobs -> {"open", "parked", "decided", "done"}]
  /\ resuming \subseteq Jobs
  /\ crashes \in 0 .. MaxCrashes

\* The loop and the queue agree: a job the loop works on is active and leased
\* to it, so neither a request nor a recovery takes a job from a live loop, and
\* no queue call of the loop is refused for its lease.
LoopOwnsCurrent ==
  loop \in {"running", "completing", "interrupting"} => Owned(current, Api)

\* A job whose thread is parked for review does not complete before a decision
\* has been persisted.
ReviewedBeforeCompleted ==
  \A j \in Jobs : thread[j] = "parked" => row[j].status # "completed"

\* The jobs that a dead process or a dead loop left active.
Stranded ==
  {j \in Jobs : /\ row[j].status \in Active
                /\ ~(loop \in {"running", "completing", "interrupting"} /\ current = j)}

\* Every submitted job settles or is parked for its review, unless some job
\* stays behind in an active status for ever, whose lease nobody recovers:
\* nothing else strands a job.
JobsProgress ==
  \/ <>[](Stranded # {})
  \/ \A j \in Jobs :
       row[j].status \in Waiting \union Active
         ~> row[j].status \in Terminal \union {"interrupted"}

\* PHASE_8_STAGE_8.11_COMPLETION_REPORT.md: "running -> cancelling -> cancelled
\* at a safe node boundary": a job that is being cancelled stops.
CancellationStops ==
  \A j \in Jobs : row[j].status = "cancelling" ~> row[j].status # "cancelling"
=============================================================================
