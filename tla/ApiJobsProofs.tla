--------------------------- MODULE ApiJobsProofs ---------------------------
(***************************************************************************)
(* Proofs about the API process over the durable job queue, for any number *)
(* of jobs of either kind, any admission policy and any bound on the       *)
(* crashes.  The process uses the queue only through its operations, so    *)
(* everything proved of the queue holds here as well.                      *)
(***************************************************************************)
EXTENDS ApiJobs, JobQueueProofs

-----------------------------------------------------------------------------
(* The inductive invariant.                                                *)

\* The places in which the loop has a job in its hands.
Working == {"running", "completing", "interrupting"}

\* The state of the process, which the calls of the loop rely on: it has a job
\* wherever it works, and its renewal task does not outlive that.
ProcessInv ==
  /\ loop \in Places
  /\ current \in Jobs \union {NoJob}
  /\ renewing \in BOOLEAN
  /\ saved \in [Jobs -> {"none", "hidden", "found"}]
  /\ thread \in [Jobs -> {"open", "parked", "decided", "done"}]
  /\ crashes \in 0 .. MaxCrashes
  /\ resuming \subseteq Jobs
  /\ loop \in Working => current \in Jobs
  /\ renewing => loop \in Working

\* Attempts stay within the maximum, and a job that waits has one left: the API
\* never resumes a job.
ApiAttemptInv ==
  \A j \in Jobs :
    /\ row[j].attempts <= MaxAttempts[j]
    /\ row[j].status \in Waiting => row[j].attempts < MaxAttempts[j]

OwnerInv ==
  loop \in Working => row[current].status \in Active /\ row[current].owner = Api

\* A thread whose review has been decided.
Reviewed == {"decided", "done"}

\* Only authoritative jobs are parked; one whose investigation is stored, the
\* one the loop is about to complete, and one a request is resuming are not.
ReviewInv ==
  \A j \in Jobs :
    /\ j \notin Authoritative => thread[j] = "open"
    /\ thread[j] = "parked" => saved[j] = "none"
    /\ j \in resuming => thread[j] \in Reviewed
    /\ loop = "completing" /\ current = j => thread[j] # "parked"
    /\ thread[j] = "parked" => row[j].status # "completed"

ApiInv == TypeOK /\ ProcessInv /\ ApiAttemptInv /\ OwnerInv /\ ReviewInv

-----------------------------------------------------------------------------
(* The process uses the queue.                                             *)

\* Every step of the API is an operation of the queue or leaves it alone.
LEMMA ApiUsesQueue == ProcessInv /\ [ApiNext]_apiVars => [Next]_vars
<1> SUFFICES ASSUME ProcessInv, [ApiNext]_apiVars PROVE [Next]_vars
  OBVIOUS
<1> USE ApiAssumption
<1>0. 0 \in 0 .. MaxDelay
  BY TimeAssumption
<1>1. loop \in Working => current \in Jobs
  BY DEF ProcessInv
<1>2. CASE Boot
  BY <1>2 DEF Boot, Next
<1>3. CASE ClaimNext
  BY <1>3 DEF ClaimNext, Next, WorkerCall
<1>4. CASE Boundary
  BY <1>1, <1>4 DEF Boundary, Working, Next, WorkerCall
<1>5. CASE GraphParks \/ WorkReturns \/ RenewalFails \/ Crash
  BY <1>5 DEF GraphParks, WorkReturns, RenewalFails, Crash
<1>6. CASE CloseCompleted
  BY <1>1, <1>6 DEF CloseCompleted, Working, Next, WorkerCall
<1>7. CASE CloseInterrupted
  BY <1>1, <1>7 DEF CloseInterrupted, Working, Next, WorkerCall
<1>8. ASSUME NEW class \in FailureClass, Handle(class), loop \in Working
      PROVE  [Next]_vars
  BY <1>0, <1>1, <1>8 DEF Handle, Next, WorkerCall
<1>9. CASE CloseRaises
  BY <1>8, <1>9 DEF CloseRaises, Working, FailureClass
<1>10. ASSUME NEW class \in FailureClass, WorkRaises(class) PROVE [Next]_vars
  BY <1>8, <1>10 DEF WorkRaises, Working
<1>11. CASE Renew
  BY <1>1, <1>11 DEF Renew, ProcessInv, Next, WorkerCall
<1>12. CASE Pass
  BY <1>12 DEF Pass, Next
<1>13. ASSUME NEW j \in Jobs, Submit(j) \/ CancelRequest(j) \/ CloseReview(j)
       PROVE  [Next]_vars
  BY <1>13 DEF Submit, CancelRequest, CloseReview, Next, ClientCall
<1>14. ASSUME NEW j \in Jobs,
              \/ DecideReview(j) \/ StoreInvestigation(j) \/ FinishThread(j)
              \/ ReviewEnds(j)
       PROVE  [Next]_vars
  BY <1>14 DEF DecideReview, StoreInvestigation, FinishThread, ReviewEnds
<1>15. CASE UNCHANGED apiVars
  BY <1>15 DEF apiVars, vars
<1> QED
  BY <1>2, <1>3, <1>4, <1>5, <1>6, <1>7, <1>9, <1>10, <1>11, <1>12, <1>13, <1>14,
     <1>15
     DEF ApiNext, Work

-----------------------------------------------------------------------------
(* What one step does to the process.                                      *)

\* The loop has a job afterwards only if it had that job before or claimed it.
LEMMA LoopChange ==
  ASSUME ProcessInv, [ApiNext]_apiVars
  PROVE  /\ ProcessInv'
         /\ loop' \in Working =>
              ClaimNext \/ (loop \in Working /\ UNCHANGED current)
<1> USE DEF ProcessInv, Working, Places
<1> DEFINE Goal == /\ ProcessInv'
                   /\ loop' \in Working =>
                        ClaimNext \/ (loop \in Working /\ UNCHANGED current)
<1>1. CASE Boot
  BY <1>1 DEF Boot, Enter
<1>2. CASE ClaimNext
  BY <1>2 DEF ClaimNext
<1>3. CASE Boundary
  BY <1>3 DEF Boundary, Leave
<1>4. ASSUME NEW j \in Jobs, StoreInvestigation(j) \/ FinishThread(j) PROVE Goal
  <2>1. CASE StoreInvestigation(j)
    BY <2>1 DEF StoreInvestigation, Store, processVars, loopVars
  <2>2. CASE FinishThread(j)
    BY <2>2 DEF FinishThread, processVars, loopVars
  <2> QED BY <1>4, <2>1, <2>2
<1>5. CASE GraphParks
  BY <1>5 DEF GraphParks, processVars, loopVars
<1>6. CASE WorkReturns
  BY <1>6 DEF WorkReturns, Enter
<1>7. CASE CloseCompleted
  BY <1>7 DEF CloseCompleted, Leave
<1>8. CASE CloseInterrupted
  BY <1>8 DEF CloseInterrupted, Leave
<1>9. ASSUME NEW class, Handle(class) PROVE Goal
  BY <1>9 DEF Handle, Leave
<1>10. CASE CloseRaises \/ \E class \in FailureClass : WorkRaises(class)
  BY <1>9, <1>10 DEF CloseRaises, WorkRaises
<1>11. CASE Renew
  BY <1>11 DEF Renew, processVars, loopVars
<1>12. CASE RenewalFails
  BY <1>12 DEF RenewalFails
<1>13. CASE Crash
  <2>1. crashes' \in 0 .. MaxCrashes
    BY <1>13, RestartAssumption DEF Crash
  <2> QED BY <1>13, <2>1 DEF Crash
<1>14. CASE Pass
  BY <1>14 DEF Pass, processVars, loopVars
<1>15. ASSUME NEW j \in Jobs, Submit(j) \/ CancelRequest(j) PROVE Goal
  BY <1>15 DEF Submit, CancelRequest, processVars, loopVars
<1>16. ASSUME NEW j \in Jobs, DecideReview(j) \/ ReviewEnds(j) PROVE Goal
  <2>1. CASE DecideReview(j)
    BY <2>1 DEF DecideReview, loopVars
  <2>2. CASE ReviewEnds(j)
    BY <2>2 DEF ReviewEnds, loopVars
  <2> QED BY <1>16, <2>1, <2>2
<1>17. ASSUME NEW j \in Jobs, CloseReview(j) PROVE Goal
  BY <1>17 DEF CloseReview, Store, processVars, loopVars
<1>18. CASE UNCHANGED apiVars
  BY <1>18 DEF apiVars
<1> QED
  BY <1>1, <1>2, <1>3, <1>4, <1>5, <1>6, <1>7, <1>8, <1>10, <1>11, <1>12, <1>13,
     <1>14, <1>15, <1>16, <1>17, <1>18
     DEF ApiNext, Work

-----------------------------------------------------------------------------
(* What one step does to one row.                                          *)

\* The attempts and the owner stay, or a request withdraws the job.
Kept(k) ==
  /\ row'[k].status = row[k].status /\ row'[k].attempts = row[k].attempts
  /\ row'[k].owner = row[k].owner

Entered(k) ==
  /\ row[k].status = "absent" /\ row'[k].status = "queued"
  /\ row'[k].attempts = 0
  /\ \E j \in Jobs : Submit(j)

Taken(k) ==
  /\ ClaimNext /\ current' = k
  /\ row[k].status \in Waiting /\ row'[k].status = "running"
  /\ row'[k].attempts = row[k].attempts + 1 /\ row'[k].owner = Api

Withdrawn(k) ==
  /\ row'[k].attempts = row[k].attempts /\ row'[k].owner = row[k].owner
  /\ \/ row[k].status \notin Active /\ row'[k].status = "cancelled"
     \/ row[k].status = "running" /\ row'[k].status = "cancelling"

\* What may become of a job whose lease ends without a result.
Ended(k) ==
  /\ row[k].status \in Active /\ row'[k].attempts = row[k].attempts
  /\ \/ row'[k].status \in {"cancelled", "interrupted", "failed", "dead_letter"}
     \/ row'[k].status = "retryable" /\ row[k].attempts < MaxAttempts[k]

\* A job completes by the loop, which knows that its work is done, or by the
\* handler of its review.
Finished(k) ==
  /\ row'[k].status = "completed" /\ row'[k].attempts = row[k].attempts
  /\ \/ loop = "completing" /\ current = k /\ UNCHANGED thread
     \/ saved[k] = "found" /\ current = k /\ loop \in Working /\ UNCHANGED thread
     \/ thread[k] \in Reviewed /\ UNCHANGED thread

\* The loop lets go of the job it works on; only a recovery, before the loop
\* works, takes the lease of a job otherwise.
Dropped(k) ==
  \/ loop' \notin Working /\ (Ended(k) \/ Finished(k))
  \/ row[k].status = "interrupted" /\ Finished(k)

Change(k) == Kept(k) \/ Entered(k) \/ Taken(k) \/ Withdrawn(k) \/ Dropped(k)

LEMMA SaveChanges ==
  ASSUME TypeOK, NEW j \in Jobs, NEW r, Save(j, r), NEW k \in Jobs
  PROVE  (k = j /\ row'[k] = r) \/ Kept(k)
BY DEF Save, TypeOK, Kept

\* The three ways in which the loop gives a job back.
LEMMA CompletedChange ==
  ASSUME TypeOK, NEW j \in Jobs, Complete(j, Api, Report), NEW k \in Jobs
  PROVE  \/ Kept(k)
         \/ k = j /\ row'[k].status = "completed" /\ row'[k].attempts = row[k].attempts
<1> DEFINE r == [Released(row[j]) EXCEPT !.status = "completed", !.result = Report]
<1>1. row[j] \in Row
  BY DEF TypeOK
<1>2. Save(j, r)
  BY DEF Complete, FinishActive
<1>3. r.status = "completed" /\ r.attempts = row[j].attempts
  BY <1>1 DEF Released, Row
<1> HIDE DEF r
<1> QED BY <1>2, <1>3, SaveChanges

LEMMA FailedChange ==
  ASSUME TypeOK, NEW j \in Jobs, NEW class, Fail(j, Api, class, 0), NEW k \in Jobs
  PROVE  Kept(k) \/ (k = j /\ Ended(k))
<1> DEFINE o == FailureOutcome(j, class)
           r == [Released(row[j]) EXCEPT !.status = o.status, !.delay = 0]
<1>1. row[j] \in Row
  BY DEF TypeOK
<1>2. Save(j, r) /\ row[j].status \in Active
  BY DEF Fail, Owned
<1>3. r.status = o.status /\ r.attempts = row[j].attempts
  BY <1>1 DEF Released, Row
<1>4. \/ o.status \in {"dead_letter", "failed"}
      \/ o.status = "retryable" /\ row[j].attempts < MaxAttempts[j]
  BY DEF FailureOutcome
<1> HIDE DEF o, r
<1> QED BY <1>2, <1>3, <1>4, SaveChanges DEF Ended

LEMMA HandledChange ==
  ASSUME TypeOK, ProcessInv, loop \in Working, NEW class, Handle(class), NEW k \in Jobs
  PROVE  Kept(k) \/ Dropped(k)
<1>1. current \in Jobs /\ loop' \notin Working /\ UNCHANGED thread
  BY DEF ProcessInv, Handle, Leave, Working
<1>2. CASE saved[current] = "found" /\ Complete(current, Api, Report)
  BY <1>1, <1>2, CompletedChange DEF Dropped, Finished
<1>3. CASE saved[current] # "found" /\ Fail(current, Api, class, 0)
  BY <1>1, <1>3, FailedChange DEF Dropped
<1>4. CASE UNCHANGED vars
  BY <1>4 DEF vars, Kept
<1> QED BY <1>2, <1>3, <1>4 DEF Handle

LEMMA RowChange ==
  ASSUME TypeOK, ProcessInv, [ApiNext]_apiVars, NEW k \in Jobs
  PROVE  Change(k)
<1> USE DEF Change
<1>0. ASSUME NEW j \in Jobs PROVE row[j] \in Row
  BY DEF TypeOK
<1>1. ASSUME UNCHANGED row PROVE Kept(k)
  BY <1>1 DEF Kept
<1>2. CASE Boot
  <2>1. loop' \notin Working
    BY <1>2 DEF Boot, Enter, Working
  <2>2. CASE UNCHANGED row
    BY <1>1, <2>2
  <2>3. CASE RecoverExpiredLeases /\ k \notin Expired
    BY <2>3 DEF RecoverExpiredLeases, Kept
  <2>4. CASE RecoverExpiredLeases /\ k \in Expired
    <3> DEFINE r == [Released(row[k]) EXCEPT !.status = RecoveredStatus(k), !.delay = 0]
    <3>1. row'[k] = r /\ row[k].status \in Active
      BY <2>4 DEF RecoverExpiredLeases, Expired, InStatus
    <3>2. r.status = RecoveredStatus(k) /\ r.attempts = row[k].attempts
      BY <1>0 DEF Released, Row
    <3>3. \/ RecoveredStatus(k) \in {"cancelled", "dead_letter"}
          \/ RecoveredStatus(k) = "retryable" /\ row[k].attempts < MaxAttempts[k]
      BY DEF RecoveredStatus
    <3> HIDE DEF r
    <3> QED BY <2>1, <3>1, <3>2, <3>3 DEF Dropped, Ended
  <2> QED BY <1>2, <2>2, <2>3, <2>4 DEF Boot, vars
<1>3. CASE ClaimNext
  <2>1. PICK j \in Jobs : Claim(j, Api) /\ current' = j
    BY <1>3 DEF ClaimNext
  <2> DEFINE r == [row[j] EXCEPT !.status = "running", !.attempts = @ + 1,
                                 !.owner = Api, !.lease = LeaseSeconds]
  <2>2. Save(j, r) /\ row[j].status \in Waiting
    BY <2>1 DEF Claim, Claimable, Candidates, InStatus
  <2>3. r.status = "running" /\ r.attempts = row[j].attempts + 1 /\ r.owner = Api
    BY <1>0 DEF Row
  <2> HIDE DEF r
  <2> QED BY <1>3, <2>1, <2>2, <2>3, SaveChanges DEF Taken
<1>4. CASE Boundary
  <2> DEFINE r == [Released(row[current]) EXCEPT !.status = "cancelled"]
  <2>1. current \in Jobs /\ loop' \notin Working
    BY <1>4 DEF Boundary, ProcessInv, Leave, Working
  <2>2. Save(current, r) /\ row[current].status \in Active
    BY <1>4 DEF Boundary, SafeBoundary, Owned
  <2>3. r.status = "cancelled" /\ r.attempts = row[current].attempts
    BY <1>0, <2>1 DEF Released, Row
  <2> HIDE DEF r
  <2> QED BY <2>1, <2>2, <2>3, SaveChanges DEF Dropped, Ended
<1>5. CASE GraphParks \/ WorkReturns \/ RenewalFails \/ Crash
  BY <1>1, <1>5 DEF GraphParks, WorkReturns, RenewalFails, Crash, vars
<1>6. CASE CloseCompleted
  <2>1. current \in Jobs /\ loop' \notin Working /\ UNCHANGED thread
    BY <1>6 DEF CloseCompleted, ProcessInv, Leave, Working
  <2> QED BY <1>6, <2>1, CompletedChange DEF CloseCompleted, Dropped, Finished
<1>7. CASE CloseInterrupted
  <2> DEFINE r == [Released(row[current]) EXCEPT !.status = "interrupted",
                                                 !.result = NoResult]
  <2>1. current \in Jobs /\ loop' \notin Working
    BY <1>7 DEF CloseInterrupted, ProcessInv, Leave, Working
  <2>2. Save(current, r) /\ row[current].status \in Active
    BY <1>7 DEF CloseInterrupted, Interrupt, FinishActive, Owned
  <2>3. r.status = "interrupted" /\ r.attempts = row[current].attempts
    BY <1>0, <2>1 DEF Released, Row
  <2> HIDE DEF r
  <2> QED BY <2>1, <2>2, <2>3, SaveChanges DEF Dropped, Ended
<1>8. CASE CloseRaises \/ \E class \in FailureClass : WorkRaises(class)
  BY <1>8, HandledChange DEF CloseRaises, WorkRaises, Working
<1>9. CASE Renew
  <2> DEFINE r == [row[current] EXCEPT !.lease = LeaseSeconds]
  <2>1. current \in Jobs /\ Save(current, r)
    BY <1>9 DEF Renew, RenewLease, ProcessInv
  <2>2. /\ r.status = row[current].status /\ r.attempts = row[current].attempts
        /\ r.owner = row[current].owner
    BY <1>0, <2>1 DEF Row
  <2> HIDE DEF r
  <2> QED BY <2>1, <2>2, SaveChanges DEF Kept
<1>10. CASE Pass
  BY <1>0, <1>10 DEF Pass, Tick, Kept, Row
<1>11. ASSUME NEW j \in Jobs, Submit(j) PROVE Change(k)
  <2> DEFINE r == [NoRow EXCEPT !.status = "queued", !.created = Cardinality(Enqueued)]
  <2>1. Save(j, r) /\ row[j].status = "absent"
    BY <1>11 DEF Submit, Enqueue
  <2>2. r.status = "queued" /\ r.attempts = 0
    BY DEF NoRow
  <2> HIDE DEF r
  <2> QED BY <1>11, <2>1, <2>2, SaveChanges DEF Entered
<1>12. ASSUME NEW j \in Jobs, CancelRequest(j) PROVE Change(k)
  <2>1. CASE row[j].status = "running"
    <3> DEFINE r == [row[j] EXCEPT !.status = "cancelling", !.cancel = TRUE]
    <3>1. Save(j, r)
      BY <1>12, <2>1 DEF CancelRequest, RequestCancellation, Waiting
    <3>2. r.status = "cancelling" /\ r.attempts = row[j].attempts /\ r.owner = row[j].owner
      BY <1>0 DEF Row
    <3> HIDE DEF r
    <3> QED BY <2>1, <3>1, <3>2, SaveChanges DEF Withdrawn
  <2>2. CASE row[j].status # "running"
    <3> DEFINE r == [row[j] EXCEPT !.status = "cancelled", !.cancel = TRUE]
    <3>1. Save(j, r) /\ row[j].status \notin Active
      BY <1>12, <2>2 DEF CancelRequest, RequestCancellation, Waiting, Active
    <3>2. r.status = "cancelled" /\ r.attempts = row[j].attempts /\ r.owner = row[j].owner
      BY <1>0 DEF Row
    <3> HIDE DEF r
    <3> QED BY <3>1, <3>2, SaveChanges DEF Withdrawn
  <2> QED BY <2>1, <2>2
<1>13. ASSUME NEW j \in Jobs,
              \/ DecideReview(j) \/ StoreInvestigation(j) \/ FinishThread(j)
              \/ ReviewEnds(j)
       PROVE  Change(k)
  BY <1>1, <1>13 DEF DecideReview, StoreInvestigation, FinishThread, ReviewEnds, vars
<1>14. ASSUME NEW j \in Jobs, CloseReview(j) PROVE Change(k)
  <2> DEFINE r == [row[j] EXCEPT !.status = "completed", !.result = Report]
  <2>1. /\ Save(j, r) /\ row[j].status = "interrupted"
        /\ thread[j] \in Reviewed /\ UNCHANGED thread
    BY <1>14 DEF CloseReview, CompleteInterrupted, Reviewed
  <2>2. r.status = "completed" /\ r.attempts = row[j].attempts
    BY <1>0 DEF Row
  <2> HIDE DEF r
  <2> QED BY <2>1, <2>2, SaveChanges DEF Dropped, Finished
<1>15. CASE UNCHANGED apiVars
  BY <1>1, <1>15 DEF apiVars
<1> QED
  BY <1>2, <1>3, <1>4, <1>5, <1>6, <1>7, <1>8, <1>9, <1>10, <1>11, <1>12, <1>13,
     <1>14, <1>15
     DEF ApiNext, Work

-----------------------------------------------------------------------------
(* The invariant is inductive.                                             *)

LEMMA ApiAttemptStep ==
  TypeOK /\ ProcessInv /\ ApiAttemptInv /\ [ApiNext]_apiVars => ApiAttemptInv'
<1> SUFFICES ASSUME TypeOK, ProcessInv, ApiAttemptInv, [ApiNext]_apiVars, NEW k \in Jobs
             PROVE  /\ row'[k].attempts <= MaxAttempts[k]
                    /\ row'[k].status \in Waiting => row'[k].attempts < MaxAttempts[k]
  BY DEF ApiAttemptInv
<1>1. row[k].attempts \in Nat /\ MaxAttempts[k] \in Nat \ {0}
  BY SpecAssumption DEF TypeOK, Row
<1>2. /\ row[k].attempts <= MaxAttempts[k]
      /\ row[k].status \in Waiting => row[k].attempts < MaxAttempts[k]
  BY DEF ApiAttemptInv
<1> QED
  BY <1>1, <1>2, RowChange
     DEF Change, Kept, Entered, Taken, Withdrawn, Dropped, Ended, Finished, Waiting

\* Neither a request nor a recovery takes the job of a live loop.
LEMMA OwnerStep ==
  TypeOK /\ ProcessInv /\ OwnerInv /\ [ApiNext]_apiVars => OwnerInv'
<1> SUFFICES ASSUME TypeOK, ProcessInv, OwnerInv, [ApiNext]_apiVars, loop' \in Working
             PROVE  row'[current'].status \in Active /\ row'[current'].owner = Api
  BY DEF OwnerInv
<1> DEFINE k == current'
<1>1. ProcessInv' /\ k \in Jobs /\ Change(k)
  BY LoopChange, RowChange DEF ProcessInv
<1>2. CASE ClaimNext
  <2>1. PICK j \in Jobs : Claim(j, Api) /\ current' = j
    BY <1>2 DEF ClaimNext
  <2>2. row[j] \in Row
    BY DEF TypeOK
  <2> QED BY <2>1, <2>2 DEF Claim, Save, TypeOK, Row, Active
<1>3. CASE loop \in Working /\ UNCHANGED current
  <2>1. row[k].status \in Active /\ row[k].owner = Api /\ ~ClaimNext
    BY <1>3 DEF OwnerInv, ClaimNext, Working
  <2> QED
    BY <1>1, <2>1
       DEF Change, Kept, Entered, Taken, Withdrawn, Dropped, Finished, Active
<1> QED BY <1>2, <1>3, LoopChange

LEMMA ReviewStep == ApiInv /\ [ApiNext]_apiVars => ReviewInv'
<1> SUFFICES ASSUME ApiInv, [ApiNext]_apiVars PROVE ReviewInv'
  OBVIOUS
<1> USE DEF ApiInv
<1>1. ASSUME NEW j \in Jobs, row'[j].status = "completed", thread[j] = "parked",
             UNCHANGED thread
      PROVE  FALSE
  <2>1. /\ row[j].status # "completed" /\ (loop = "completing" => current # j)
        /\ saved[j] = "none"
    BY <1>1 DEF ReviewInv
  <2>2. Change(j)
    BY RowChange
  <2> QED
    BY <1>1, <2>1, <2>2
       DEF Change, Kept, Entered, Taken, Withdrawn, Dropped, Ended, Finished, Active,
           Reviewed
<1>2. ASSUME UNCHANGED <<saved, thread>>, resuming' \subseteq resuming,
             loop' = "completing" => UNCHANGED loop
      PROVE  ReviewInv'
  <2>1. loop' = "completing" => UNCHANGED current
    BY <1>2, LoopChange DEF Working, ClaimNext
  <2> QED BY <1>1, <1>2, <2>1 DEF ReviewInv
<1>3. ASSUME NEW j \in Jobs, StoreInvestigation(j) PROVE ReviewInv'
  <2>1. /\ UNCHANGED <<row, loop, current, thread, resuming>>
        /\ thread[j] # "parked" /\ \A k \in Jobs : k # j => saved'[k] = saved[k]
    BY <1>3 DEF StoreInvestigation, Store, ProcessInv, processVars, loopVars, vars
  <2> QED BY <2>1 DEF ReviewInv, ProcessInv
<1>4. CASE GraphParks
  <2>1. /\ current \in Authoritative /\ current \in Jobs
        /\ UNCHANGED <<row, loop, current, saved, resuming>>
        /\ loop = "running" /\ saved[current] = "none"
        /\ thread[current] = "open" /\ thread' = [thread EXCEPT ![current] = "parked"]
    BY <1>4 DEF GraphParks, ProcessInv, Working, processVars, loopVars, vars
  <2>2. row[current].status # "completed"
    BY <2>1 DEF OwnerInv, Working, Active
  <2>3. current \notin resuming
    BY <2>1 DEF ReviewInv, Reviewed
  <2> QED BY <2>1, <2>2, <2>3 DEF ReviewInv, ProcessInv
<1>5. CASE WorkReturns
  <2>1. /\ current \in Jobs /\ UNCHANGED <<row, current, saved, resuming>>
        /\ loop' = "completing" => thread'[current] # "parked"
        /\ \A j \in Jobs :
             \/ thread'[j] = thread[j]
             \/ j \in Authoritative /\ thread[j] = "open" /\ thread'[j] = "done"
    BY <1>5 DEF WorkReturns, Enter, ProcessInv, Working, vars
  <2> QED BY <2>1 DEF ReviewInv, ProcessInv, Reviewed
<1>6. ASSUME NEW j \in Jobs, DecideReview(j) \/ FinishThread(j) PROVE ReviewInv'
  <2>1. PICK decided \in Reviewed :
          /\ UNCHANGED <<row, loop, current, saved>> /\ resuming' \subseteq resuming \union {j}
          /\ thread[j] \in {"parked", "decided"}
          /\ thread' = [thread EXCEPT ![j] = decided]
    BY <1>6 DEF DecideReview, FinishThread, Reviewed, processVars, loopVars, vars
  <2>2. j \in Authoritative
    BY <2>1 DEF ReviewInv
  <2> QED BY <2>1, <2>2 DEF ReviewInv, ProcessInv, Reviewed
<1>7. ASSUME NEW j \in Jobs, CloseReview(j) PROVE ReviewInv'
  <2>1. /\ UNCHANGED <<loop, current, thread, resuming>>
        /\ thread[j] # "parked" /\ \A k \in Jobs : k # j => saved'[k] = saved[k]
    BY <1>7 DEF CloseReview, Store, ProcessInv, processVars, loopVars
  <2> QED BY <1>1, <2>1 DEF ReviewInv, ProcessInv
<1>8. CASE Boot \/ ClaimNext
  BY <1>2, <1>8 DEF Boot, Enter, ClaimNext
<1>9. CASE Boundary \/ CloseCompleted \/ CloseInterrupted
  BY <1>2, <1>9 DEF Boundary, CloseCompleted, CloseInterrupted, Leave
<1>10. CASE CloseRaises \/ \E class \in FailureClass : WorkRaises(class)
  BY <1>2, <1>10 DEF CloseRaises, WorkRaises, Handle, Leave
<1>11. CASE Renew \/ RenewalFails \/ Crash \/ Pass
  BY <1>2, <1>11 DEF Renew, RenewalFails, Crash, Pass, processVars, loopVars
<1>12. ASSUME NEW j \in Jobs, Submit(j) \/ CancelRequest(j) \/ ReviewEnds(j)
       PROVE  ReviewInv'
  BY <1>2, <1>12 DEF Submit, CancelRequest, ReviewEnds, processVars, loopVars
<1>13. CASE UNCHANGED apiVars
  BY <1>2, <1>13 DEF apiVars
<1> QED
  BY <1>3, <1>4, <1>5, <1>6, <1>7, <1>8, <1>9, <1>10, <1>11, <1>12, <1>13
     DEF ApiNext, Work

LEMMA ApiInvariant == ApiSpec => []ApiInv
<1>1. ApiInit => ApiInv
  <2> SUFFICES ASSUME ApiInit PROVE ApiInv
    OBVIOUS
  <2>1. TypeOK
    BY StatusNames DEF ApiInit, Init, TypeOK, Row, NoRow, AuditAction
  <2>2. ProcessInv
    <3>1. crashes \in 0 .. MaxCrashes
      BY RestartAssumption DEF ApiInit
    <3>2. saved \in [Jobs -> {"none", "hidden", "found"}] /\ renewing \in BOOLEAN
      BY Zenon DEF ApiInit
    <3>3. (renewing => loop \in Working) /\ resuming \subseteq Jobs
      BY Zenon DEF ApiInit
    <3> QED BY <3>1, <3>2, <3>3 DEF ApiInit, ProcessInv, Places, Working
  <2>3. ApiAttemptInv
    BY SpecAssumption DEF ApiInit, Init, ApiAttemptInv, NoRow, Waiting
  <2>4. OwnerInv
    BY DEF ApiInit, OwnerInv, Working
  <2>5. ReviewInv
    BY DEF ApiInit, ReviewInv
  <2> QED BY <2>1, <2>2, <2>3, <2>4, <2>5 DEF ApiInv
<1>2. ApiInv /\ [ApiNext]_apiVars => ApiInv'
  BY TypeStep, ApiUsesQueue, LoopChange, ApiAttemptStep, OwnerStep, ReviewStep DEF ApiInv
<1> QED BY <1>1, <1>2, PTL DEF ApiSpec

-----------------------------------------------------------------------------
(* The results.                                                            *)

\* The API process implements the durable queue: whatever it does, crashes and
\* restarts included, the queue sees only its own operations.  So the leases,
\* the limits, the audit trail and the lifecycle proved of the queue hold here.
THEOREM ApiImplementsQueue == ApiSpec => Spec
<1>1. ApiInit => Init
  BY DEF ApiInit
<1>2. ApiInv /\ [ApiNext]_apiVars => [Next]_vars
  BY ApiUsesQueue DEF ApiInv
<1> QED BY <1>1, <1>2, ApiInvariant, PTL DEF ApiSpec, Spec

\* The tables and the state of the process stay typed.
THEOREM ApiTypeCorrect == ApiSpec => []ApiTypeOK
<1>1. ApiInv => ApiTypeOK
  BY DEF ApiInv, ProcessInv, ApiTypeOK
<1> QED BY <1>1, ApiInvariant, PTL

\* The loop holds the lease of the job it works on, in every place and however
\* the requests, the time and the renewal task interleave with it.
THEOREM LoopOwnsItsJob == ApiSpec => []LoopOwnsCurrent
<1>1. ApiInv => LoopOwnsCurrent
  <2> SUFFICES ASSUME ApiInv, loop \in Working PROVE Owned(current, Api)
    BY DEF LoopOwnsCurrent, Working
  <2>1. current \in Jobs /\ row[current].status \in Active /\ row[current].owner = Api
    BY DEF ApiInv, ProcessInv, OwnerInv
  <2> QED BY <2>1 DEF ApiInv, ApiAttemptInv, Owned, Loads, Active
<1> QED BY <1>1, ApiInvariant, PTL

\* No attempt of a job is made beyond its maximum: every row can be read.
THEOREM ApiAttemptsRespected == ApiSpec => []AttemptsBounded
<1>1. ApiInv => AttemptsBounded
  BY DEF ApiInv, ApiAttemptInv, AttemptsBounded
<1> QED BY <1>1, ApiInvariant, PTL

\* Retries and recoveries never let the jobs that wait or run exceed what
\* admission and the limit of active jobs allow together.
THEOREM ApiBacklogBounded == ApiSpec => []BacklogInv
<1>1. ApiInit => BacklogInv /\ CapacityInv
  BY BacklogInit DEF ApiInit
<1>2. ApiInv /\ CapacityInv /\ [ApiNext]_apiVars => CapacityInv'
  BY ApiUsesQueue, CapacityStep DEF ApiInv
<1>3. ApiInv /\ CapacityInv /\ BacklogInv /\ [ApiNext]_apiVars => BacklogInv'
  <2> SUFFICES ASSUME ApiInv, CapacityInv, BacklogInv, [ApiNext]_apiVars
               PROVE  BacklogInv'
    OBVIOUS
  <2>1. CASE \E j \in Jobs : Submit(j)
    BY <2>1, BacklogKept DEF ApiInv, Submit
  <2>2. CASE ~\E j \in Jobs : Submit(j)
    <3>1. ASSUME NEW k \in Jobs, row'[k].status \in Waiting \union Active
          PROVE  row[k].status \in Waiting \union Active
      BY <2>2, <3>1, RowChange
         DEF ApiInv, Change, Kept, Entered, Taken, Withdrawn, Dropped, Ended, Finished,
             Waiting, Active
    <3> QED BY <3>1, BacklogKept DEF ApiInv
  <2> QED BY <2>1, <2>2
<1> QED BY <1>1, <1>2, <1>3, ApiInvariant, PTL DEF ApiSpec

\* No job completes over the head of the reviewer its graph is waiting for.
THEOREM NoneCompletesUnreviewed == ApiSpec => []ReviewedBeforeCompleted
<1>1. ApiInv => ReviewedBeforeCompleted
  BY DEF ApiInv, ReviewInv, ReviewedBeforeCompleted
<1> QED BY <1>1, ApiInvariant, PTL
=============================================================================
