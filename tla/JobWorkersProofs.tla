-------------------------- MODULE JobWorkersProofs --------------------------
(***************************************************************************)
(* Proofs about worker processes over the durable job queue, for any       *)
(* number of jobs and workers and any admission policy.  The workers use   *)
(* the queue only through its operations, so everything proved of the      *)
(* queue holds here; what they add is that they never resume a job, and    *)
(* that each executes one claim at a time.                                 *)
(***************************************************************************)
EXTENDS JobWorkers, JobQueueProofs

-----------------------------------------------------------------------------
(* What a worker process remembers.                                        *)

Execution == [job : Jobs \union {NoJob}, attempt : Nat, pc : PC,
              op : Operations \union {"none"}]

ExecutionInv ==
  /\ exec \in [Workers -> Execution]
  /\ paid \in [Jobs -> [Operations -> Nat]]
  /\ \A w \in Workers :
       /\ Busy(w) => exec[w].job \in Jobs
       /\ exec[w].pc \in {"reserved", "called"} => exec[w].op \in Operations

\* The three ways in which a step may change what one worker remembers.
LEMMA StopsTyped ==
  ASSUME ExecutionInv, NEW w \in Workers, Stop(w)
  PROVE  /\ exec' \in [Workers -> Execution]
         /\ \A v \in Workers :
              /\ exec'[v].pc # "idle" => exec'[v].job \in Jobs
              /\ exec'[v].pc \in {"reserved", "called"} => exec'[v].op \in Operations
<1>1. Idle \in Execution /\ Idle.pc = "idle"
  BY DEF Idle, Execution, PC
<1> QED BY <1>1 DEF ExecutionInv, Stop, Busy

LEMMA GoesTyped ==
  ASSUME ExecutionInv, NEW w \in Workers, NEW e \in Execution, e.job \in Jobs,
         e.pc \in {"reserved", "called"} => e.op \in Operations,
         exec' = [exec EXCEPT ![w] = e]
  PROVE  /\ exec' \in [Workers -> Execution]
         /\ \A v \in Workers :
              /\ exec'[v].pc # "idle" => exec'[v].job \in Jobs
              /\ exec'[v].pc \in {"reserved", "called"} => exec'[v].op \in Operations
BY DEF ExecutionInv, Busy

LEMMA MovesTyped ==
  ASSUME ExecutionInv, NEW w \in Workers, Busy(w), NEW pc \in PC, Goto(w, pc),
         pc \in {"reserved", "called"} => exec[w].op \in Operations
  PROVE  /\ exec' \in [Workers -> Execution]
         /\ \A v \in Workers :
              /\ exec'[v].pc # "idle" => exec'[v].job \in Jobs
              /\ exec'[v].pc \in {"reserved", "called"} => exec'[v].op \in Operations
<1> DEFINE e == [exec[w] EXCEPT !.pc = pc]
<1>1. exec[w] \in Execution /\ exec[w].job \in Jobs
  BY DEF ExecutionInv
<1>2. e \in Execution /\ e.job = exec[w].job /\ e.op = exec[w].op /\ e.pc = pc
  BY <1>1 DEF Execution
<1>3. exec' = [exec EXCEPT ![w] = e]
  BY DEF Goto
<1> HIDE DEF e
<1> QED BY <1>1, <1>2, <1>3, GoesTyped

LEMMA ExecutionStep ==
  TypeOK /\ ExecutionInv /\ [WorkersNext]_allVars => ExecutionInv'
<1> SUFFICES ASSUME TypeOK, ExecutionInv, [WorkersNext]_allVars PROVE ExecutionInv'
  OBVIOUS
<1>1. ASSUME NEW w \in Workers, Stop(w), UNCHANGED paid PROVE ExecutionInv'
  BY <1>1, StopsTyped DEF ExecutionInv, Busy
<1>2. ASSUME NEW w \in Workers, Start(w) PROVE ExecutionInv'
  <2>1. PICK j \in Jobs :
          exec' = [exec EXCEPT ![w] = [job |-> j, attempt |-> row[j].attempts + 1,
                                       pc |-> "executing", op |-> "none"]]
    BY <1>2 DEF Start
  <2>2. row[j].attempts + 1 \in Nat
    BY DEF TypeOK, Row
  <2>3. [job |-> j, attempt |-> row[j].attempts + 1,
         pc |-> "executing", op |-> "none"] \in Execution
    BY <2>2 DEF Execution, PC
  <2>4. UNCHANGED paid
    BY <1>2 DEF Start
  <2> QED BY <2>1, <2>3, <2>4, GoesTyped DEF ExecutionInv, Busy
<1>3. ASSUME NEW w \in Workers, AtBoundary(w) PROVE ExecutionInv'
  BY <1>1, <1>3 DEF AtBoundary, Evicted
<1>4. ASSUME NEW w \in Workers, NEW o \in Operations, Reserve(w, o) PROVE ExecutionInv'
  <2> DEFINE e == [exec[w] EXCEPT !.pc = "reserved", !.op = o]
  <2>1. exec[w] \in Execution /\ exec[w].job \in Jobs
    BY <1>4 DEF ExecutionInv, Reserve, Busy
  <2>2. e \in Execution /\ e.job = exec[w].job /\ e.op = o
    BY <2>1 DEF Execution, PC
  <2>3. exec' = [exec EXCEPT ![w] = e] /\ UNCHANGED paid
    BY <1>4 DEF Reserve
  <2> HIDE DEF e
  <2> QED BY <2>1, <2>2, <2>3, GoesTyped DEF ExecutionInv, Busy
<1>5. ASSUME NEW w \in Workers, CallProvider(w) PROVE ExecutionInv'
  <2>1. Busy(w) /\ exec[w].job \in Jobs /\ exec[w].op \in Operations
    BY <1>5 DEF CallProvider, ExecutionInv, Busy
  <2>2. paid' \in [Jobs -> [Operations -> Nat]]
    <3>1. paid[exec[w].job][exec[w].op] + 1 \in Nat
      BY <2>1 DEF ExecutionInv
    <3> QED BY <1>5, <2>1, <3>1 DEF CallProvider, ExecutionInv
  <2> QED BY <1>5, <2>1, <2>2, MovesTyped DEF CallProvider, ExecutionInv, Busy, PC
<1>6. ASSUME NEW w \in Workers, StoreReceipt(w) PROVE ExecutionInv'
  <2> DEFINE e == [exec[w] EXCEPT !.pc = "executing", !.op = "none"]
  <2>1. exec[w] \in Execution /\ exec[w].job \in Jobs
    BY <1>6 DEF ExecutionInv, StoreReceipt, Busy
  <2>2. e \in Execution /\ e.job = exec[w].job /\ e.pc = "executing"
    BY <2>1 DEF Execution, PC
  <2>3. exec' = [exec EXCEPT ![w] = e] /\ UNCHANGED paid
    BY <1>6 DEF StoreReceipt
  <2> HIDE DEF e
  <2> QED BY <2>1, <2>2, <2>3, GoesTyped DEF ExecutionInv, Busy
<1>7. ASSUME NEW w \in Workers, Return(w) PROVE ExecutionInv'
  BY <1>7, MovesTyped DEF Return, ExecutionInv, Busy, PC
<1>8. ASSUME NEW w \in Workers, Finish(w) PROVE ExecutionInv'
  BY <1>1, <1>8 DEF Finish
<1>9. ASSUME NEW w \in Workers, NEW class \in FailureClass, Raise(w, class)
      PROVE  ExecutionInv'
  BY <1>1, <1>9 DEF Raise, Evicted
<1>10. ASSUME NEW w \in Workers, Crash(w) PROVE ExecutionInv'
  BY <1>1, <1>10 DEF Crash
<1>11. CASE Environment
  BY <1>11 DEF Environment, workerVars, ExecutionInv, Busy
<1>12. CASE UNCHANGED allVars
  BY <1>12 DEF allVars, ExecutionInv, Busy
<1> QED
  BY <1>2, <1>3, <1>4, <1>5, <1>6, <1>7, <1>8, <1>9, <1>10, <1>11, <1>12
     DEF WorkersNext, Step

-----------------------------------------------------------------------------
(* What one step of the workers and their environment does to one row.     *)

\* Attempts stay within the maximum, and a worker that still owns the job it
\* executes owns it for the attempt it claimed.
AttemptAt(r, m) ==
  /\ r.attempts <= m
  /\ r.status \in Waiting => r.attempts < m
  /\ r.status \in Active => r.attempts > 0

AttemptInv == \A j \in Jobs : AttemptAt(row[j], MaxAttempts[j])

OwnerInv ==
  \A w \in Workers :
    Busy(w) /\ row[exec[w].job].owner = w => row[exec[w].job].attempts = exec[w].attempt

Kept(k) ==
  /\ row'[k].status = row[k].status /\ row'[k].attempts = row[k].attempts
  /\ row'[k].owner = row[k].owner /\ row'[k].result = row[k].result

Entered(k) ==
  /\ row'[k].status = "queued" /\ row'[k].attempts = 0
  /\ row'[k].owner = NoWorker
  /\ Enqueue(k)

Taken(k) ==
  /\ row[k].status \in Waiting /\ row'[k].status = "running"
  /\ row'[k].attempts = row[k].attempts + 1
  /\ row'[k].owner \in Workers /\ ~Busy(row'[k].owner)

Withdrawn(k) ==
  /\ row'[k].attempts = row[k].attempts /\ row'[k].owner = row[k].owner
  /\ \/ row'[k].status = "cancelled"
     \/ row'[k].status = "cancelling" /\ row[k].status = "running"

Vacated(k) ==
  /\ row[k].status \in Active /\ row'[k].owner = NoWorker
  /\ row'[k].attempts = row[k].attempts
  /\ \/ row'[k].status \in {"cancelled", "failed", "dead_letter"}
     \/ row'[k].status = "retryable" /\ row[k].attempts < MaxAttempts[k]
     \/ /\ row'[k].status = "completed"
        /\ \E w \in Workers :
             Busy(w) /\ exec[w].job = k /\ Owned(k, w) /\ row'[k].result = exec[w].attempt

Change(k) == Kept(k) \/ Entered(k) \/ Taken(k) \/ Withdrawn(k) \/ Vacated(k)

LEMMA SaveChanges ==
  ASSUME TypeOK, NEW j \in Jobs, NEW r, Save(j, r), NEW k \in Jobs
  PROVE  (k = j /\ row'[k] = r) \/ Kept(k)
BY DEF Save, TypeOK, Kept

LEMMA RowChange ==
  ASSUME TypeOK, ExecutionInv, [WorkersNext]_allVars, NEW k \in Jobs
  PROVE  Change(k)
<1> USE DEF Change
<1>0. ASSUME NEW j \in Jobs PROVE row[j] \in Row
  BY DEF TypeOK
<1>1. ASSUME UNCHANGED row PROVE Kept(k)
  BY <1>1 DEF Kept
<1>2. ASSUME NEW w \in Workers, Start(w) PROVE Change(k)
  <2>1. PICK j \in Jobs : Claim(j, w) /\ ~Busy(w)
    BY <1>2 DEF Start
  <2> DEFINE r == [row[j] EXCEPT !.status = "running", !.attempts = @ + 1,
                                 !.owner = w, !.lease = LeaseSeconds]
  <2>2. Save(j, r) /\ row[j].status \in Waiting
    BY <2>1 DEF Claim, Claimable, Candidates, InStatus
  <2>3. r.status = "running" /\ r.attempts = row[j].attempts + 1 /\ r.owner = w
    BY <1>0 DEF Row
  <2> HIDE DEF r
  <2> QED BY <2>1, <2>2, <2>3, SaveChanges DEF Taken
<1>3. ASSUME NEW w \in Workers, Evicted(w) PROVE Change(k)
  BY <1>1, <1>3 DEF Evicted, vars
<1>4. ASSUME NEW w \in Workers, AtBoundary(w) PROVE Change(k)
  <2>1. CASE Evicted(w)
    BY <1>3, <2>1
  <2>2. CASE SafeBoundary(exec[w].job, w)
    <3> DEFINE j == exec[w].job
               r == [Released(row[j]) EXCEPT !.status = "cancelled"]
    <3>1. j \in Jobs
      BY <1>4 DEF AtBoundary, ExecutionInv, Busy
    <3>2. Save(j, r) /\ row[j].status \in Active
      BY <2>2 DEF SafeBoundary, Owned
    <3>3. r.status = "cancelled" /\ r.attempts = row[j].attempts /\ r.owner = NoWorker
      BY <1>0, <3>1 DEF Released, Row
    <3> HIDE DEF j, r
    <3> QED BY <3>1, <3>2, <3>3, SaveChanges DEF Vacated
  <2> QED BY <1>4, <2>1, <2>2 DEF AtBoundary
<1>5. ASSUME NEW w \in Workers, NEW o \in Operations, Reserve(w, o) PROVE Change(k)
  BY <1>1, <1>5 DEF Reserve, BeginOperation
<1>6. ASSUME NEW w \in Workers, CallProvider(w) \/ Return(w) \/ Crash(w) PROVE Change(k)
  BY <1>1, <1>6 DEF CallProvider, Return, Crash, vars
<1>7. ASSUME NEW w \in Workers, StoreReceipt(w) PROVE Change(k)
  BY <1>1, <1>7 DEF StoreReceipt, CompleteOperation
<1>8. ASSUME NEW w \in Workers, Finish(w) PROVE Change(k)
  <2>1. CASE UNCHANGED vars
    BY <1>1, <2>1 DEF vars
  <2>2. CASE Complete(exec[w].job, w, exec[w].attempt)
    <3> DEFINE j == exec[w].job
               r == [Released(row[j]) EXCEPT !.status = "completed",
                                             !.result = exec[w].attempt]
    <3>1. Busy(w) /\ j \in Jobs
      BY <1>8 DEF Finish, ExecutionInv, Busy
    <3>2. Save(j, r) /\ row[j].status \in Active /\ Owned(j, w)
      BY <2>2 DEF Complete, FinishActive, Owned
    <3>3. /\ r.status = "completed" /\ r.attempts = row[j].attempts
          /\ r.owner = NoWorker /\ r.result = exec[w].attempt
      BY <1>0, <3>1 DEF Released, Row
    <3>4. CASE k = j /\ row'[k] = r
      <4> HIDE DEF r
      <4> QED BY <3>1, <3>2, <3>3, <3>4 DEF Vacated
    <3>5. CASE Kept(k)
      BY <3>5
    <3> HIDE DEF j, r
    <3> QED BY <3>1, <3>2, <3>4, <3>5, SaveChanges
  <2> QED BY <1>8, <2>1, <2>2 DEF Finish
<1>9. ASSUME NEW w \in Workers, NEW class \in FailureClass, Raise(w, class)
      PROVE  Change(k)
  <2>1. CASE Evicted(w)
    BY <1>3, <2>1
  <2>2. CASE Fail(exec[w].job, w, class, 0)
    <3> DEFINE j == exec[w].job
               o == FailureOutcome(j, class)
               r == [Released(row[j]) EXCEPT !.status = o.status, !.delay = 0]
    <3>1. j \in Jobs
      BY <1>9 DEF Raise, ExecutionInv, Busy
    <3>2. Save(j, r) /\ row[j].status \in Active
      BY <2>2 DEF Fail, Owned
    <3>3. r.status = o.status /\ r.attempts = row[j].attempts /\ r.owner = NoWorker
      BY <1>0, <3>1 DEF Released, Row
    <3>4. \/ o.status \in {"dead_letter", "failed"}
          \/ o.status = "retryable" /\ row[j].attempts < MaxAttempts[j]
      BY DEF FailureOutcome
    <3> HIDE DEF j, o, r
    <3> QED BY <3>1, <3>2, <3>3, <3>4, SaveChanges DEF Vacated
  <2> QED BY <1>9, <2>1, <2>2 DEF Raise
<1>10. ASSUME NEW j \in Jobs, Enqueue(j) PROVE Change(k)
  <2> DEFINE r == [NoRow EXCEPT !.status = "queued", !.created = Cardinality(Enqueued)]
  <2>1. Save(j, r)
    BY <1>10 DEF Enqueue
  <2>2. r.status = "queued" /\ r.attempts = 0 /\ r.owner = NoWorker
    BY DEF NoRow
  <2> HIDE DEF r
  <2> QED BY <1>10, <2>1, <2>2, SaveChanges DEF Entered
<1>11. ASSUME NEW j \in Jobs, RequestCancellation(j) PROVE Change(k)
  <2>1. CASE row[j].status = "running"
    <3> DEFINE r == [row[j] EXCEPT !.status = "cancelling", !.cancel = TRUE]
    <3>1. Save(j, r)
      BY <1>11, <2>1 DEF RequestCancellation, Waiting
    <3>2. r.status = "cancelling" /\ r.attempts = row[j].attempts /\ r.owner = row[j].owner
      BY <1>0 DEF Row
    <3> HIDE DEF r
    <3> QED BY <2>1, <3>1, <3>2, SaveChanges DEF Withdrawn
  <2>2. CASE row[j].status # "running"
    <3> DEFINE r == [row[j] EXCEPT !.status = "cancelled", !.cancel = TRUE]
    <3>1. Save(j, r)
      BY <1>11, <2>2 DEF RequestCancellation
    <3>2. r.status = "cancelled" /\ r.attempts = row[j].attempts /\ r.owner = row[j].owner
      BY <1>0 DEF Row
    <3> HIDE DEF r
    <3> QED BY <3>1, <3>2, SaveChanges DEF Withdrawn
  <2> QED BY <2>1, <2>2
<1>12. CASE RecoverExpiredLeases
  <2>1. CASE k \notin Expired
    BY <1>12, <2>1 DEF RecoverExpiredLeases, Kept
  <2>2. CASE k \in Expired
    <3> DEFINE r == [Released(row[k]) EXCEPT !.status = RecoveredStatus(k), !.delay = 0]
    <3>1. row'[k] = r /\ row[k].status \in Active
      BY <1>12, <2>2 DEF RecoverExpiredLeases, Expired, InStatus
    <3>2. r.status = RecoveredStatus(k) /\ r.attempts = row[k].attempts /\ r.owner = NoWorker
      BY <1>0 DEF Released, Row
    <3>3. \/ RecoveredStatus(k) \in {"cancelled", "dead_letter"}
          \/ RecoveredStatus(k) = "retryable" /\ row[k].attempts < MaxAttempts[k]
      BY DEF RecoveredStatus
    <3> HIDE DEF r
    <3> QED BY <3>1, <3>2, <3>3 DEF Vacated
  <2> QED BY <2>1, <2>2
<1>13. CASE Tick
  BY <1>0, <1>13 DEF Tick, Kept, Row
<1>14. CASE UNCHANGED allVars
  BY <1>1, <1>14 DEF allVars
<1> QED
  BY <1>2, <1>4, <1>5, <1>6, <1>7, <1>8, <1>9, <1>10, <1>11, <1>12, <1>13, <1>14
     DEF WorkersNext, Step, Environment

-----------------------------------------------------------------------------
(* The inductive invariant of the workers.                                 *)

\* What one step does to the memory of one worker.
LEMMA MemoryChange ==
  ASSUME ExecutionInv, [WorkersNext]_allVars, NEW v \in Workers, Busy(v)'
  PROVE  \/ Busy(v) /\ exec'[v].job = exec[v].job /\ exec'[v].attempt = exec[v].attempt
         \/ /\ Claim(exec'[v].job, v) /\ exec'[v].job \in Jobs
            /\ exec'[v].attempt = row[exec'[v].job].attempts + 1
<1> DEFINE Same == /\ Busy(v) /\ exec'[v].job = exec[v].job
                   /\ exec'[v].attempt = exec[v].attempt
<1> USE DEF Busy
<1>1. ASSUME NEW w \in Workers, Stop(w) PROVE Same
  BY <1>1 DEF Stop, ExecutionInv, Idle
<1>2. ASSUME NEW w \in Workers, NEW pc, Goto(w, pc), Busy(w) PROVE Same
  BY <1>2 DEF Goto, ExecutionInv, Execution
<1>3. ASSUME NEW w \in Workers, Start(w)
      PROVE  \/ Same
             \/ /\ Claim(exec'[v].job, v) /\ exec'[v].job \in Jobs
                /\ exec'[v].attempt = row[exec'[v].job].attempts + 1
  BY <1>3 DEF Start, ExecutionInv
<1>4. ASSUME NEW w \in Workers, AtBoundary(w) PROVE Same
  BY <1>1, <1>4 DEF AtBoundary, Evicted
<1>5. ASSUME NEW w \in Workers, NEW o \in Operations, Reserve(w, o) PROVE Same
  BY <1>5 DEF Reserve, ExecutionInv, Execution
<1>6. ASSUME NEW w \in Workers, CallProvider(w) \/ Return(w) PROVE Same
  BY <1>2, <1>6 DEF CallProvider, Return
<1>7. ASSUME NEW w \in Workers, StoreReceipt(w) PROVE Same
  BY <1>7 DEF StoreReceipt, ExecutionInv, Execution
<1>8. ASSUME NEW w \in Workers, Finish(w) \/ Crash(w) PROVE Same
  BY <1>1, <1>8 DEF Finish, Crash
<1>9. ASSUME NEW w \in Workers, NEW class \in FailureClass, Raise(w, class) PROVE Same
  BY <1>1, <1>9 DEF Raise, Evicted
<1>10. ASSUME Environment \/ UNCHANGED allVars PROVE Same
  BY <1>10 DEF Environment, workerVars, allVars
<1> HIDE DEF Same, Busy
<1>11. \/ Same
       \/ /\ Claim(exec'[v].job, v) /\ exec'[v].job \in Jobs
          /\ exec'[v].attempt = row[exec'[v].job].attempts + 1
  BY <1>3, <1>4, <1>5, <1>6, <1>7, <1>8, <1>9, <1>10 DEF WorkersNext, Step
<1> QED BY <1>11 DEF Same

LEMMA AttemptStep ==
  TypeOK /\ ExecutionInv /\ AttemptInv /\ [WorkersNext]_allVars => AttemptInv'
<1> SUFFICES ASSUME TypeOK, ExecutionInv, AttemptInv, [WorkersNext]_allVars,
                    NEW k \in Jobs
             PROVE  AttemptAt(row'[k], MaxAttempts[k])
  BY DEF AttemptInv
<1>1. /\ row[k].attempts \in Nat /\ MaxAttempts[k] \in Nat /\ MaxAttempts[k] > 0
      /\ AttemptAt(row[k], MaxAttempts[k])
  BY SpecAssumption DEF TypeOK, Row, AttemptInv
<1>2. CASE Kept(k)
  BY <1>1, <1>2 DEF Kept, AttemptAt
<1>3. CASE Entered(k)
  BY <1>1, <1>3 DEF Entered, AttemptAt, Active
<1>4. CASE Taken(k)
  BY <1>1, <1>4 DEF Taken, AttemptAt, Waiting
<1>5. CASE Withdrawn(k)
  BY <1>1, <1>5 DEF Withdrawn, AttemptAt, Waiting, Active
<1>6. CASE Vacated(k)
  BY <1>1, <1>6 DEF Vacated, AttemptAt, Waiting, Active
<1> QED BY <1>2, <1>3, <1>4, <1>5, <1>6, RowChange DEF Change

LEMMA OwnerStep ==
  TypeOK /\ ExecutionInv /\ OwnerInv /\ [WorkersNext]_allVars => OwnerInv'
<1> SUFFICES ASSUME TypeOK, ExecutionInv, OwnerInv, [WorkersNext]_allVars,
                    NEW w \in Workers, Busy(w)', row'[exec'[w].job].owner = w
             PROVE  row'[exec'[w].job].attempts = exec'[w].attempt
  BY DEF OwnerInv
<1> DEFINE k == exec'[w].job
<1>1. CASE Claim(k, w) /\ k \in Jobs /\ exec'[w].attempt = row[k].attempts + 1
  <2>1. row'[k].attempts = row[k].attempts + 1
    BY <1>1 DEF Claim, Save, TypeOK, Row
  <2> QED BY <1>1, <2>1
<1>2. CASE Busy(w) /\ k = exec[w].job /\ exec'[w].attempt = exec[w].attempt
  <2>1. k \in Jobs
    BY <1>2 DEF ExecutionInv
  <2>2. row'[k].owner = w
    OBVIOUS
  <2> HIDE DEF k
  <2>3. row[k].owner = w /\ row'[k].attempts = row[k].attempts
    BY <1>2, <2>1, <2>2, RowChange, WorkersAssumption
       DEF Change, Kept, Entered, Taken, Withdrawn, Vacated
  <2> QED BY <1>2, <2>3 DEF OwnerInv, k
<1> QED BY <1>1, <1>2, MemoryChange

\* The attempt a worker reports with its result is the attempt of the row, so
\* every call of a worker is one of the queue's operations.
LEMMA WorkersUseQueue ==
  LocalInv /\ ExecutionInv /\ AttemptInv /\ OwnerInv /\ TypeOK /\ [WorkersNext]_allVars
    => [Next]_vars
<1> SUFFICES ASSUME LocalInv, ExecutionInv, AttemptInv, OwnerInv, TypeOK,
                    [WorkersNext]_allVars
             PROVE  [Next]_vars
  OBVIOUS
<1>0. 0 \in 0 .. MaxDelay
  BY TimeAssumption
<1>1. ASSUME NEW w \in Workers, Busy(w) PROVE exec[w].job \in Jobs
  BY <1>1 DEF ExecutionInv
<1>2. ASSUME NEW w \in Workers, Start(w) PROVE [Next]_vars
  BY <1>2 DEF Start, Next, WorkerCall
<1>3. ASSUME NEW w \in Workers, AtBoundary(w) PROVE [Next]_vars
  BY <1>1, <1>3 DEF AtBoundary, Evicted, Busy, Next, WorkerCall
<1>4. ASSUME NEW w \in Workers, NEW o \in Operations, Reserve(w, o) PROVE [Next]_vars
  BY <1>1, <1>4 DEF Reserve, Busy, Next, ClientCall
<1>5. ASSUME NEW w \in Workers, CallProvider(w) \/ Return(w) \/ Crash(w)
      PROVE  [Next]_vars
  BY <1>5 DEF CallProvider, Return, Crash
<1>6. ASSUME NEW w \in Workers, StoreReceipt(w) PROVE [Next]_vars
  BY <1>1, <1>6 DEF StoreReceipt, Busy, ExecutionInv, Next, ClientCall
<1>7. ASSUME NEW w \in Workers, Finish(w) PROVE [Next]_vars
  <2>1. CASE UNCHANGED vars
    BY <2>1
  <2>2. CASE Complete(exec[w].job, w, exec[w].attempt)
    <3> DEFINE j == exec[w].job
    <3>1. Busy(w) /\ j \in Jobs
      BY <1>1, <1>7 DEF Finish, Busy
    <3>2. row[j].owner = w /\ row[j].status \in Active
      BY <2>2 DEF Complete, FinishActive, Owned
    <3>3. exec[w].attempt = row[j].attempts
      BY <3>1, <3>2 DEF OwnerInv
    <3>4. row[j].attempts \in 1 .. MaxAttempts[j]
      BY <3>1, <3>2, SpecAssumption DEF AttemptInv, AttemptAt, TypeOK, Row
    <3>5. exec[w].attempt \in Results
      BY <3>1, <3>3, <3>4, AttemptResults
    <3> QED BY <2>2, <3>1, <3>5 DEF Next, WorkerCall
  <2> QED BY <1>7, <2>1, <2>2 DEF Finish
<1>8. ASSUME NEW w \in Workers, NEW class \in FailureClass, Raise(w, class)
      PROVE  [Next]_vars
  BY <1>0, <1>1, <1>8 DEF Raise, Evicted, Busy, Next, WorkerCall
<1>9. CASE Environment
  BY <1>9 DEF Environment, Next, ClientCall
<1>10. CASE UNCHANGED allVars
  BY <1>10 DEF allVars, vars
<1> QED
  BY <1>2, <1>3, <1>4, <1>5, <1>6, <1>7, <1>8, <1>9, <1>10 DEF WorkersNext, Step

WorkersInv ==
  TypeOK /\ LocalInv /\ ExecutionInv /\ AttemptInv /\ OwnerInv

LEMMA WorkersInvariant == WorkersSpec => []WorkersInv
<1>1. WorkersInit => WorkersInv
  <2> SUFFICES ASSUME WorkersInit PROVE WorkersInv
    OBVIOUS
  <2>1. TypeOK
    BY StatusNames DEF WorkersInit, Init, TypeOK, Row, NoRow, AuditAction
  <2>2. LocalInv
    BY SpecAssumption DEF WorkersInit, Init, LocalInv, LocalAt, LastEvents, NoRow, Active
  <2>3. ExecutionInv
    BY DEF WorkersInit, ExecutionInv, Execution, Idle, Busy, PC
  <2>4. AttemptInv
    BY SpecAssumption
       DEF WorkersInit, Init, AttemptInv, AttemptAt, NoRow, Active, Waiting
  <2>5. OwnerInv
    BY DEF WorkersInit, OwnerInv, Busy, Idle
  <2> QED BY <2>1, <2>2, <2>3, <2>4, <2>5 DEF WorkersInv
<1>2. WorkersInv /\ [WorkersNext]_allVars => WorkersInv'
  BY TypeStep, LocalStep, ExecutionStep, AttemptStep, OwnerStep, WorkersUseQueue
     DEF WorkersInv
<1> QED BY <1>1, <1>2, PTL DEF WorkersSpec

\* Tables and executions stay typed.
THEOREM WorkersTypeCorrect == WorkersSpec => []WorkersTypeOK
<1>1. WorkersInv => WorkersTypeOK
  BY DEF WorkersInv, ExecutionInv, Execution, WorkersTypeOK
<1> QED BY <1>1, WorkersInvariant, PTL

\* The lease fences late workers although it carries no attempt number.
THEOREM LeaseFences == WorkersSpec => []FencingInv
<1>1. WorkersInv => FencingInv
  BY DEF WorkersInv, OwnerInv, FencingInv, Owned
<1> QED BY <1>1, WorkersInvariant, PTL

\* Without a resume no attempt is made beyond the maximum.
THEOREM AttemptsRespected == WorkersSpec => []AttemptsBounded
<1>1. WorkersInv => AttemptsBounded
  BY DEF WorkersInv, AttemptInv, AttemptAt, AttemptsBounded
<1> QED BY <1>1, WorkersInvariant, PTL

\* The workers implement the durable queue: it sees only its own operations, so
\* everything proved of the queue holds of their runs too.
THEOREM WorkersImplementQueue == WorkersSpec => Spec
<1>1. WorkersInit => Init
  BY DEF WorkersInit
<1>2. WorkersInv /\ [WorkersNext]_allVars => [Next]_vars
  BY WorkersUseQueue DEF WorkersInv
<1> QED BY <1>1, <1>2, WorkersInvariant, PTL DEF WorkersSpec, Spec

-----------------------------------------------------------------------------
(* Which attempt a completed job reports.                                  *)

\* Holds with OwnerInv: the worker that completes the job still owns it.
LEMMA ReportStep ==
  WorkersInv /\ CompletedByLastAttempt /\ [WorkersNext]_allVars => CompletedByLastAttempt'
<1> SUFFICES ASSUME WorkersInv, CompletedByLastAttempt, [WorkersNext]_allVars,
                    NEW k \in Jobs, row'[k].status = "completed"
             PROVE  row'[k].result = row'[k].attempts
  BY DEF CompletedByLastAttempt
<1>1. CASE Kept(k)
  BY <1>1 DEF Kept, CompletedByLastAttempt
<1>2. CASE Vacated(k)
  BY <1>2 DEF Vacated, Owned, WorkersInv, OwnerInv
<1> QED
  BY <1>1, <1>2, RowChange DEF WorkersInv, Change, Entered, Taken, Withdrawn

\* A job completes with the result of its last attempt.
THEOREM LastAttemptReports == WorkersSpec => []CompletedByLastAttempt
<1>1. WorkersInit => CompletedByLastAttempt
  BY DEF WorkersInit, Init, NoRow, CompletedByLastAttempt
<1> QED BY <1>1, ReportStep, WorkersInvariant, PTL DEF WorkersSpec

-----------------------------------------------------------------------------
(* Paid operations.                                                        *)

\* The worker that holds a reservation it has not used yet is the only one,
\* and nobody has called the provider under that key.
Reserves(w, j, o) == exec[w].pc = "reserved" /\ exec[w].job = j /\ exec[w].op = o

PaidInv ==
  \A j \in Jobs, o \in Operations :
    /\ paid[j][o] <= 1
    /\ receipt[j][o] = "none" => paid[j][o] = 0
    /\ \A w \in Workers : Reserves(w, j, o) => receipt[j][o] # "none" /\ paid[j][o] = 0
    /\ \A w, v \in Workers : Reserves(w, j, o) /\ Reserves(v, j, o) => w = v

\* A step that neither calls nor reserves keeps every receipt that exists and
\* makes no worker hold a reservation.
LEMMA PaidKept ==
  ASSUME PaidInv, UNCHANGED paid,
         \A j \in Jobs, o \in Operations : receipt'[j][o] = "none" <=> receipt[j][o] = "none",
         \A w \in Workers, j \in Jobs, o \in Operations :
           Reserves(w, j, o)' => Reserves(w, j, o)
  PROVE  PaidInv'
BY DEF PaidInv

LEMMA PaidStep == WorkersInv /\ PaidInv /\ [WorkersNext]_allVars => PaidInv'
<1> SUFFICES ASSUME WorkersInv, PaidInv, [WorkersNext]_allVars PROVE PaidInv'
  OBVIOUS
<1> USE DEF WorkersInv
<1>1. ASSUME NEW w \in Workers, Stop(w), UNCHANGED <<receipt, paid>> PROVE PaidInv'
  BY <1>1, PaidKept DEF Stop, Idle, Reserves, ExecutionInv
<1>2. ASSUME NEW w \in Workers, NEW pc, pc # "reserved", Goto(w, pc),
             UNCHANGED <<receipt, paid>>
      PROVE  PaidInv'
  BY <1>2, PaidKept DEF Goto, Reserves, ExecutionInv, Execution
<1>3. ASSUME NEW w \in Workers, Start(w) PROVE PaidInv'
  BY <1>3, PaidKept DEF Start, Claim, Reserves, ExecutionInv
<1>4. ASSUME NEW w \in Workers, AtBoundary(w) PROVE PaidInv'
  BY <1>1, <1>4 DEF AtBoundary, Evicted, SafeBoundary, vars
<1>5. ASSUME NEW w \in Workers, NEW o \in Operations, Reserve(w, o) PROVE PaidInv'
  <2>1. /\ exec[w].job \in Jobs
        /\ exec' = [exec EXCEPT ![w].pc = "reserved", ![w].op = o]
        /\ receipt[exec[w].job][o] = "none"
        /\ receipt' = [receipt EXCEPT ![exec[w].job][o] = "reserved"]
        /\ UNCHANGED paid
    BY <1>5 DEF Reserve, BeginOperation, ExecutionInv, Busy
  <2>2. ASSUME NEW v \in Workers, NEW j \in Jobs, NEW p \in Operations
        PROVE  Reserves(v, j, p)' <=> IF v = w THEN j = exec[w].job /\ p = o
                                      ELSE Reserves(v, j, p)
    BY <2>1 DEF Reserves, ExecutionInv, Execution
  <2>3. ASSUME NEW j \in Jobs, NEW p \in Operations
        PROVE  receipt'[j][p] = IF j = exec[w].job /\ p = o THEN "reserved"
                                ELSE receipt[j][p]
    BY <2>1 DEF TypeOK
  <2> QED BY <2>1, <2>2, <2>3 DEF PaidInv
<1>6. ASSUME NEW w \in Workers, CallProvider(w) PROVE PaidInv'
  <2> DEFINE k == exec[w].job
             q == exec[w].op
  <2>1. k \in Jobs /\ q \in Operations /\ Reserves(w, k, q)
    BY <1>6 DEF CallProvider, ExecutionInv, Busy, Reserves
  <2>2. ASSUME NEW j \in Jobs, NEW o \in Operations
        PROVE  paid'[j][o] = IF j = k /\ o = q THEN paid[j][o] + 1 ELSE paid[j][o]
    BY <1>6, <2>1 DEF CallProvider, ExecutionInv
  <2>3. ASSUME NEW v \in Workers, NEW j \in Jobs, NEW o \in Operations, Reserves(v, j, o)'
        PROVE  Reserves(v, j, o) /\ v # w
    BY <1>6, <2>3 DEF CallProvider, Goto, Reserves, ExecutionInv, Execution
  <2>4. UNCHANGED receipt
    BY <1>6 DEF CallProvider, vars
  <2> HIDE DEF k, q
  <2>5. paid[k][q] = 0 /\ receipt[k][q] # "none"
    BY <2>1 DEF PaidInv
  <2>6. ASSUME NEW v \in Workers, NEW j \in Jobs, NEW o \in Operations, Reserves(v, j, o)'
        PROVE  ~(j = k /\ o = q)
    BY <2>1, <2>3, <2>6 DEF PaidInv
  <2> QED BY <2>2, <2>3, <2>4, <2>5, <2>6 DEF PaidInv
<1>7. ASSUME NEW w \in Workers, StoreReceipt(w) PROVE PaidInv'
  BY <1>7, PaidKept
     DEF StoreReceipt, CompleteOperation, Reserves, ExecutionInv, Execution, TypeOK, Busy
<1>8. ASSUME NEW w \in Workers, Return(w) PROVE PaidInv'
  BY <1>2, <1>8 DEF Return, vars
<1>9. ASSUME NEW w \in Workers, Finish(w) PROVE PaidInv'
  BY <1>1, <1>9 DEF Finish, Complete, FinishActive, vars
<1>10. ASSUME NEW w \in Workers, NEW class \in FailureClass, Raise(w, class) PROVE PaidInv'
  BY <1>1, <1>10 DEF Raise, Fail, Evicted, vars
<1>11. ASSUME NEW w \in Workers, Crash(w) PROVE PaidInv'
  BY <1>1, <1>11 DEF Crash, vars
<1>12. CASE Environment
  BY <1>12, PaidKept
     DEF Environment, workerVars, Enqueue, RequestCancellation, RecoverExpiredLeases,
         Tick, Reserves
<1>13. CASE UNCHANGED allVars
  BY <1>13, PaidKept DEF allVars, Reserves
<1> QED
  BY <1>3, <1>4, <1>5, <1>6, <1>7, <1>8, <1>9, <1>10, <1>11, <1>12, <1>13
     DEF WorkersNext, Step

\* No operation is paid for twice, whatever crashes, expires and is retried.
THEOREM NeverPaidTwice == WorkersSpec => []PaidAtMostOnce
<1>1. WorkersInit => PaidInv
  BY DEF WorkersInit, Init, PaidInv, Reserves, Idle
<1>2. PaidInv => PaidAtMostOnce
  BY DEF PaidInv, PaidAtMostOnce
<1> QED BY <1>1, <1>2, PaidStep, WorkersInvariant, PTL DEF WorkersSpec

-----------------------------------------------------------------------------
(* The length of the queue.                                                *)

LEMMA BacklogStep ==
  WorkersInv /\ CapacityInv /\ BacklogInv /\ [WorkersNext]_allVars => BacklogInv'
<1> SUFFICES ASSUME WorkersInv, CapacityInv, BacklogInv, [WorkersNext]_allVars
             PROVE  BacklogInv'
  OBVIOUS
<1>1. CASE \E j \in Jobs : Enqueue(j)
  BY <1>1, BacklogKept DEF WorkersInv
<1>2. CASE ~\E j \in Jobs : Enqueue(j)
  <2>1. ASSUME NEW k \in Jobs, row'[k].status \in Waiting \union Active
        PROVE  row[k].status \in Waiting \union Active
    BY <1>2, <2>1, RowChange
       DEF WorkersInv, Change, Kept, Entered, Taken, Withdrawn, Vacated, Waiting, Active
  <2> QED BY <2>1, BacklogKept DEF WorkersInv
<1> QED BY <1>1, <1>2

\* Retries and recoveries never let the waiting and the active jobs together
\* exceed the two limits together.
THEOREM BacklogBounded == WorkersSpec => []BacklogInv
<1>1. WorkersInit => BacklogInv /\ CapacityInv
  BY BacklogInit DEF WorkersInit
<1>2. WorkersInv /\ CapacityInv /\ [WorkersNext]_allVars => CapacityInv'
  BY WorkersUseQueue, CapacityStep DEF WorkersInv
<1> QED BY <1>1, <1>2, BacklogStep, WorkersInvariant, PTL DEF WorkersSpec
=============================================================================
