--------------------------- MODULE JobQueueProofs ---------------------------
(***************************************************************************)
(* Proofs about the durable job queue, for every set of jobs, workers and  *)
(* providers and for every admission policy.                               *)
(***************************************************************************)
EXTENDS JobQueue, FiniteSetTheorems, TLAPS

-----------------------------------------------------------------------------
(* Typing.                                                                 *)

LEMMA StatusNames ==
  /\ "absent" \in Status /\ "queued" \in Status /\ "running" \in Status
  /\ "retryable" \in Status /\ "interrupted" \in Status /\ "cancelling" \in Status
  /\ "cancelled" \in Status /\ "completed" \in Status /\ "failed" \in Status
  /\ "dead_letter" \in Status
  BY DEF Status, Waiting, Active, Terminal

LEMMA CountsAreNaturals ==
  ASSUME NEW S \in SUBSET Jobs
  PROVE  IsFiniteSet(S) /\ Cardinality(S) \in Nat
  BY JobsAssumption, FS_Subset, FS_CardinalityType

LEMMA RowNumbers ==
  ASSUME NEW r \in Row
  PROVE  /\ r.attempts \in Nat /\ r.attempts + 1 \in Nat
         /\ Decrement(r.lease) \in Nat /\ Decrement(r.delay) \in Nat
  BY DEF Row, Decrement

LEMMA SaveType ==
  ASSUME TypeOK, NEW j \in Jobs, NEW r \in Row, Save(j, r)
  PROVE  row' \in [Jobs -> Row]
  BY DEF TypeOK, Save

LEMMA AuditType ==
  ASSUME TypeOK, NEW j \in Jobs, NEW action \in AuditAction, Audit(j, action)
  PROVE  audit' \in [Jobs -> [last : AuditAction, claims : Nat]]
  <1>1. audit[j].claims + (IF action = "claimed" THEN 1 ELSE 0) \in Nat
    BY DEF TypeOK
  <1> QED BY <1>1 DEF TypeOK, Audit

LEMMA ReleasedType ==
  ASSUME NEW r \in Row
  PROVE  Released(r) \in Row
  BY DEF Row, Released

LEMMA FailureOutcomeType ==
  ASSUME NEW j \in Jobs, NEW class
  PROVE  /\ FailureOutcome(j, class).status \in {"retryable", "dead_letter", "failed"}
         /\ FailureOutcome(j, class).action
              \in {"retry_scheduled", "dead_lettered", "failed"}
  BY DEF FailureOutcome

LEMMA RecoveredStatusType ==
  ASSUME NEW j \in Jobs
  PROVE  RecoveredStatus(j) \in {"cancelled", "retryable", "dead_letter"}
  BY DEF RecoveredStatus

\* Every action keeps the tables typed.
LEMMA TypeStep == TypeOK /\ [Next]_vars => TypeOK'
<1> SUFFICES ASSUME TypeOK, [Next]_vars PROVE TypeOK'
  OBVIOUS
<1> USE StatusNames DEF AuditAction
<1>0. ASSUME NEW j \in Jobs PROVE row[j] \in Row /\ Released(row[j]) \in Row
  BY ReleasedType DEF TypeOK
<1>1. ASSUME NEW j \in Jobs, NEW r \in Row, NEW action \in AuditAction,
             Save(j, r), Audit(j, action), UNCHANGED receipt
      PROVE  TypeOK'
  BY <1>1, SaveType, AuditType DEF TypeOK
<1>2. ASSUME NEW j \in Jobs, Enqueue(j) PROVE TypeOK'
  <2>1. Cardinality(Enqueued) \in Nat
    BY CountsAreNaturals DEF Enqueued
  <2>2. [NoRow EXCEPT !.status = "queued", !.created = Cardinality(Enqueued)] \in Row
    BY <2>1 DEF Row, NoRow
  <2> QED BY <1>1, <1>2, <2>2 DEF Enqueue
<1>3. ASSUME NEW j \in Jobs, NEW w \in Workers, Claim(j, w) PROVE TypeOK'
  <2>1. [row[j] EXCEPT !.status = "running", !.attempts = @ + 1,
                       !.owner = w, !.lease = LeaseSeconds] \in Row
    BY <1>0, RowNumbers, TimeAssumption DEF Row
  <2> QED BY <1>1, <1>3, <2>1 DEF Claim
<1>4. ASSUME NEW j \in Jobs, NEW w \in Workers, RenewLease(j, w) PROVE TypeOK'
  <2>1. [row[j] EXCEPT !.lease = LeaseSeconds] \in Row
    BY <1>0, TimeAssumption DEF Row
  <2> QED BY <1>4, <2>1, SaveType DEF RenewLease, TypeOK
<1>5. ASSUME NEW j \in Jobs, RequestCancellation(j) PROVE TypeOK'
  <2>1. /\ [row[j] EXCEPT !.status = "cancelled", !.cancel = TRUE] \in Row
        /\ [row[j] EXCEPT !.status = "cancelling", !.cancel = TRUE] \in Row
    BY <1>0 DEF Row
  <2> QED BY <1>1, <1>5, <2>1 DEF RequestCancellation
<1>6. ASSUME NEW j \in Jobs, NEW w \in Workers, SafeBoundary(j, w) PROVE TypeOK'
  <2>1. [Released(row[j]) EXCEPT !.status = "cancelled"] \in Row
    BY <1>0 DEF Row
  <2> QED BY <1>1, <1>6, <2>1 DEF SafeBoundary
<1>7. ASSUME NEW j \in Jobs, NEW w \in Workers, Interrupt(j, w) PROVE TypeOK'
  <2>1. [Released(row[j]) EXCEPT !.status = "interrupted", !.result = NoResult] \in Row
    BY <1>0 DEF Row
  <2> QED BY <1>1, <1>7, <2>1 DEF Interrupt, FinishActive
<1>8. ASSUME NEW j \in Jobs, NEW w \in Workers, NEW result \in Results,
             Complete(j, w, result)
      PROVE  TypeOK'
  <2>1. [Released(row[j]) EXCEPT !.status = "completed", !.result = result] \in Row
    BY <1>0 DEF Row
  <2> QED BY <1>1, <1>8, <2>1 DEF Complete, FinishActive
<1>9. ASSUME NEW j \in Jobs, Resume(j) PROVE TypeOK'
  <2>1. [row[j] EXCEPT !.status = "queued", !.delay = 0] \in Row
    BY <1>0 DEF Row
  <2> QED BY <1>1, <1>9, <2>1 DEF Resume
<1>10. ASSUME NEW j \in Jobs, NEW result \in Results, CompleteInterrupted(j, result)
       PROVE  TypeOK'
  <2>1. [row[j] EXCEPT !.status = "completed", !.result = result] \in Row
    BY <1>0 DEF Row
  <2> QED BY <1>1, <1>10, <2>1 DEF CompleteInterrupted
<1>11. ASSUME NEW j \in Jobs, NEW w \in Workers, NEW class \in FailureClass,
              NEW delay \in 0 .. MaxDelay, Fail(j, w, class, delay)
       PROVE  TypeOK'
  <2>1. delay \in Nat
    BY TimeAssumption
  <2>2. [Released(row[j]) EXCEPT !.status = FailureOutcome(j, class).status,
                                 !.delay = delay] \in Row
    BY <1>0, <2>1, FailureOutcomeType DEF Row
  <2>3. FailureOutcome(j, class).action \in AuditAction
    BY FailureOutcomeType
  <2> QED BY <1>1, <1>11, <2>2, <2>3 DEF Fail
<1>12. CASE RecoverExpiredLeases
  <2>1. ASSUME NEW j \in Jobs
        PROVE  [Released(row[j]) EXCEPT !.status = RecoveredStatus(j), !.delay = 0]
                 \in Row
    BY <1>0, RecoveredStatusType DEF Row
  <2>2. row' \in [Jobs -> Row]
    BY <1>0, <1>12, <2>1 DEF RecoverExpiredLeases
  <2>3. audit' \in [Jobs -> [last : AuditAction, claims : Nat]]
    BY <1>12 DEF RecoverExpiredLeases, TypeOK
  <2> QED BY <1>12, <2>2, <2>3 DEF RecoverExpiredLeases, TypeOK
<1>13. ASSUME NEW j \in Jobs, NEW o \in Operations,
              BeginOperation(j, o) \/ CompleteOperation(j, o)
       PROVE  TypeOK'
  <2>1. PICK entry \in {"reserved", "completed"} :
          receipt' = [receipt EXCEPT ![j][o] = entry]
    BY <1>13 DEF BeginOperation, CompleteOperation
  <2>2. UNCHANGED <<row, audit>>
    BY <1>13 DEF BeginOperation, CompleteOperation
  <2> QED BY <2>1, <2>2 DEF TypeOK
<1>14. CASE Tick
  <2>1. ASSUME NEW j \in Jobs
        PROVE  [row[j] EXCEPT !.lease = Decrement(@), !.delay = Decrement(@)] \in Row
    BY <1>0, RowNumbers DEF Row
  <2> QED BY <1>14, <2>1 DEF Tick, TypeOK
<1>15. CASE UNCHANGED vars
  BY <1>15 DEF vars, TypeOK
<1> QED
  BY <1>2, <1>3, <1>4, <1>5, <1>6, <1>7, <1>8, <1>9, <1>10, <1>11, <1>12,
     <1>13, <1>14, <1>15
     DEF Next, WorkerCall, ClientCall

\* The tables stay typed whatever workers, clients and time do.
THEOREM TypeCorrect == Spec => []TypeOK
<1>1. Init => TypeOK
  BY StatusNames DEF Init, TypeOK, Row, NoRow, AuditAction
<1> QED BY <1>1, TypeStep, PTL DEF Spec

-----------------------------------------------------------------------------
(* The invariants that speak of one job at a time.  They are inductive     *)
(* together: an attempt can only be counted on a row that loads, and only  *)
(* active rows are released.                                               *)

LocalAt(r, a, m) ==
  /\ r.status \in Active <=> r.owner # NoWorker
  /\ r.lease > 0 => r.status \in Active
  /\ a.claims = r.attempts
  /\ a.last \in LastEvents(r.status)
  /\ r.attempts > m => r.attempts = m + 1 /\ r.status = "running"
  /\ r.status = "completed" <=> r.result # NoResult
  /\ r.status = "absent" => r.attempts = 0

LocalInv == \A j \in Jobs : LocalAt(row[j], audit[j], MaxAttempts[j])

LEMMA LocalParts == LocalInv => LeaseInv /\ AuditInv /\ OvershootInv /\ ResultInv
  BY DEF LocalInv, LocalAt, LeaseInv, AuditInv, OvershootInv, ResultInv

NextTrail(j, action) ==
  [last   |-> action,
   claims |-> audit[j].claims + (IF action = "claimed" THEN 1 ELSE 0)]

\* A step that saves one row and appends its event only has to establish the
\* invariant of that row.
LEMMA SaveLocal ==
  ASSUME TypeOK, LocalInv, NEW j \in Jobs, NEW r, NEW action,
         Save(j, r), Audit(j, action),
         LocalAt(r, NextTrail(j, action), MaxAttempts[j])
  PROVE  LocalInv'
  <1>1. row'[j] = r /\ audit'[j] = NextTrail(j, action)
    BY DEF TypeOK, Save, Audit, NextTrail
  <1>2. \A k \in Jobs \ {j} : row'[k] = row[k] /\ audit'[k] = audit[k]
    BY DEF TypeOK, Save, Audit
  <1> QED BY <1>1, <1>2 DEF LocalInv

LEMMA LocalStep == TypeOK /\ LocalInv /\ [Next]_vars => LocalInv'
<1> SUFFICES ASSUME TypeOK, LocalInv, [Next]_vars PROVE LocalInv'
  OBVIOUS
<1> USE SpecAssumption, WorkersAssumption, ResultsAssumption, TimeAssumption
<1>0. ASSUME NEW j \in Jobs
      PROVE  /\ row[j] \in Row /\ LocalAt(row[j], audit[j], MaxAttempts[j])
             /\ row[j].attempts \in Nat /\ MaxAttempts[j] \in Nat /\ MaxAttempts[j] > 0
             /\ row[j].lease \in Nat
  BY DEF TypeOK, LocalInv, Row
<1>1. ASSUME NEW j \in Jobs, Enqueue(j) PROVE LocalInv'
  <2> DEFINE r == [NoRow EXCEPT !.status = "queued", !.created = Cardinality(Enqueued)]
  <2>1. LocalAt(r, NextTrail(j, "enqueued"), MaxAttempts[j])
    BY <1>0, <1>1 DEF Enqueue, NoRow, LocalAt, NextTrail, LastEvents, Active
  <2> QED BY <1>1, <2>1, SaveLocal DEF Enqueue
<1>2. ASSUME NEW j \in Jobs, NEW w \in Workers, Claim(j, w) PROVE LocalInv'
  <2> DEFINE r == [row[j] EXCEPT !.status = "running", !.attempts = @ + 1,
                                 !.owner = w, !.lease = LeaseSeconds]
  <2>1. LocalAt(r, NextTrail(j, "claimed"), MaxAttempts[j])
    BY <1>0, <1>2 DEF Claim, Claimable, Candidates, InStatus, Waiting, Row,
                      LocalAt, NextTrail, LastEvents, Active, Loads
  <2> QED BY <1>2, <2>1, SaveLocal DEF Claim
<1>3. ASSUME NEW j \in Jobs, NEW w \in Workers, RenewLease(j, w) PROVE LocalInv'
  <2> DEFINE r == [row[j] EXCEPT !.lease = LeaseSeconds]
  <2>1. LocalAt(r, audit[j], MaxAttempts[j])
    BY <1>0, <1>3 DEF RenewLease, Owned, Row, LocalAt
  <2>2. row'[j] = r /\ \A k \in Jobs \ {j} : row'[k] = row[k]
    BY <1>3 DEF RenewLease, Save, TypeOK
  <2> QED BY <1>3, <2>1, <2>2 DEF RenewLease, LocalInv
<1>4. ASSUME NEW j \in Jobs, RequestCancellation(j) PROVE LocalInv'
  <2>1. CASE row[j].status \in Waiting \union {"interrupted"}
    <3> DEFINE r == [row[j] EXCEPT !.status = "cancelled", !.cancel = TRUE]
    <3>1. LocalAt(r, NextTrail(j, "cancelled"), MaxAttempts[j])
      BY <1>0, <1>4, <2>1 DEF RequestCancellation, Waiting, Row, LocalAt, NextTrail, LastEvents, Active, Loads
    <3>2. Save(j, r) /\ Audit(j, "cancelled")
      BY <1>4, <2>1 DEF RequestCancellation, Waiting
    <3> QED BY <3>1, <3>2, SaveLocal
  <2>2. CASE row[j].status = "running"
    <3> DEFINE r == [row[j] EXCEPT !.status = "cancelling", !.cancel = TRUE]
    <3>1. LocalAt(r, NextTrail(j, "cancellation_requested"), MaxAttempts[j])
      BY <1>0, <1>4, <2>2 DEF RequestCancellation, Row, LocalAt, NextTrail, LastEvents, Active, Loads
    <3>2. Save(j, r) /\ Audit(j, "cancellation_requested")
      BY <1>4, <2>2 DEF RequestCancellation, Waiting
    <3> QED BY <3>1, <3>2, SaveLocal
  <2> QED BY <1>4, <2>1, <2>2 DEF RequestCancellation
<1>5. ASSUME NEW j \in Jobs, NEW w \in Workers, SafeBoundary(j, w) PROVE LocalInv'
  <2> DEFINE r == [Released(row[j]) EXCEPT !.status = "cancelled"]
  <2>1. LocalAt(r, NextTrail(j, "cancelled"), MaxAttempts[j])
    BY <1>0, <1>5 DEF SafeBoundary, Owned, LocalAt, NextTrail, LastEvents, Active, Loads, Released, Row
  <2> QED BY <1>5, <2>1, SaveLocal DEF SafeBoundary
<1>6. ASSUME NEW j \in Jobs, NEW w \in Workers, Interrupt(j, w) PROVE LocalInv'
  <2> DEFINE r == [Released(row[j]) EXCEPT !.status = "interrupted", !.result = NoResult]
  <2>1. LocalAt(r, NextTrail(j, "interrupted"), MaxAttempts[j])
    BY <1>0, <1>6 DEF Interrupt, FinishActive, Owned, LocalAt, NextTrail, LastEvents, Active, Loads, Released, Row
  <2> QED BY <1>6, <2>1, SaveLocal DEF Interrupt, FinishActive
<1>7. ASSUME NEW j \in Jobs, NEW w \in Workers, NEW result \in Results, Complete(j, w, result) PROVE LocalInv'
  <2> DEFINE r == [Released(row[j]) EXCEPT !.status = "completed", !.result = result]
  <2>1. LocalAt(r, NextTrail(j, "completed"), MaxAttempts[j])
    BY <1>0, <1>7 DEF Complete, FinishActive, Owned, LocalAt, NextTrail, LastEvents, Active, Loads, Released, Row
  <2> QED BY <1>7, <2>1, SaveLocal DEF Complete, FinishActive
<1>8. ASSUME NEW j \in Jobs, Resume(j) PROVE LocalInv'
  <2> DEFINE r == [row[j] EXCEPT !.status = "queued", !.delay = 0]
  <2>1. LocalAt(r, NextTrail(j, "resumed"), MaxAttempts[j])
    BY <1>0, <1>8 DEF Resume, Row, LocalAt, NextTrail, LastEvents, Active, Loads
  <2> QED BY <1>8, <2>1, SaveLocal DEF Resume
<1>9. ASSUME NEW j \in Jobs, NEW result \in Results, CompleteInterrupted(j, result) PROVE LocalInv'
  <2> DEFINE r == [row[j] EXCEPT !.status = "completed", !.result = result]
  <2>1. LocalAt(r, NextTrail(j, "completed"), MaxAttempts[j])
    BY <1>0, <1>9 DEF CompleteInterrupted, Row, LocalAt, NextTrail, LastEvents, Active, Loads
  <2> QED BY <1>9, <2>1, SaveLocal DEF CompleteInterrupted
<1>10. ASSUME NEW j \in Jobs, NEW w \in Workers, NEW class, NEW delay \in 0 .. MaxDelay,
              Fail(j, w, class, delay)
       PROVE  LocalInv'
  <2> DEFINE o == FailureOutcome(j, class)
             r == [Released(row[j]) EXCEPT !.status = o.status, !.delay = delay]
  <2>1. \/ o = [status |-> "retryable", action |-> "retry_scheduled"]
        \/ o = [status |-> "dead_letter", action |-> "dead_lettered"]
        \/ o = [status |-> "failed", action |-> "failed"]
    BY DEF FailureOutcome
  <2> HIDE DEF o
  <2>2. LocalAt(r, NextTrail(j, o.action), MaxAttempts[j])
    BY <1>0, <1>10, <2>1 DEF Fail, Owned, LocalAt, NextTrail, LastEvents, Active, Loads, Released, Row
  <2> QED BY <1>10, <2>2, SaveLocal DEF Fail, o
<1>11. CASE RecoverExpiredLeases
  <2>1. ASSUME NEW j \in Jobs PROVE LocalAt(row'[j], audit'[j], MaxAttempts[j])
    <3>1. CASE j \in Expired
      <4>1. /\ row'[j] = [Released(row[j]) EXCEPT !.status = RecoveredStatus(j),
                                                  !.delay = 0]
            /\ audit'[j] = [audit[j] EXCEPT !.last = "lease_recovered"]
            /\ Loads(j)
        BY <1>11, <3>1 DEF RecoverExpiredLeases, Expired, InStatus
      <4>2. audit[j] \in [last : AuditAction, claims : Nat]
        BY DEF TypeOK
      <4>3. row[j].status \in Active
        BY <3>1 DEF Expired, InStatus
      <4> QED
        BY <1>0, <4>1, <4>2, <4>3, RecoveredStatusType
           DEF LocalAt, LastEvents, Active, Loads, Released, Row
    <3>2. CASE j \notin Expired
      <4>1. row'[j] = row[j] /\ audit'[j] = audit[j]
        BY <1>11, <3>2 DEF RecoverExpiredLeases
      <4> QED BY <1>0, <4>1
    <3> QED BY <3>1, <3>2
  <2> QED BY <2>1 DEF LocalInv
<1>12. ASSUME NEW j \in Jobs, NEW o \in Operations,
              BeginOperation(j, o) \/ CompleteOperation(j, o)
       PROVE  LocalInv'
  BY <1>12 DEF BeginOperation, CompleteOperation, LocalInv
<1>13. CASE Tick
  <2>1. ASSUME NEW j \in Jobs PROVE LocalAt(row'[j], audit'[j], MaxAttempts[j])
    <3>1. /\ row'[j] = [row[j] EXCEPT !.lease = Decrement(@), !.delay = Decrement(@)]
          /\ audit'[j] = audit[j]
      BY <1>13 DEF Tick
    <3>2. Decrement(row[j].lease) > 0 => row[j].lease > 0
      BY <1>0 DEF Decrement
    <3> QED BY <1>0, <3>1, <3>2 DEF LocalAt, Row
  <2> QED BY <2>1 DEF LocalInv
<1>14. CASE UNCHANGED vars
  BY <1>14 DEF vars, LocalInv
<1> QED
  BY <1>1, <1>2, <1>3, <1>4, <1>5, <1>6, <1>7, <1>8, <1>9, <1>10, <1>11,
     <1>12, <1>13, <1>14
     DEF Next, WorkerCall, ClientCall

LEMMA LocalInvariant == Spec => []LocalInv
<1>1. Init => LocalInv
  BY SpecAssumption DEF Init, LocalInv, LocalAt, LastEvents, NoRow, Active
<1> QED BY <1>1, LocalStep, TypeCorrect, PTL DEF Spec

\* Exactly the active jobs hold a lease, so every stored row passes the lease
\* validator when it is read again.
THEOREM LeaseCorrect == Spec => []LeaseInv
  BY LocalInvariant, LocalParts, PTL

\* The audit trail counts every attempt and explains every status.
THEOREM AuditCorrect == Spec => []AuditInv
  BY LocalInvariant, LocalParts, PTL

\* A job exceeds its attempts by one at most, and then runs for ever.
THEOREM OvershootBounded == Spec => []OvershootInv
  BY LocalInvariant, LocalParts, PTL

\* Only completed jobs carry a result reference.
THEOREM ResultCorrect == Spec => []ResultInv
  BY LocalInvariant, LocalParts, PTL

-----------------------------------------------------------------------------
(* The limits on active jobs.                                              *)

\* Only a claim makes a job active.
LEMMA ActiveShrinks ==
  ASSUME TypeOK, [Next]_vars, NEW k \in Jobs,
         row'[k].status \in Active, row[k].status \notin Active
  PROVE  \E w \in Workers : Claim(k, w)
<1>0. ASSUME NEW j \in Jobs PROVE row[j] \in Row
  BY DEF TypeOK
<1>1. ASSUME NEW j \in Jobs, NEW r, Save(j, r), r.status \notin Active PROVE FALSE
  BY <1>1 DEF Save, TypeOK
<1>2. ASSUME NEW j \in Jobs, Enqueue(j) PROVE FALSE
  <2> DEFINE r == [NoRow EXCEPT !.status = "queued", !.created = Cardinality(Enqueued)]
  <2>1. r.status \notin Active
    BY DEF NoRow, Active
  <2> QED BY <1>1, <1>2, <2>1 DEF Enqueue
<1>3. ASSUME NEW j \in Jobs, NEW w \in Workers, Claim(j, w) PROVE Claim(k, w)
  BY <1>3 DEF Claim, Save, TypeOK
<1>4. ASSUME NEW j \in Jobs, NEW w \in Workers, RenewLease(j, w) PROVE FALSE
  BY <1>0, <1>4 DEF RenewLease, Save, Owned, TypeOK, Row
<1>5. ASSUME NEW j \in Jobs, RequestCancellation(j) PROVE FALSE
  <2>1. PICK r : Save(j, r) /\ (row[j].status \in Active \/ r.status \notin Active)
    <3>1. CASE row[j].status = "running"
      BY <1>5, <3>1 DEF RequestCancellation, Active, Waiting
    <3>2. CASE row[j].status # "running"
      <4> DEFINE r == [row[j] EXCEPT !.status = "cancelled", !.cancel = TRUE]
      <4>1. Save(j, r)
        BY <1>5, <3>2 DEF RequestCancellation
      <4>2. r.status \notin Active
        BY <1>0 DEF Row, Active
      <4> QED BY <4>1, <4>2
    <3> QED BY <3>1, <3>2
  <2>2. k # j
    BY <1>1, <2>1 DEF TypeOK
  <2> QED BY <2>1, <2>2 DEF Save, TypeOK
<1>6. ASSUME NEW j \in Jobs, NEW w \in Workers, SafeBoundary(j, w) PROVE FALSE
  BY <1>0, <1>6 DEF SafeBoundary, Save, TypeOK, Row, Active, Released
<1>7. ASSUME NEW j \in Jobs, NEW w \in Workers, Interrupt(j, w) PROVE FALSE
  BY <1>0, <1>7 DEF Interrupt, FinishActive, Save, TypeOK, Row, Active, Released
<1>8. ASSUME NEW j \in Jobs, NEW w \in Workers, NEW result, Complete(j, w, result)
      PROVE  FALSE
  BY <1>0, <1>8 DEF Complete, FinishActive, Save, TypeOK, Row, Active, Released
<1>9. ASSUME NEW j \in Jobs, Resume(j) PROVE FALSE
  BY <1>0, <1>9 DEF Resume, Save, TypeOK, Row, Active
<1>10. ASSUME NEW j \in Jobs, NEW result, CompleteInterrupted(j, result) PROVE FALSE
  BY <1>0, <1>10 DEF CompleteInterrupted, Save, TypeOK, Row, Active
<1>11. ASSUME NEW j \in Jobs, NEW w \in Workers, NEW class, NEW delay,
              Fail(j, w, class, delay)
       PROVE  FALSE
  BY <1>0, <1>11, FailureOutcomeType DEF Fail, Save, TypeOK, Row, Active, Released
<1>12. CASE RecoverExpiredLeases
  BY <1>0, <1>12, RecoveredStatusType
     DEF RecoverExpiredLeases, TypeOK, Row, Active, Released
<1>13. ASSUME NEW j \in Jobs, NEW o \in Operations,
              BeginOperation(j, o) \/ CompleteOperation(j, o)
       PROVE  FALSE
  BY <1>13 DEF BeginOperation, CompleteOperation
<1>14. CASE Tick
  BY <1>0, <1>14 DEF Tick, TypeOK, Row
<1>15. CASE UNCHANGED vars
  BY <1>15 DEF vars
<1> QED
  BY <1>2, <1>3, <1>4, <1>5, <1>6, <1>7, <1>8, <1>9, <1>10, <1>11, <1>12,
     <1>13, <1>14, <1>15
     DEF Next, WorkerCall, ClientCall

LEMMA GrowByOne ==
  ASSUME NEW S \in SUBSET Jobs, NEW T \in SUBSET Jobs, NEW j \in Jobs,
         NEW n \in Nat, T \subseteq S \union {j},
         j \in T => Cardinality(S) < n, Cardinality(S) <= n
  PROVE  Cardinality(T) <= n
<1>1. IsFiniteSet(S) /\ IsFiniteSet(T) /\ Cardinality(S) \in Nat /\ Cardinality(T) \in Nat
  BY CountsAreNaturals
<1>2. CASE j \in T
  <2>1. /\ IsFiniteSet(S \union {j})
        /\ Cardinality(S \union {j}) \in Nat
        /\ Cardinality(S \union {j}) <= Cardinality(S) + 1
    BY <1>1, FS_AddElement, FS_CardinalityType
  <2>2. Cardinality(T) <= Cardinality(S \union {j})
    BY <2>1, FS_Subset
  <2> QED BY <1>1, <1>2, <2>1, <2>2
<1>3. CASE j \notin T
  <2>1. T \subseteq S
    BY <1>3
  <2>2. Cardinality(T) <= Cardinality(S)
    BY <1>1, <2>1, FS_Subset
  <2> QED BY <1>1, <2>2
<1> QED BY <1>2, <1>3

LEMMA CapacityStep == TypeOK /\ CapacityInv /\ [Next]_vars => CapacityInv'
<1> SUFFICES ASSUME TypeOK, CapacityInv, [Next]_vars PROVE CapacityInv'
  OBVIOUS
<1> USE SpecAssumption, PolicyAssumption
<1>1. CASE \E j \in Jobs, w \in Workers : Claim(j, w)
  <2>1. PICK j \in Jobs, w \in Workers : Claim(j, w)
    BY <1>1
  <2>2. \A k \in Jobs \ {j} : row'[k] = row[k]
    BY <2>1 DEF Claim, Save, TypeOK
  <2>3. InStatus(Active)' \subseteq InStatus(Active) \union {j}
    BY <2>2 DEF InStatus
  <2>4. Cardinality(InStatus(Active)') <= MaxActive
    <3>1. Cardinality(InStatus(Active)) < MaxActive
      BY <2>1 DEF Claim, Claimable
    <3> QED BY <2>3, <3>1, GrowByOne DEF CapacityInv, InStatus
  <2>5. ASSUME NEW p \in Providers
        PROVE  Cardinality(ActiveOf(p)') <= ProviderLimit[p]
    <3>1. ActiveOf(p)' \subseteq ActiveOf(p) \union {j}
      BY <2>3 DEF ActiveOf
    <3>2. j \in ActiveOf(p)' => Cardinality(ActiveOf(p)) < ProviderLimit[p]
      BY <2>1 DEF Claim, Claimable, HasProviderSlot, ActiveOf
    <3>3. /\ ActiveOf(p) \in SUBSET Jobs /\ ActiveOf(p)' \in SUBSET Jobs
          /\ ProviderLimit[p] \in Nat /\ Cardinality(ActiveOf(p)) <= ProviderLimit[p]
      BY DEF ActiveOf, InStatus, CapacityInv
    <3> QED BY <3>1, <3>2, <3>3, GrowByOne
  <2> QED BY <2>4, <2>5 DEF CapacityInv
<1>2. CASE ~\E j \in Jobs, w \in Workers : Claim(j, w)
  <2>1. \A k \in Jobs : row'[k].status \in Active => row[k].status \in Active
    BY <1>2, ActiveShrinks
  <2>2. InStatus(Active)' \subseteq InStatus(Active)
    BY <2>1 DEF InStatus
  <2>3. Cardinality(InStatus(Active)') <= Cardinality(InStatus(Active))
    BY <2>2, CountsAreNaturals, FS_Subset DEF InStatus
  <2>4. ASSUME NEW p \in Providers
        PROVE  Cardinality(ActiveOf(p)') <= ProviderLimit[p]
    <3>1. ActiveOf(p)' \subseteq ActiveOf(p)
      BY <2>2 DEF ActiveOf
    <3>2. /\ IsFiniteSet(ActiveOf(p)) /\ Cardinality(ActiveOf(p)) \in Nat
          /\ Cardinality(ActiveOf(p)') \in Nat
      BY CountsAreNaturals DEF ActiveOf, InStatus
    <3>3. Cardinality(ActiveOf(p)') <= Cardinality(ActiveOf(p))
      BY <3>1, <3>2, FS_Subset
    <3> QED BY <3>2, <3>3 DEF CapacityInv
  <2>5. Cardinality(InStatus(Active)) \in Nat /\ Cardinality(InStatus(Active)') \in Nat
    BY CountsAreNaturals DEF InStatus
  <2> QED BY <2>3, <2>4, <2>5 DEF CapacityInv
<1> QED BY <1>1, <1>2

\* The global and the per-provider limits hold for every policy.
THEOREM CapacityRespected == Spec => []CapacityInv
<1>1. Init => CapacityInv
  <2> SUFFICES ASSUME Init PROVE CapacityInv
    OBVIOUS
  <2>1. InStatus(Active) = {} /\ \A p \in Providers : ActiveOf(p) = {}
    BY DEF Init, InStatus, ActiveOf, NoRow, Active
  <2> QED BY <2>1, FS_EmptySet, PolicyAssumption DEF CapacityInv
<1> QED BY <1>1, CapacityStep, TypeCorrect, PTL DEF Spec

-----------------------------------------------------------------------------
(* What a step may never do.                                               *)

LEMMA TerminalStep ==
  ASSUME TypeOK, LocalInv, [Next]_vars, NEW k \in Jobs, row[k].status \in Terminal
  PROVE  row'[k] = [row[k] EXCEPT !.delay = row'[k].delay]
<1> USE DEF Terminal, Save, TypeOK
<1>0. row[k] = [row[k] EXCEPT !.delay = row[k].delay]
  BY DEF Row
<1>1. ASSUME NEW j \in Jobs, NEW r, Save(j, r), row[j].status \notin Terminal
      PROVE  row'[k] = row[k]
  BY <1>1
<1>2. ASSUME NEW j \in Jobs, ClientCall(j) PROVE row'[k] = row[k]
  BY <1>1, <1>2
     DEF ClientCall, Enqueue, RequestCancellation, Resume, CompleteInterrupted,
         BeginOperation, CompleteOperation, Waiting
<1>3. ASSUME NEW j \in Jobs, NEW w \in Workers, WorkerCall(j, w) PROVE row'[k] = row[k]
  BY <1>1, <1>3
     DEF WorkerCall, Claim, Claimable, Candidates, InStatus, Waiting, RenewLease,
         SafeBoundary, Interrupt, Complete, FinishActive, Fail, Owned, Active
<1>4. CASE RecoverExpiredLeases
  BY <1>0, <1>4 DEF RecoverExpiredLeases, Expired, InStatus, Active
<1>5. CASE Tick
  <2>1. row'[k] = [row[k] EXCEPT !.lease = Decrement(@), !.delay = Decrement(@)]
    BY <1>5 DEF Tick
  <2>2. row[k] \in Row /\ row[k].lease = 0
    BY DEF LocalInv, LocalAt, Active, Row
  <2>3. Decrement(row[k].lease) = row[k].lease
    BY <2>2 DEF Decrement
  <2> QED BY <2>1, <2>2, <2>3 DEF Row
<1>6. CASE UNCHANGED vars
  BY <1>0, <1>6 DEF vars
<1> QED BY <1>0, <1>2, <1>3, <1>4, <1>5, <1>6 DEF Next

\* No step changes a terminal row.
THEOREM TerminalRowsFinal == Spec => TerminalIsFinal
<1>1. TypeOK /\ LocalInv /\ [Next]_vars
        => [\A j \in Jobs : row[j].status \in Terminal =>
              row'[j] = [row[j] EXCEPT !.delay = row'[j].delay]]_vars
  BY TerminalStep
<1> QED BY <1>1, TypeCorrect, LocalInvariant, PTL DEF Spec, TerminalIsFinal

-----------------------------------------------------------------------------
(* The length of the queue.                                                *)

Pending == InStatus(Waiting) \union InStatus(Active)

LEMMA DisjointCounted ==
  ASSUME NEW S \in SUBSET Jobs, NEW T \in SUBSET Jobs, S \intersect T = {}
  PROVE  /\ Cardinality(S \union T) = Cardinality(S) + Cardinality(T)
         /\ Cardinality(S \union T) \in Nat
<1>1. /\ IsFiniteSet(S) /\ IsFiniteSet(T)
      /\ Cardinality(S) \in Nat /\ Cardinality(T) \in Nat
  BY CountsAreNaturals
<1>2. Cardinality(S \intersect T) = 0
  BY FS_EmptySet
<1>3. Cardinality(S \union T)
         = Cardinality(S) + Cardinality(T) - Cardinality(S \intersect T)
  BY <1>1, FS_Union
<1> QED BY <1>1, <1>2, <1>3

LEMMA PendingCounted ==
  /\ Cardinality(Pending) = Cardinality(InStatus(Waiting)) + Cardinality(InStatus(Active))
  /\ Cardinality(Pending) \in Nat
<1>1. InStatus(Waiting) \intersect InStatus(Active) = {}
  BY DEF InStatus, Waiting, Active
<1>2. InStatus(Waiting) \in SUBSET Jobs /\ InStatus(Active) \in SUBSET Jobs
  BY DEF InStatus
<1> QED BY <1>1, <1>2, DisjointCounted DEF Pending

\* The same of the state after a step.
LEMMA PendingCountedNext ==
  /\ Cardinality(Pending')
       = Cardinality(InStatus(Waiting)') + Cardinality(InStatus(Active)')
  /\ Cardinality(Pending') \in Nat
<1>1. InStatus(Waiting)' \intersect InStatus(Active)' = {}
  BY DEF InStatus, Waiting, Active
<1>2. InStatus(Waiting)' \in SUBSET Jobs /\ InStatus(Active)' \in SUBSET Jobs
  BY DEF InStatus
<1> QED BY <1>1, <1>2, DisjointCounted DEF Pending

\* The backlog grows only by an admission: every other step that returns a job to
\* the queue took it from there or from the active jobs.
LEMMA BacklogKept ==
  ASSUME TypeOK, CapacityInv, BacklogInv,
         \/ \E j \in Jobs : Enqueue(j)
         \/ \A k \in Jobs : row'[k].status \in Waiting \union Active
                             => row[k].status \in Waiting \union Active
  PROVE  BacklogInv'
<1> USE PolicyAssumption
<1>1. CASE \E j \in Jobs : Enqueue(j)
  <2>1. PICK j \in Jobs : Enqueue(j)
    BY <1>1
  <2>2. \A k \in Jobs \ {j} : row'[k] = row[k]
    BY <2>1 DEF Enqueue, Save, TypeOK
  <2>3. row'[j].status = "queued"
    BY <2>1 DEF Enqueue, Save, TypeOK, NoRow
  <2>4. /\ InStatus(Waiting)' \subseteq InStatus(Waiting) \union {j}
        /\ InStatus(Active)' \subseteq InStatus(Active)
    BY <2>2, <2>3 DEF InStatus, Waiting, Active
  <2>5. Cardinality(InStatus(Waiting)) < MaxQueueDepth
    BY <2>1 DEF Enqueue
  <2>6. Cardinality(InStatus(Waiting)') <= MaxQueueDepth
    <3>1. /\ InStatus(Waiting) \in SUBSET Jobs /\ InStatus(Waiting)' \in SUBSET Jobs
          /\ Cardinality(InStatus(Waiting)) \in Nat /\ MaxQueueDepth \in Nat
      BY CountsAreNaturals DEF InStatus
    <3>2. Cardinality(InStatus(Waiting)) <= MaxQueueDepth
      BY <2>5, <3>1
    <3> QED BY <2>4, <2>5, <3>1, <3>2, GrowByOne
  <2>7. Cardinality(InStatus(Active)') <= MaxActive
    <3>1. Cardinality(InStatus(Active)') <= Cardinality(InStatus(Active))
      BY <2>4, CountsAreNaturals, FS_Subset DEF InStatus
    <3>2. Cardinality(InStatus(Active)) \in Nat /\ Cardinality(InStatus(Active)') \in Nat
      BY CountsAreNaturals DEF InStatus
    <3> QED BY <3>1, <3>2 DEF CapacityInv
  <2>8. Cardinality(InStatus(Waiting)') \in Nat /\ Cardinality(InStatus(Active)') \in Nat
    BY CountsAreNaturals DEF InStatus
  <2> QED BY <2>6, <2>7, <2>8 DEF BacklogInv
<1>2. CASE \A k \in Jobs : row'[k].status \in Waiting \union Active
                               => row[k].status \in Waiting \union Active
  <2>1. Pending' \subseteq Pending
    BY <1>2 DEF Pending, InStatus
  <2>2. IsFiniteSet(Pending) /\ Cardinality(Pending) \in Nat
    BY CountsAreNaturals DEF Pending, InStatus
  <2>3. Cardinality(Pending') <= Cardinality(Pending)
    BY <2>1, <2>2, FS_Subset
  <2> QED BY <2>2, <2>3, PendingCounted, PendingCountedNext DEF BacklogInv
<1> QED BY <1>1, <1>2

LEMMA BacklogInit == Init => BacklogInv /\ CapacityInv
<1> SUFFICES ASSUME Init PROVE BacklogInv /\ CapacityInv
  OBVIOUS
<1>1. /\ InStatus(Waiting) = {} /\ InStatus(Active) = {}
      /\ \A p \in Providers : ActiveOf(p) = {}
  BY DEF Init, InStatus, ActiveOf, NoRow, Active, Waiting
<1>2. /\ Cardinality(InStatus(Waiting)) = 0 /\ Cardinality(InStatus(Active)) = 0
      /\ \A p \in Providers : Cardinality(ActiveOf(p)) = 0
  BY <1>1, FS_EmptySet
<1> QED BY <1>2, PolicyAssumption DEF BacklogInv, CapacityInv

-----------------------------------------------------------------------------
(* The refinement of JobLifecycle: every operation moves the phase of one  *)
(* job as the lifecycle allows, recovery moves several, and lease          *)
(* renewals, receipts and the clock move none.                             *)

\* The phases a client sees, as a function of the rows.
Seen == [j \in Jobs |-> Phase(row[j].status)]

LEMMA PhaseType == \A s \in Status : Phase(s) \in Lifecycle!Phases
  BY DEF Phase, Status, Waiting, Active, Terminal, Lifecycle!Phases, Lifecycle!Outcomes

\* Only active jobs are working.
LEMMA WorkingIsActive ==
  ASSUME TypeOK
  PROVE  Lifecycle!In("working") = InStatus(Active)
<1>1. ASSUME NEW j \in Jobs PROVE Phase(row[j].status) = "working" <=> row[j].status \in Active
  <2>1. row[j].status \in Status
    BY DEF TypeOK, Row
  <2> QED BY <2>1 DEF Phase, Status, Waiting, Active, Terminal
<1> QED BY <1>1 DEF Lifecycle!In, InStatus

\* The lifecycle counts as the queue does.
LEMMA SameCount ==
  ASSUME NEW S
  PROVE  Lifecycle!Cardinality(S) = Cardinality(S)
  BY Zenon DEF Lifecycle!Cardinality, Cardinality

\* Writing one row moves one phase.
LEMMA SaveMoves ==
  ASSUME TypeOK, NEW j \in Jobs, NEW r, Save(j, r)
  PROVE  Seen' = [Seen EXCEPT ![j] = Phase(r.status)] /\ Seen[j] = Phase(row[j].status)
  BY DEF TypeOK, Save, Seen

\* A row that keeps its status keeps its phase.
LEMMA SameStatus ==
  ASSUME \A j \in Jobs : row'[j].status = row[j].status
  PROVE  Seen' = Seen
  BY DEF Seen

LEMMA MoveStep ==
  ASSUME TypeOK, NEW j \in Jobs, NEW r, Save(j, r),
         NEW from, NEW to, Phase(row[j].status) = from, Phase(r.status) = to
  PROVE  Lifecycle!Move(j, from, to)
  BY SaveMoves DEF Lifecycle!Move, Seen

-----------------------------------------------------------------------------
\* Every step of the queue is a step of the lifecycle or keeps every phase.
LEMMA LifecycleStep == TypeOK /\ [Next]_vars => Lifecycle!Next \/ Seen' = Seen
<1> SUFFICES ASSUME TypeOK, [Next]_vars PROVE Lifecycle!Next \/ Seen' = Seen
  OBVIOUS
<1>0. ASSUME NEW j \in Jobs
      PROVE  row[j] \in Row /\ row[j].status \in Status /\ Released(row[j]) \in Row
  BY ReleasedType DEF TypeOK, Row
<1> USE DEF Phase, Waiting, Active
<1>1. ASSUME NEW j \in Jobs, Enqueue(j) PROVE Lifecycle!Submit(j)
  <2> DEFINE r == [NoRow EXCEPT !.status = "queued", !.created = Cardinality(Enqueued)]
  <2>1. Save(j, r) /\ r.status = "queued" /\ row[j].status = "absent"
    BY <1>1 DEF Enqueue, NoRow
  <2> QED BY <2>1, MoveStep DEF Lifecycle!Submit
<1>2. ASSUME NEW j \in Jobs, NEW w \in Workers, Claim(j, w) PROVE Lifecycle!Start(j)
  <2> DEFINE r == [row[j] EXCEPT !.status = "running", !.attempts = @ + 1,
                                 !.owner = w, !.lease = LeaseSeconds]
  <2>1. Save(j, r) /\ r.status = "running"
    BY <1>0, <1>2 DEF Claim, Row
  <2>2. row[j].status \in Waiting /\ Cardinality(InStatus(Active)) < MaxActive
    BY <1>2 DEF Claim, Claimable, Candidates, InStatus
  <2>3. Lifecycle!Move(j, "waiting", "working")
    BY <2>1, <2>2, MoveStep
  <2>4. Lifecycle!Cardinality(Lifecycle!In("working")) < MaxActive
    BY <2>2, WorkingIsActive, SameCount
  <2> QED BY <2>3, <2>4 DEF Lifecycle!Start
<1>3. ASSUME NEW j \in Jobs, NEW w \in Workers, RenewLease(j, w) PROVE Seen' = Seen
  BY <1>0, <1>3, SameStatus DEF RenewLease, Save, TypeOK, Row
<1>4. ASSUME NEW j \in Jobs, RequestCancellation(j)
      PROVE  Lifecycle!Withdraw(j) \/ Lifecycle!Review(j) \/ Seen' = Seen
  <2>1. CASE row[j].status \in Waiting \union {"interrupted"}
    <3> DEFINE r == [row[j] EXCEPT !.status = "cancelled", !.cancel = TRUE]
    <3>1. Save(j, r) /\ r.status = "cancelled"
      BY <1>0, <1>4, <2>1 DEF RequestCancellation, Row
    <3>2. CASE row[j].status \in Waiting
      BY <3>1, <3>2, MoveStep DEF Lifecycle!Withdraw
    <3>3. CASE row[j].status = "interrupted"
      BY <3>1, <3>3, MoveStep DEF Lifecycle!Review
    <3> QED BY <2>1, <3>2, <3>3
  <2>2. CASE row[j].status = "running"
    <3>1. Save(j, [row[j] EXCEPT !.status = "cancelling", !.cancel = TRUE])
      BY <1>4, <2>2 DEF RequestCancellation
    <3>2. row'[j].status = "cancelling" /\ \A k \in Jobs \ {j} : row'[k] = row[k]
      BY <1>0, <3>1 DEF Save, Row, TypeOK
    <3>3. \A k \in Jobs : Phase(row'[k].status) = Phase(row[k].status)
      BY <2>2, <3>2
    <3> QED BY <3>3 DEF Seen
  <2> QED BY <1>4, <2>1, <2>2 DEF RequestCancellation
<1>5. ASSUME NEW j \in Jobs, NEW w \in Workers, SafeBoundary(j, w) PROVE Lifecycle!Stop(j)
  <2> DEFINE r == [Released(row[j]) EXCEPT !.status = "cancelled"]
  <2>1. Save(j, r) /\ r.status = "cancelled" /\ row[j].status = "cancelling"
    BY <1>0, <1>5 DEF SafeBoundary, Row
  <2> QED BY <2>1, MoveStep DEF Lifecycle!Stop, Lifecycle!Outcomes
<1>6. ASSUME NEW j \in Jobs, NEW w \in Workers, Interrupt(j, w) PROVE Lifecycle!Park(j)
  <2> DEFINE r == [Released(row[j]) EXCEPT !.status = "interrupted", !.result = NoResult]
  <2>1. Save(j, r) /\ r.status = "interrupted" /\ row[j].status \in Active
    BY <1>0, <1>6 DEF Interrupt, FinishActive, Owned, Row
  <2> QED BY <2>1, MoveStep DEF Lifecycle!Park
<1>7. ASSUME NEW j \in Jobs, NEW w \in Workers, NEW result \in Results,
             Complete(j, w, result)
      PROVE  Lifecycle!Stop(j)
  <2> DEFINE r == [Released(row[j]) EXCEPT !.status = "completed", !.result = result]
  <2>1. Save(j, r) /\ r.status = "completed" /\ row[j].status \in Active
    BY <1>0, <1>7 DEF Complete, FinishActive, Owned, Row
  <2> QED BY <2>1, MoveStep DEF Lifecycle!Stop, Lifecycle!Outcomes
<1>8. ASSUME NEW j \in Jobs, Resume(j) PROVE Lifecycle!Review(j)
  <2> DEFINE r == [row[j] EXCEPT !.status = "queued", !.delay = 0]
  <2>1. Save(j, r) /\ r.status = "queued" /\ row[j].status = "interrupted"
    BY <1>0, <1>8 DEF Resume, Row
  <2> QED BY <2>1, MoveStep DEF Lifecycle!Review
<1>9. ASSUME NEW j \in Jobs, NEW result \in Results, CompleteInterrupted(j, result)
      PROVE  Lifecycle!Review(j)
  <2> DEFINE r == [row[j] EXCEPT !.status = "completed", !.result = result]
  <2>1. Save(j, r) /\ r.status = "completed" /\ row[j].status = "interrupted"
    BY <1>0, <1>9 DEF CompleteInterrupted, Row
  <2> QED BY <2>1, MoveStep DEF Lifecycle!Review
<1>10. ASSUME NEW j \in Jobs, NEW w \in Workers, NEW class, NEW delay, Fail(j, w, class, delay)
       PROVE  Lifecycle!Stop(j)
  <2> DEFINE s == FailureOutcome(j, class).status
             r == [Released(row[j]) EXCEPT !.status = s, !.delay = delay]
  <2>1. s \in {"retryable", "dead_letter", "failed"}
    BY FailureOutcomeType
  <2> HIDE DEF s
  <2>2. Save(j, r) /\ r.status = s /\ row[j].status \in Active
    <3>1. Save(j, r)
      BY <1>10 DEF Fail, s
    <3>2. r.status = s
      BY <1>0 DEF Row, Released
    <3>3. row[j].status \in Active
      BY <1>10 DEF Fail, Owned
    <3> QED BY <3>1, <3>2, <3>3
  <2>3. Phase(s) \in {"waiting", "dead_letter", "failed"}
    BY <2>1
  <2>4. Phase(row[j].status) = "working"
    BY <2>2 DEF Phase, Active, Waiting
  <2>5. Phase(s) \in {"waiting"} \union Lifecycle!Outcomes
    BY <2>3 DEF Lifecycle!Outcomes
  <2> HIDE DEF r, Phase
  <2>6. Lifecycle!Move(j, "working", Phase(s))
    BY <2>2, <2>4, MoveStep
  <2> QED BY <2>5, <2>6 DEF Lifecycle!Stop
<1>11. CASE RecoverExpiredLeases
  <2>1. Expired \subseteq InStatus(Active)
    BY DEF Expired, InStatus
  <2>2. ASSUME NEW j \in Expired
        PROVE  Phase(row'[j].status) \in {"waiting", "cancelled", "dead_letter"}
    <3>1. j \in Jobs /\ row'[j].status = RecoveredStatus(j)
      BY <1>0, <1>11, <2>1 DEF RecoverExpiredLeases, InStatus, Row
    <3> QED BY <3>1, RecoveredStatusType
  <2>3. \A j \in Jobs \ Expired : row'[j] = row[j]
    BY <1>11 DEF RecoverExpiredLeases
  <2>4. ASSUME NEW j \in Jobs PROVE Phase(row'[j].status) \in Lifecycle!Phases
    <3>1. CASE j \in Expired
      BY <2>2, <3>1 DEF Lifecycle!Phases, Lifecycle!Outcomes
    <3>2. CASE j \notin Expired
      BY <1>0, <2>3, <3>2, PhaseType
    <3> QED BY <3>1, <3>2
  <2>5. Expired \in SUBSET Jobs
    BY DEF Expired, InStatus
  <2>6. Expired \subseteq Lifecycle!In("working")
    BY <2>1, WorkingIsActive
  <2> HIDE DEF Phase
  <2>7. Lifecycle!Abandon(Expired)
    BY <2>2, <2>3, <2>4, <2>5, <2>6 DEF Lifecycle!Abandon
  <2> QED BY Zenon, <2>5, <2>7 DEF Lifecycle!Next
<1>12. ASSUME NEW j \in Jobs, NEW o \in Operations,
              BeginOperation(j, o) \/ CompleteOperation(j, o)
       PROVE  Seen' = Seen
  BY <1>12 DEF BeginOperation, CompleteOperation, Seen
<1>13. CASE Tick
  BY <1>0, <1>13, SameStatus DEF Tick, Row
<1>14. CASE UNCHANGED vars
  BY <1>14 DEF vars, Seen
<1>15. ASSUME NEW j \in Jobs, NEW w \in Workers, WorkerCall(j, w)
       PROVE  Lifecycle!Next \/ Seen' = Seen
  BY <1>2, <1>3, <1>5, <1>6, <1>7, <1>10, <1>15 DEF WorkerCall, Lifecycle!Next
<1>16. ASSUME NEW j \in Jobs, ClientCall(j) PROVE Lifecycle!Next \/ Seen' = Seen
  BY <1>1, <1>4, <1>8, <1>9, <1>12, <1>16 DEF ClientCall, Lifecycle!Next
<1> QED BY <1>11, <1>13, <1>14, <1>15, <1>16 DEF Next

\* The queue implements the lifecycle its clients are promised, for every set
\* of jobs and workers and every policy: one job at a time is submitted,
\* started within the limit, parked, reviewed or stopped, and only recovery
\* moves several.
THEOREM QueueImplementsLifecycle == Spec => ImplementsLifecycle
<1>1. Init => Lifecycle!Init
  BY DEF Init, NoRow, Lifecycle!Init, Phase, Waiting, Active
<1>2. TypeOK /\ [Next]_vars => [Lifecycle!Next]_([j \in Jobs |-> Phase(row[j].status)])
  BY LifecycleStep DEF Seen
<1> QED BY <1>1, <1>2, TypeCorrect, PTL DEF Spec, ImplementsLifecycle, Lifecycle!Spec
=============================================================================
