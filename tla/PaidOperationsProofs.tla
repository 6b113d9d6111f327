------------------------ MODULE PaidOperationsProofs ------------------------
(***************************************************************************)
(* Theorems about PaidOperations, for every set of keys and processes and  *)
(* every assignment of identities.                                         *)
(***************************************************************************)
EXTENDS PaidOperations, FiniteSetTheorems, TLAPS

\* The literals of a status are kept out of the way of the step proofs.
LEMMA OneIsNatural == \A condition : One(condition) \in Nat
BY DEF One

-----------------------------------------------------------------------------
(* Types.                                                                  *)

LEMMA ChargedType ==
  ASSUME NEW r \in Receipt, NEW priced \in BOOLEAN, NEW metered \in BOOLEAN,
         NEW status \in Status
  PROVE  [Charged(r, priced, metered) EXCEPT !.status = status] \in Receipt
<1>1. r.cost + One(priced) \in Nat /\ r.bound + One(metered /\ ~priced) \in Nat
  BY DEF Receipt, One
<1> QED BY <1>1 DEF Charged, Released, Receipt, Usage

\* A step of one process that writes one receipt keeps the types.
LEMMA SaveType ==
  ASSUME PaidTypeOK, NEW k \in Keys, NEW r \in Receipt, Save(k, r),
         r.status \in Leased <=> r.owner # NoWorker
  PROVE  /\ receipt' \in [Keys -> Receipt]
         /\ \A j \in Keys : receipt'[j].status \in Leased <=> receipt'[j].owner # NoWorker
BY DEF PaidTypeOK, Save

LEMMA BecomeType ==
  ASSUME PaidTypeOK, NEW p \in Processes, NEW s, Become(p, s),
         s \in [pc : {"idle", "reserved", "calling"}, key : Keys \union {NoKey}, call : Nat],
         s.pc # "idle" => s.key \in Keys
  PROVE  /\ process' \in [Processes -> [pc   : {"idle", "reserved", "calling"},
                                        key  : Keys \union {NoKey},
                                        call : Nat]]
         /\ \A q \in Processes : process'[q].pc # "idle" => process'[q].key \in Keys
BY DEF PaidTypeOK, Become

LEMMA IdleType ==
  ASSUME PaidTypeOK, NEW p \in Processes, Become(p, Idle)
  PROVE  /\ process' \in [Processes -> [pc   : {"idle", "reserved", "calling"},
                                        key  : Keys \union {NoKey},
                                        call : Nat]]
         /\ \A q \in Processes : process'[q].pc # "idle" => process'[q].key \in Keys
BY BecomeType DEF Idle

LEMMA PaidTypeStep == PaidTypeOK /\ [PaidNext]_paidVars => PaidTypeOK'
<1> SUFFICES ASSUME PaidTypeOK, [PaidNext]_paidVars PROVE PaidTypeOK'
  OBVIOUS
<1>1. ASSUME NEW p \in Processes, NEW k \in Keys, Reserve(p, k) PROVE PaidTypeOK'
  <2> DEFINE r == [receipt[k] EXCEPT !.status = "reserved", !.owner = Identity[p], !.live = TRUE]
             s == [pc |-> "reserved", key |-> k, call |-> 0]
  <2>1. Identity[p] \in Workers /\ Identity[p] # NoWorker
    BY ProcessAssumption
  <2>2. r \in Receipt /\ r.status \in Leased /\ r.owner # NoWorker
    BY <2>1 DEF PaidTypeOK, Receipt, Status, Leased
  <2>3. Save(k, r) /\ Become(p, s)
    BY <1>1 DEF Reserve
  <2>4. PaidTypeOK' <=> /\ receipt' \in [Keys -> Receipt]
                        /\ \A j \in Keys : receipt'[j].status \in Leased <=> receipt'[j].owner # NoWorker
                        /\ process' \in [Processes -> [pc   : {"idle", "reserved", "calling"},
                                                       key  : Keys \union {NoKey},
                                                       call : Nat]]
                        /\ \A q \in Processes : process'[q].pc # "idle" => process'[q].key \in Keys
    BY <1>1 DEF Reserve, PaidTypeOK
  <2>5. s \in [pc : {"idle", "reserved", "calling"}, key : Keys \union {NoKey}, call : Nat]
        /\ s.key \in Keys
    OBVIOUS
  <2> HIDE DEF r, s
  <2> QED BY <2>2, <2>3, <2>4, <2>5, SaveType, BecomeType
<1>2. ASSUME NEW p \in Processes, NEW k \in Keys, FindAmbiguous(p, k) PROVE PaidTypeOK'
  <2> DEFINE r == [Released(receipt[k]) EXCEPT !.status = "ambiguous"]
  <2>1. r \in Receipt /\ r.status \notin Leased /\ r.owner = NoWorker
    BY DEF PaidTypeOK, Receipt, Status, Leased, Released
  <2>2. Save(k, r)
    BY <1>2 DEF FindAmbiguous
  <2> HIDE DEF r
  <2> QED BY <1>2, <2>1, <2>2, SaveType DEF FindAmbiguous, PaidTypeOK
<1>3. ASSUME NEW p \in Processes, NEW k \in Keys, ReturnCached(p, k) PROVE PaidTypeOK'
  BY <1>3 DEF ReturnCached, Return, PaidTypeOK
<1>4. ASSUME NEW p \in Processes, Start(p) PROVE PaidTypeOK'
  <2> DEFINE k == process[p].key
             r == [receipt[k] EXCEPT !.status = "in_progress", !.attempts = @ + 1]
             s == [process[p] EXCEPT !.pc = "calling", !.call = receipt[k].attempts + 1]
  <2>1. k \in Keys
    BY <1>4 DEF Start, PaidTypeOK
  <2>2. receipt[k].attempts + 1 \in Nat /\ receipt[k].owner # NoWorker
    BY <1>4, <2>1 DEF Start, MayStart, PaidTypeOK, Receipt, Leased
  <2>3. r \in Receipt /\ r.status \in Leased /\ r.owner # NoWorker
    <3>1. receipt[k] \in Receipt
      BY <2>1 DEF PaidTypeOK
    <3>2. r.status = "in_progress" /\ r.owner = receipt[k].owner
      BY <3>1 DEF Receipt
    <3>3. r \in Receipt
      BY <2>2, <3>1 DEF Receipt, Status
    <3> QED BY <2>2, <3>2, <3>3 DEF Leased
  <2>4. s \in [pc : {"idle", "reserved", "calling"}, key : Keys \union {NoKey}, call : Nat]
        /\ s.key \in Keys
    <3>1. process[p] \in [pc : {"idle", "reserved", "calling"},
                          key : Keys \union {NoKey}, call : Nat]
      BY DEF PaidTypeOK
    <3>2. s.pc = "calling" /\ s.key = k /\ s.call = receipt[k].attempts + 1
      BY <3>1
    <3> QED BY <2>1, <2>2, <3>1, <3>2
  <2>5. Save(k, r) /\ Become(p, s)
    BY <1>4 DEF Start
  <2>6. UNCHANGED <<stored, returned, failures, authorized>>
    BY <1>4 DEF Start
  <2> HIDE DEF k, r, s
  <2>7. /\ receipt' \in [Keys -> Receipt]
        /\ \A j \in Keys : receipt'[j].status \in Leased <=> receipt'[j].owner # NoWorker
    BY <2>1, <2>3, <2>5, SaveType
  <2>8. /\ process' \in [Processes -> [pc   : {"idle", "reserved", "calling"},
                                       key  : Keys \union {NoKey},
                                       call : Nat]]
        /\ \A q \in Processes : process'[q].pc # "idle" => process'[q].key \in Keys
    BY <2>4, <2>5, BecomeType
  <2> QED BY <2>6, <2>7, <2>8 DEF PaidTypeOK
<1>5. ASSUME NEW p \in Processes, NEW priced \in BOOLEAN, Succeed(p, priced) PROVE PaidTypeOK'
  <2> DEFINE k == process[p].key
             r == [Charged(receipt[k], priced, k \notin Searches) EXCEPT !.status = "completed"]
  <2>1. k \in Keys /\ process[p].call \in Nat
    BY <1>5 DEF Succeed, PaidTypeOK
  <2>2. receipt[k] \in Receipt /\ "completed" \in Status
    BY <2>1 DEF PaidTypeOK, Status
  <2>3. r \in Receipt
    BY <2>2, ChargedType
  <2>4. r.status \notin Leased /\ r.owner = NoWorker
    BY <2>2 DEF Receipt, Charged, Released, Leased
  <2>5. Save(k, r) /\ Become(p, Idle)
    BY <1>5 DEF Succeed
  <2>6. stored' \in [Keys -> Nat] /\ returned' \in [Keys -> SUBSET Nat]
    BY <1>5, <2>1 DEF Succeed, Return, PaidTypeOK
  <2>7. UNCHANGED <<failures, authorized>>
    BY <1>5 DEF Succeed
  <2> HIDE DEF k, r
  <2> QED BY <2>1, <2>3, <2>4, <2>5, <2>6, <2>7, SaveType, IdleType DEF PaidTypeOK
<1>6. ASSUME NEW p \in Processes, NEW retryable \in BOOLEAN, NEW priced \in BOOLEAN,
             Err(p, retryable, priced)
      PROVE  PaidTypeOK'
  <2> DEFINE k == process[p].key
             status == FailedStatus(k, retryable)
             r == [Charged(receipt[k], priced, TRUE) EXCEPT !.status = status]
  <2>1. k \in Keys
    BY <1>6 DEF Err, PaidTypeOK
  <2>2. receipt[k] \in Receipt /\ status \in Status \ Leased
    BY <2>1 DEF PaidTypeOK, Status, Leased, FailedStatus
  <2>3. r \in Receipt
    BY <2>2, ChargedType
  <2>4. r.status \notin Leased /\ r.owner = NoWorker
    BY <2>2 DEF Receipt, Charged, Released
  <2>5. Save(k, r) /\ Become(p, Idle)
    BY <1>6 DEF Err
  <2>6. failures' \in [Keys -> Nat]
    BY <1>6, <2>1 DEF Err, PaidTypeOK
  <2>7. UNCHANGED <<stored, returned, authorized>>
    BY <1>6 DEF Err
  <2> HIDE DEF k, r, status
  <2> QED BY <2>1, <2>3, <2>4, <2>5, <2>6, <2>7, SaveType, IdleType DEF PaidTypeOK
<1>7. ASSUME NEW p \in Processes, Rejected(p) \/ Die(p) PROVE PaidTypeOK'
  BY <1>7, IdleType DEF Rejected, Die, PaidTypeOK
<1>8. ASSUME NEW k \in Keys, Expire(k) PROVE PaidTypeOK'
  <2>1. /\ [receipt[k] EXCEPT !.live = FALSE] \in Receipt
        /\ receipt[k].status \in Leased <=> receipt[k].owner # NoWorker
    BY DEF PaidTypeOK, Receipt
  <2> QED BY <1>8, <2>1 DEF Expire, PaidTypeOK, Save, Receipt
<1>9. ASSUME NEW k \in Keys, AuthorizeAmbiguousRetry(k) PROVE PaidTypeOK'
  <2> DEFINE r == [receipt[k] EXCEPT !.status = "failed_retryable"]
  <2>1. r \in Receipt /\ (r.status \in Leased <=> r.owner # NoWorker)
    BY <1>9 DEF AuthorizeAmbiguousRetry, PaidTypeOK, Receipt, Status, Leased
  <2>2. Save(k, r) /\ authorized' \in [Keys -> Nat]
    BY <1>9 DEF AuthorizeAmbiguousRetry, PaidTypeOK
  <2> HIDE DEF r
  <2> QED BY <1>9, <2>1, <2>2, SaveType DEF AuthorizeAmbiguousRetry, PaidTypeOK
<1>10. CASE UNCHANGED paidVars
  BY <1>10 DEF paidVars, PaidTypeOK
<1> QED BY <1>1, <1>2, <1>3, <1>4, <1>5, <1>6, <1>7, <1>8, <1>9, <1>10
        DEF PaidNext, ProcessStep

\* The ledger and the processes are well typed in every reachable state, and a
\* receipt has an owner exactly while it is leased.
THEOREM PaidTypeCorrect == PaidSpec => []PaidTypeOK
<1>1. PaidInit => PaidTypeOK
  BY DEF PaidInit, PaidTypeOK, NoReceipt, Receipt, Status, Leased, Usage, Idle
<1> QED BY <1>1, PaidTypeStep, PTL DEF PaidSpec
-----------------------------------------------------------------------------
(* Accounting: what each key has been called for, answered and charged.    *)
(* The parts of the invariants that concern one key.                       *)

CallsAt(k) ==
  receipt[k].attempts = failures[k] + authorized[k]
                          + One(InDoubt(k) \/ receipt[k].status = "completed")

AnswerAt(k) ==
  /\ returned[k] \subseteq {stored[k]}
  /\ receipt[k].status # "completed" => returned[k] = {}

\* The upper bound is kept only beside an unknown price, so a measured receipt
\* has forgotten none.
CostAt(k) ==
  /\ receipt[k].usage # "unknown" => receipt[k].bound = 0
  /\ k \notin Searches =>
       receipt[k].attempts
         = receipt[k].cost + receipt[k].bound + authorized[k] + One(InDoubt(k))

Accounts == \A k \in Keys : CallsAt(k) /\ AnswerAt(k) /\ CostAt(k)

\* A step that moves k only between statuses of the same meaning, and at most
\* returns the stored answer once more.
Unmoved(k) ==
  /\ \/ receipt'[k].status = receipt[k].status
     \/ {receipt[k].status, receipt'[k].status} \subseteq
          {"absent", "reserved", "failed_retryable"}
     \/ {receipt[k].status, receipt'[k].status} \subseteq {"in_progress", "ambiguous"}
  /\ receipt'[k].attempts = receipt[k].attempts
  /\ receipt'[k].cost = receipt[k].cost
  /\ receipt'[k].bound = receipt[k].bound
  /\ receipt'[k].usage = receipt[k].usage
  /\ stored'[k] = stored[k]
  /\ failures'[k] = failures[k]
  /\ authorized'[k] = authorized[k]
  /\ \/ returned'[k] = returned[k]
     \/ receipt[k].status = "completed" /\ returned'[k] = returned[k] \union {stored[k]}

LEMMA AccountsUntouched ==
  ASSUME NEW k \in Keys, CallsAt(k) /\ AnswerAt(k) /\ CostAt(k), Unmoved(k)
  PROVE  (CallsAt(k) /\ AnswerAt(k) /\ CostAt(k))'
<1> USE DEF Unmoved
<1>1. /\ One(InDoubt(k) \/ receipt[k].status = "completed")'
           = One(InDoubt(k) \/ receipt[k].status = "completed")
      /\ One(InDoubt(k))' = One(InDoubt(k))
      /\ receipt'[k].status = "completed" <=> receipt[k].status = "completed"
  BY DEF One, InDoubt
<1>2. CallsAt(k)'
  BY <1>1 DEF CallsAt
<1>3. AnswerAt(k)'
  BY <1>1 DEF AnswerAt
<1>4. CostAt(k)'
  BY <1>1 DEF CostAt
<1> QED BY <1>2, <1>3, <1>4

\* Charging an attempt adds it to the cost or to the upper bound.
LEMMA ChargedAmount ==
  ASSUME NEW r \in Receipt, NEW priced \in BOOLEAN, NEW metered \in BOOLEAN,
         r.usage # "unknown" => r.bound = 0
  PROVE  LET c == Charged(r, priced, metered) IN
         /\ c.attempts = r.attempts
         /\ c.usage # "unknown" => c.bound = 0
         /\ metered => c.cost + c.bound = r.cost + r.bound + 1
BY DEF Charged, Released, Receipt, One, Usage

LEMMA AccountsStep == PaidTypeOK /\ Accounts /\ [PaidNext]_paidVars => Accounts'
<1> SUFFICES ASSUME PaidTypeOK, Accounts, [PaidNext]_paidVars, NEW k \in Keys
             PROVE  (CallsAt(k) /\ AnswerAt(k) /\ CostAt(k))'
  BY DEF Accounts
<1>0. /\ CallsAt(k) /\ AnswerAt(k) /\ CostAt(k)
      /\ receipt[k] \in Receipt /\ failures[k] \in Nat /\ authorized[k] \in Nat
      /\ receipt[k].attempts \in Nat /\ receipt[k].cost \in Nat /\ receipt[k].bound \in Nat
  BY DEF Accounts, PaidTypeOK, Receipt
<1>1. ASSUME NEW p \in Processes, NEW j \in Keys, Reserve(p, j)
      PROVE  (CallsAt(k) /\ AnswerAt(k) /\ CostAt(k))'
  <2>1. receipt'[k] = IF k = j
                      THEN [receipt[j] EXCEPT !.status = "reserved", !.owner = Identity[p],
                                              !.live = TRUE]
                      ELSE receipt[k]
    BY <1>1 DEF Reserve, Save, PaidTypeOK
  <2>2. k = j => receipt[k].status \in {"absent", "reserved", "failed_retryable"}
                 /\ receipt'[k].status = "reserved"
    BY <1>0, <1>1, <2>1 DEF Reserve, Reservable, Receipt
  <2>3. Unmoved(k)
    BY <1>0, <1>1, <2>1, <2>2 DEF Reserve, Receipt, Unmoved
  <2> QED BY <1>0, <2>3, AccountsUntouched
<1>2. ASSUME NEW p \in Processes, NEW j \in Keys, FindAmbiguous(p, j)
      PROVE  (CallsAt(k) /\ AnswerAt(k) /\ CostAt(k))'
  <2>1. receipt'[k] = IF k = j THEN [Released(receipt[j]) EXCEPT !.status = "ambiguous"]
                               ELSE receipt[k]
    BY <1>2 DEF FindAmbiguous, Save, PaidTypeOK
  <2>2. k = j => receipt[k].status = "in_progress" /\ receipt'[k].status = "ambiguous"
    BY <1>0, <1>2, <2>1 DEF FindAmbiguous, Receipt, Released
  <2>3. Unmoved(k)
    BY <1>0, <1>2, <2>1, <2>2 DEF FindAmbiguous, Receipt, Released, Unmoved
  <2> QED BY <1>0, <2>3, AccountsUntouched
<1>3. ASSUME NEW p \in Processes, NEW j \in Keys, ReturnCached(p, j)
      PROVE  (CallsAt(k) /\ AnswerAt(k) /\ CostAt(k))'
  <2>1. Unmoved(k)
    BY <1>3 DEF ReturnCached, Return, PaidTypeOK, Unmoved
  <2> QED BY <1>0, <2>1, AccountsUntouched
<1>4. ASSUME NEW p \in Processes, Start(p)
      PROVE  (CallsAt(k) /\ AnswerAt(k) /\ CostAt(k))'
  <2>1. CASE k # process[p].key
    <3>1. Unmoved(k)
      BY <1>0, <1>4, <2>1 DEF Start, Save, PaidTypeOK, Unmoved
    <3> QED BY <1>0, <3>1, AccountsUntouched
  <2>2. CASE k = process[p].key
    <3>1. /\ receipt'[k] = [receipt[k] EXCEPT !.status = "in_progress", !.attempts = @ + 1]
          /\ receipt[k].status = "reserved"
          /\ UNCHANGED <<stored, returned, failures, authorized>>
      BY <1>4, <2>2 DEF Start, Save, MayStart, PaidTypeOK
    <3>2. /\ receipt'[k].status = "in_progress" /\ receipt'[k].attempts = receipt[k].attempts + 1
          /\ receipt'[k].cost = receipt[k].cost /\ receipt'[k].bound = receipt[k].bound
          /\ receipt'[k].usage = receipt[k].usage
      BY <1>0, <3>1 DEF Receipt
    <3>3. CallsAt(k)'
      BY <1>0, <3>1, <3>2 DEF CallsAt, One, InDoubt
    <3>4. AnswerAt(k)'
      BY <1>0, <3>1, <3>2 DEF AnswerAt
    <3>5. CostAt(k)'
      BY <1>0, <3>1, <3>2 DEF CostAt, One, InDoubt
    <3> QED BY <3>3, <3>4, <3>5
  <2> QED BY <2>1, <2>2
<1>5. ASSUME NEW p \in Processes, NEW priced \in BOOLEAN, Succeed(p, priced)
      PROVE  (CallsAt(k) /\ AnswerAt(k) /\ CostAt(k))'
  <2>1. CASE k # process[p].key
    <3>1. Unmoved(k)
      BY <1>0, <1>5, <2>1 DEF Succeed, Save, Return, PaidTypeOK, Unmoved
    <3> QED BY <1>0, <3>1, AccountsUntouched
  <2>2. CASE k = process[p].key
    <3> DEFINE c == Charged(receipt[k], priced, k \notin Searches)
    <3>1. /\ receipt'[k] = [c EXCEPT !.status = "completed"]
          /\ receipt[k].status = "in_progress"
          /\ stored'[k] = process[p].call
          /\ returned'[k] = returned[k] \union {process[p].call}
          /\ UNCHANGED <<failures, authorized>>
      BY <1>5, <2>2 DEF Succeed, Save, Return, MayClose, PaidTypeOK
    <3>2. /\ c.attempts = receipt[k].attempts
          /\ c.usage # "unknown" => c.bound = 0
          /\ k \notin Searches => c.cost + c.bound = receipt[k].cost + receipt[k].bound + 1
      BY <1>0, ChargedAmount DEF CostAt
    <3>3. /\ receipt'[k].status = "completed" /\ receipt'[k].attempts = c.attempts
          /\ receipt'[k].cost = c.cost /\ receipt'[k].bound = c.bound
          /\ receipt'[k].usage = c.usage
      BY <1>0, <3>1 DEF Charged, Released, Receipt
    <3>3a. c.cost \in Nat /\ c.bound \in Nat
      BY <1>0 DEF Charged, Released, Receipt, One
    <3> HIDE DEF c
    <3>4. CallsAt(k)'
      BY <1>0, <3>1, <3>2, <3>3 DEF CallsAt, One, InDoubt
    <3>5. AnswerAt(k)'
      BY <1>0, <3>1, <3>3 DEF AnswerAt
    <3>6. CostAt(k)'
      BY <1>0, <3>1, <3>2, <3>3, <3>3a DEF CostAt, One, InDoubt
    <3> QED BY <3>4, <3>5, <3>6
  <2> QED BY <2>1, <2>2
<1>6. ASSUME NEW p \in Processes, NEW retryable \in BOOLEAN, NEW priced \in BOOLEAN,
             Err(p, retryable, priced)
      PROVE  (CallsAt(k) /\ AnswerAt(k) /\ CostAt(k))'
  <2>1. CASE k # process[p].key
    <3>1. Unmoved(k)
      BY <1>0, <1>6, <2>1 DEF Err, Save, PaidTypeOK, Unmoved
    <3> QED BY <1>0, <3>1, AccountsUntouched
  <2>2. CASE k = process[p].key
    <3> DEFINE c == Charged(receipt[k], priced, TRUE)
    <3>1. /\ receipt'[k] = [c EXCEPT !.status = FailedStatus(k, retryable)]
          /\ receipt[k].status = "in_progress"
          /\ failures'[k] = failures[k] + 1
          /\ UNCHANGED <<stored, returned, authorized>>
      BY <1>6, <2>2 DEF Err, Save, MayClose, PaidTypeOK
    <3>2. /\ c.attempts = receipt[k].attempts
          /\ c.usage # "unknown" => c.bound = 0
          /\ c.cost + c.bound = receipt[k].cost + receipt[k].bound + 1
      BY <1>0, ChargedAmount DEF CostAt
    <3>3. /\ receipt'[k].status \in {"failed_retryable", "failed_permanent"}
          /\ receipt'[k].attempts = c.attempts
          /\ receipt'[k].cost = c.cost /\ receipt'[k].bound = c.bound
          /\ receipt'[k].usage = c.usage
      BY <1>0, <3>1 DEF Charged, Released, Receipt, FailedStatus
    <3>3a. c.cost \in Nat /\ c.bound \in Nat
      BY <1>0 DEF Charged, Released, Receipt, One
    <3> HIDE DEF c
    <3>4. CallsAt(k)'
      BY <1>0, <3>1, <3>2, <3>3 DEF CallsAt, One, InDoubt
    <3>5. AnswerAt(k)'
      BY <1>0, <3>1, <3>3 DEF AnswerAt
    <3>6. CostAt(k)'
      BY <1>0, <3>1, <3>2, <3>3, <3>3a DEF CostAt, One, InDoubt
    <3> QED BY <3>4, <3>5, <3>6
  <2> QED BY <2>1, <2>2
<1>7. ASSUME NEW p \in Processes, Rejected(p) \/ Die(p)
      PROVE  (CallsAt(k) /\ AnswerAt(k) /\ CostAt(k))'
  <2>1. Unmoved(k)
    BY <1>7 DEF Rejected, Die, Unmoved
  <2> QED BY <1>0, <2>1, AccountsUntouched
<1>8. ASSUME NEW j \in Keys, Expire(j) PROVE (CallsAt(k) /\ AnswerAt(k) /\ CostAt(k))'
  <2>1. receipt'[k] = IF k = j THEN [receipt[j] EXCEPT !.live = FALSE] ELSE receipt[k]
    BY <1>8 DEF Expire, Save, PaidTypeOK
  <2>2. Unmoved(k)
    BY <1>0, <1>8, <2>1 DEF Expire, Receipt, Unmoved
  <2> QED BY <1>0, <2>2, AccountsUntouched
<1>9. ASSUME NEW j \in Keys, AuthorizeAmbiguousRetry(j)
      PROVE  (CallsAt(k) /\ AnswerAt(k) /\ CostAt(k))'
  <2>1. CASE k # j
    <3>1. Unmoved(k)
      BY <1>0, <1>9, <2>1 DEF AuthorizeAmbiguousRetry, Save, PaidTypeOK, Unmoved
    <3> QED BY <1>0, <3>1, AccountsUntouched
  <2>2. CASE k = j
    <3>1. /\ receipt'[k] = [receipt[k] EXCEPT !.status = "failed_retryable"]
          /\ receipt[k].status = "ambiguous"
          /\ authorized'[k] = authorized[k] + 1
          /\ UNCHANGED <<stored, returned, failures>>
      BY <1>9, <2>2 DEF AuthorizeAmbiguousRetry, Save, PaidTypeOK
    <3>2. /\ receipt'[k].status = "failed_retryable" /\ receipt'[k].attempts = receipt[k].attempts
          /\ receipt'[k].cost = receipt[k].cost /\ receipt'[k].bound = receipt[k].bound
          /\ receipt'[k].usage = receipt[k].usage
      BY <1>0, <3>1 DEF Receipt
    <3>3. CallsAt(k)'
      BY <1>0, <3>1, <3>2 DEF CallsAt, One, InDoubt
    <3>4. AnswerAt(k)'
      BY <1>0, <3>1, <3>2 DEF AnswerAt
    <3>5. CostAt(k)'
      BY <1>0, <3>1, <3>2 DEF CostAt, One, InDoubt
    <3> QED BY <3>3, <3>4, <3>5
  <2> QED BY <2>1, <2>2
<1>10. CASE UNCHANGED paidVars
  <2>1. Unmoved(k)
    BY <1>10 DEF paidVars, Unmoved
  <2> QED BY <1>0, <2>1, AccountsUntouched
<1> QED BY <1>1, <1>2, <1>3, <1>4, <1>5, <1>6, <1>7, <1>8, <1>9, <1>10
        DEF PaidNext, ProcessStep

LEMMA AccountsCorrect == PaidSpec => []Accounts
<1>1. PaidInit => Accounts
  BY DEF PaidInit, Accounts, CallsAt, AnswerAt, CostAt, NoReceipt, One, InDoubt
<1> QED BY <1>1, AccountsStep, PaidTypeCorrect, PTL DEF PaidSpec

\* No operation is called again without a recorded failure or a human.
THEOREM CallsAreJustified == PaidSpec => []CallsJustified
<1>1. Accounts => CallsJustified
  BY DEF Accounts, CallsAt, CallsJustified
<1> QED BY <1>1, AccountsCorrect, PTL

\* All callers of an operation are given one answer.
THEOREM AnswersAgree == PaidSpec => []OneAnswer
<1>1. Accounts => OneAnswer
  BY DEF Accounts, AnswerAt, OneAnswer
<1> QED BY <1>1, AccountsCorrect, PTL

\* The ledger covers every model call no human gave up on.
THEOREM CostsAreCovered == PaidSpec => []CostCovered
<1>1. Accounts => CostCovered
  BY DEF Accounts, CostAt, CostCovered
<1> QED BY <1>1, AccountsCorrect, PTL
-----------------------------------------------------------------------------
(* Concurrent calls.                                                       *)

OneCallAt(k) == Cardinality(Calling(k)) <= authorized[k] + One(InDoubt(k))

LEMMA CallersAreCounted ==
  \A k \in Keys : IsFiniteSet(Calling(k)) /\ Cardinality(Calling(k)) \in Nat
BY ProcessAssumption, FS_Subset, FS_CardinalityType DEF Calling

\* A step after which no more calls of k run, and as many are accounted for.
LEMMA NoNewCall ==
  ASSUME PaidTypeOK, NEW k \in Keys, OneCallAt(k), Calling(k)' \subseteq Calling(k),
         authorized'[k] + One(InDoubt(k))' = authorized[k] + One(InDoubt(k))
  PROVE  OneCallAt(k)'
<1>1. IsFiniteSet(Calling(k)) /\ Cardinality(Calling(k)) \in Nat
  BY CallersAreCounted
<1>2. Cardinality(Calling(k)') <= Cardinality(Calling(k)) /\ Cardinality(Calling(k)') \in Nat
  BY <1>1, FS_Subset, FS_CardinalityType
<1>3. authorized[k] + One(InDoubt(k)) \in Nat
  BY DEF PaidTypeOK, One
<1> QED BY <1>1, <1>2, <1>3 DEF OneCallAt

\* A call of k ends, and with it the doubt about it.
LEMMA CallEnds ==
  ASSUME PaidTypeOK, NEW k \in Keys, NEW p \in Processes, OneCallAt(k),
         process[p].pc = "calling", process[p].key = k, Become(p, Idle),
         InDoubt(k), ~InDoubt(k)', authorized'[k] = authorized[k]
  PROVE  OneCallAt(k)'
<1>1. p \in Calling(k) /\ Calling(k)' = Calling(k) \ {p}
  BY DEF Calling, Become, Idle, PaidTypeOK
<1>2. /\ IsFiniteSet(Calling(k)) /\ Cardinality(Calling(k)) \in Nat
      /\ Cardinality(Calling(k) \ {p}) = Cardinality(Calling(k)) - 1
  BY <1>1, CallersAreCounted, FS_RemoveElement
<1>3. One(InDoubt(k)) = 1 /\ One(InDoubt(k))' = 0 /\ authorized[k] \in Nat
  BY DEF One, PaidTypeOK
<1>4. Cardinality(Calling(k)) <= authorized[k] + 1
  BY <1>3 DEF OneCallAt
<1>5. Cardinality(Calling(k)') <= authorized'[k] + 0
  BY <1>1, <1>2, <1>3, <1>4
<1> QED BY <1>3, <1>5 DEF OneCallAt

LEMMA OneCallStep == PaidTypeOK /\ OneCallAtATime /\ [PaidNext]_paidVars => OneCallAtATime'
<1> SUFFICES ASSUME PaidTypeOK, OneCallAtATime, [PaidNext]_paidVars, NEW k \in Keys
             PROVE  OneCallAt(k)'
  BY DEF OneCallAtATime, OneCallAt
<1>0. OneCallAt(k) /\ receipt[k] \in Receipt /\ authorized[k] \in Nat
  BY DEF OneCallAtATime, OneCallAt, PaidTypeOK
<1>1. ASSUME NEW p \in Processes, NEW j \in Keys, Reserve(p, j) PROVE OneCallAt(k)'
  <2>1. Calling(k)' = Calling(k)
    BY <1>1 DEF Reserve, Calling, Become, Idle, PaidTypeOK
  <2>2. InDoubt(k)' <=> InDoubt(k)
    BY <1>0, <1>1 DEF Reserve, Reservable, Save, InDoubt, Receipt, PaidTypeOK
  <2>3. authorized'[k] + One(InDoubt(k))' = authorized[k] + One(InDoubt(k))
    BY <1>1, <2>2 DEF Reserve, One
  <2> QED BY <1>0, <2>1, <2>3, NoNewCall
<1>2. ASSUME NEW p \in Processes, NEW j \in Keys, FindAmbiguous(p, j) PROVE OneCallAt(k)'
  <2>1. Calling(k)' = Calling(k)
    BY <1>2 DEF FindAmbiguous, Calling
  <2>2. InDoubt(k)' <=> InDoubt(k)
    BY <1>0, <1>2 DEF FindAmbiguous, Save, Released, InDoubt, Receipt, PaidTypeOK
  <2>3. authorized'[k] + One(InDoubt(k))' = authorized[k] + One(InDoubt(k))
    BY <1>2, <2>2 DEF FindAmbiguous, One
  <2> QED BY <1>0, <2>1, <2>3, NoNewCall
<1>3. ASSUME NEW p \in Processes, NEW j \in Keys, ReturnCached(p, j) PROVE OneCallAt(k)'
  BY <1>0, <1>3 DEF ReturnCached, OneCallAt, Calling, InDoubt, One
<1>4. ASSUME NEW p \in Processes, Start(p) PROVE OneCallAt(k)'
  <2>1. CASE k # process[p].key
    <3>1. Calling(k)' = Calling(k)
      BY <1>4, <2>1 DEF Start, Calling, Become, PaidTypeOK
    <3>2. receipt'[k] = receipt[k] /\ authorized'[k] = authorized[k]
      BY <1>4, <2>1 DEF Start, Save, PaidTypeOK
    <3> QED BY <1>0, <3>1, <3>2, NoNewCall DEF InDoubt, One
  <2>2. CASE k = process[p].key
    <3>1. p \notin Calling(k) /\ Calling(k)' = Calling(k) \union {p}
      BY <1>4, <2>2 DEF Start, Calling, Become, PaidTypeOK
    <3>2. /\ Cardinality(Calling(k)) \in Nat
          /\ Cardinality(Calling(k) \union {p}) = Cardinality(Calling(k)) + 1
      BY <3>1, CallersAreCounted, FS_AddElement
    <3>3. ~InDoubt(k) /\ InDoubt(k)' /\ authorized'[k] = authorized[k]
      BY <1>0, <1>4, <2>2 DEF Start, MayStart, Save, InDoubt, Receipt, PaidTypeOK
    <3>4. One(InDoubt(k)) = 0 /\ One(InDoubt(k))' = 1
      BY <3>3 DEF One
    <3>5. Cardinality(Calling(k)') <= authorized[k] + 1
      BY <1>0, <3>1, <3>2, <3>4 DEF OneCallAt
    <3> QED BY <3>3, <3>4, <3>5 DEF OneCallAt
  <2> QED BY <2>1, <2>2
<1>5. ASSUME NEW p \in Processes, process[p].pc = "calling", Become(p, Idle), MayClose(p),
             UNCHANGED authorized,
             \E r \in Receipt : Save(process[p].key, r) /\ r.status \notin {"in_progress", "ambiguous"}
      PROVE  OneCallAt(k)'
  <2>1. CASE k # process[p].key
    <3>1. Calling(k)' \subseteq Calling(k)
      BY <1>5 DEF Calling, Become, Idle, PaidTypeOK
    <3>2. receipt'[k] = receipt[k] /\ authorized'[k] = authorized[k]
      BY <1>5, <2>1 DEF Save, PaidTypeOK
    <3> QED BY <1>0, <3>1, <3>2, NoNewCall DEF InDoubt, One
  <2>2. CASE k = process[p].key
    <3>1. InDoubt(k) /\ ~InDoubt(k)' /\ authorized'[k] = authorized[k]
      BY <1>5, <2>2 DEF MayClose, InDoubt, Save, PaidTypeOK
    <3> QED BY <1>0, <1>5, <2>2, <3>1, CallEnds
  <2> QED BY <2>1, <2>2
<1>6. ASSUME NEW p \in Processes, NEW priced \in BOOLEAN, Succeed(p, priced)
      PROVE  OneCallAt(k)'
  <2> DEFINE j == process[p].key
             c == Charged(receipt[j], priced, j \notin Searches)
             r == [c EXCEPT !.status = "completed"]
  <2>1. j \in Keys /\ receipt[j] \in Receipt /\ "completed" \in Status
    BY <1>6 DEF Succeed, PaidTypeOK, Status
  <2>2. r \in Receipt
    BY <2>1, ChargedType
  <2>3. r.status = "completed"
    BY <2>1 DEF Charged, Released, Receipt
  <2>4. Save(j, r) /\ process[p].pc = "calling" /\ Become(p, Idle) /\ MayClose(p)
        /\ UNCHANGED authorized
    BY <1>6 DEF Succeed
  <2> HIDE DEF r
  <2>5. \E q \in Receipt : Save(j, q) /\ q.status \notin {"in_progress", "ambiguous"}
    BY <2>2, <2>3, <2>4
  <2> QED BY <1>5, <2>4, <2>5
<1>7. ASSUME NEW p \in Processes, NEW retryable \in BOOLEAN, NEW priced \in BOOLEAN,
             Err(p, retryable, priced)
      PROVE  OneCallAt(k)'
  <2> DEFINE j == process[p].key
             c == Charged(receipt[j], priced, TRUE)
             r == [c EXCEPT !.status = FailedStatus(j, retryable)]
  <2>1. j \in Keys /\ receipt[j] \in Receipt /\ FailedStatus(j, retryable) \in Status
    BY <1>7 DEF Err, PaidTypeOK, Status, FailedStatus
  <2>2. r \in Receipt
    BY <2>1, ChargedType
  <2>3. r.status \notin {"in_progress", "ambiguous"}
    BY <2>1 DEF Charged, Released, Receipt, FailedStatus
  <2>4. Save(j, r) /\ process[p].pc = "calling" /\ Become(p, Idle) /\ MayClose(p)
        /\ UNCHANGED authorized
    BY <1>7 DEF Err
  <2> HIDE DEF r
  <2>5. \E q \in Receipt : Save(j, q) /\ q.status \notin {"in_progress", "ambiguous"}
    BY <2>2, <2>3, <2>4
  <2> QED BY <1>5, <2>4, <2>5
<1>8. ASSUME NEW p \in Processes, Rejected(p) \/ Die(p) PROVE OneCallAt(k)'
  <2>1. Calling(k)' \subseteq Calling(k)
    BY <1>8 DEF Rejected, Die, Calling, Become, Idle, PaidTypeOK
  <2>2. receipt' = receipt /\ authorized' = authorized
    BY <1>8 DEF Rejected, Die
  <2> QED BY <1>0, <2>1, <2>2, NoNewCall DEF InDoubt, One
<1>9. ASSUME NEW j \in Keys, Expire(j) PROVE OneCallAt(k)'
  <2>1. receipt'[k].status = receipt[k].status
    BY <1>0, <1>9 DEF Expire, Save, Receipt, PaidTypeOK
  <2> QED BY <1>0, <1>9, <2>1 DEF Expire, OneCallAt, Calling, InDoubt, One
<1>10. ASSUME NEW j \in Keys, AuthorizeAmbiguousRetry(j) PROVE OneCallAt(k)'
  <2>1. Calling(k)' = Calling(k)
    BY <1>10 DEF AuthorizeAmbiguousRetry, Calling
  <2>2. authorized'[k] + One(InDoubt(k))' = authorized[k] + One(InDoubt(k))
    <3>1. CASE k # j
      BY <1>10, <3>1 DEF AuthorizeAmbiguousRetry, Save, InDoubt, One, PaidTypeOK
    <3>2. CASE k = j
      BY <1>0, <1>10, <3>2 DEF AuthorizeAmbiguousRetry, Save, InDoubt, One, Receipt, PaidTypeOK
    <3> QED BY <3>1, <3>2
  <2> QED BY <1>0, <2>1, <2>2, NoNewCall
<1>11. CASE UNCHANGED paidVars
  BY <1>0, <1>11 DEF paidVars, OneCallAt, Calling, InDoubt, One
<1> QED BY <1>1, <1>2, <1>3, <1>4, <1>6, <1>7, <1>8, <1>9, <1>10, <1>11
        DEF PaidNext, ProcessStep

\* Concurrent claims never both execute unless a human authorized it, whatever
\* identities the processes share.
THEOREM CallsAreSerial == PaidSpec => []OneCallAtATime
<1>1. PaidInit => OneCallAtATime
  <2> SUFFICES ASSUME PaidInit, NEW k \in Keys PROVE OneCallAt(k)
    BY DEF OneCallAtATime, OneCallAt
  <2>1. Calling(k) = {}
    BY DEF PaidInit, Calling, Idle
  <2>2. Cardinality(Calling(k)) = 0 /\ authorized[k] = 0 /\ One(InDoubt(k)) = 0
    BY <2>1, FS_EmptySet DEF PaidInit, NoReceipt, InDoubt, One
  <2> QED BY <2>2 DEF OneCallAt
<1> QED BY <1>1, OneCallStep, PaidTypeCorrect, PTL DEF PaidSpec
=============================================================================
