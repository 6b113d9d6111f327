--------------------------- MODULE PaidOperations ---------------------------
(***************************************************************************)
(* The paid-operation ledger, SQLitePaidOperationLedger, and the two       *)
(* provider decorators that call a metered model or search engine through  *)
(* it: IdempotentStructuredModelProvider and IdempotentSearchProvider.     *)
(*                                                                         *)
(* Every ledger call is one BEGIN IMMEDIATE transaction and one action.    *)
(* A process is one execution of generate or search; several of them may   *)
(* run under the same worker identity, which is all the ledger compares.   *)
(* The code between mark_provider_started and the provider's await does    *)
(* nothing else, so a started receipt counts as a call that was made.      *)
(*                                                                         *)
(* Prices are counted in calls: a call the provider reported a price for   *)
(* adds one unit to the cost, any other adds one unit to the upper bound   *)
(* (unknown_cost_upper_bound_usd).  Keys are digests of the canonical      *)
(* input, so two processes meet on a key only for the same operation.      *)
(***************************************************************************)
EXTENDS Integers, FiniteSets

CONSTANTS
  Keys,       \* operation keys
  Searches,   \* the keys of kind SEARCH; the others are model calls
  Processes,
  Workers,
  Identity,   \* the worker_id a process uses
  NoWorker, NoKey,
  MaxStarts   \* bound on the provider calls of one key

ASSUME KeysAssumption == Searches \subseteq Keys /\ NoKey \notin Keys
ASSUME ProcessAssumption ==
  /\ IsFiniteSet(Processes)
  /\ Identity \in [Processes -> Workers]
  /\ NoWorker \notin Workers
ASSUME BoundAssumption == MaxStarts \in Nat

VARIABLES
  receipt,     \* paid_operation_receipts
  stored,      \* paid_operation_results: the call whose result is stored
  process,     \* where each process is
  returned,    \* the calls whose results callers were given, per key
  failures,    \* history: failed calls the ledger recorded
  authorized   \* history: manual authorizations

paidVars == <<receipt, stored, process, returned, failures, authorized>>

-----------------------------------------------------------------------------
\* Nothing writes PaidReceiptStatus.CANCELLED; "absent" is no row.
Status == {"absent", "reserved", "in_progress", "completed",
           "failed_retryable", "failed_permanent", "ambiguous"}
Leased == {"reserved", "in_progress"}
Usage  == {"unclassified", "measured", "unknown", "not_applicable"}

Receipt == [status   : Status,
            owner    : Workers \union {NoWorker},
            live     : BOOLEAN,   \* the lease has not expired
            attempts : Nat,
            cost     : Nat,
            bound    : Nat,
            usage    : Usage]

NoReceipt == [status |-> "absent", owner |-> NoWorker, live |-> FALSE,
              attempts |-> 0, cost |-> 0, bound |-> 0, usage |-> "unclassified"]

Idle == [pc |-> "idle", key |-> NoKey, call |-> 0]

Released(r) == [r EXCEPT !.owner = NoWorker, !.live = FALSE]

Save(k, r) == receipt' = [receipt EXCEPT ![k] = r]
Become(p, s) == process' = [process EXCEPT ![p] = s]
Return(k, call) == returned' = [returned EXCEPT ![k] = @ \union {call}]

One(condition) == IF condition THEN 1 ELSE 0

PaidInit ==
  /\ receipt = [k \in Keys |-> NoReceipt]
  /\ stored = [k \in Keys |-> 0]
  /\ process = [p \in Processes |-> Idle]
  /\ returned = [k \in Keys |-> {}]
  /\ failures = [k \in Keys |-> 0]
  /\ authorized = [k \in Keys |-> 0]

-----------------------------------------------------------------------------
(* reserve, and what the decorators do with its decision.  ACTIVE,         *)
(* TERMINAL_FAILURE and a known AMBIGUOUS receipt raise and change nothing.*)

\* Mutant of Reservable: a call whose lease expired is started again.
ReservableInProgress(k) ==
  \/ receipt[k].status \in {"absent", "failed_retryable"}
  \/ receipt[k].status \in Leased /\ ~receipt[k].live

Reservable(k) ==
  \/ receipt[k].status \in {"absent", "failed_retryable"}
  \/ receipt[k].status = "reserved" /\ ~receipt[k].live

Reserve(p, k) ==
  /\ process[p] = Idle
  /\ Reservable(k)
  /\ Save(k, [receipt[k] EXCEPT !.status = "reserved", !.owner = Identity[p],
                                !.live = TRUE])
  /\ Become(p, [pc |-> "reserved", key |-> k, call |-> 0])
  /\ UNCHANGED <<stored, returned, failures, authorized>>

\* The lease of a call expired: nobody knows whether the provider answered.
FindAmbiguous(p, k) ==
  /\ process[p] = Idle
  /\ receipt[k].status = "in_progress" /\ ~receipt[k].live
  /\ Save(k, [Released(receipt[k]) EXCEPT !.status = "ambiguous"])
  /\ UNCHANGED <<stored, process, returned, failures, authorized>>

ReturnCached(p, k) ==
  /\ process[p] = Idle
  /\ receipt[k].status = "completed"
  /\ Return(k, stored[k])
  /\ UNCHANGED <<receipt, stored, process, failures, authorized>>

-----------------------------------------------------------------------------
(* The call.                                                               *)

\* _owned and the status check of mark_provider_started, complete and fail:
\* the owner is an identity, not a process, and the expiry is not looked at.
Owns(p) == receipt[process[p].key].owner = Identity[p]

\* Mutant of MayStart: the status of the receipt is not checked.
MayStartOwned(p) == Owns(p)

MayStart(p) == Owns(p) /\ receipt[process[p].key].status = "reserved"
MayClose(p) == Owns(p) /\ receipt[process[p].key].status = "in_progress"

Start(p) ==
  LET k == process[p].key IN
  /\ process[p].pc = "reserved"
  /\ receipt[k].attempts < MaxStarts
  /\ MayStart(p)
  /\ Save(k, [receipt[k] EXCEPT !.status = "in_progress", !.attempts = @ + 1])
  /\ Become(p, [process[p] EXCEPT !.pc = "calling", !.call = receipt[k].attempts + 1])
  /\ UNCHANGED <<stored, returned, failures, authorized>>

\* Mutant of Charged: the upper bound of earlier attempts is overwritten.
ChargedOnce(r, priced, metered) ==
  LET unknown == r.usage = "unknown" \/ (metered /\ ~priced) IN
  [Released(r) EXCEPT
     !.cost  = @ + One(priced),
     !.bound = IF unknown THEN One(metered /\ ~priced) ELSE 0,
     !.usage = IF unknown THEN "unknown"
               ELSE IF metered THEN "measured" ELSE "not_applicable"]

\* The receipt after an attempt: an unknown price is remembered from attempt
\* to attempt, and the upper bound grows with every one of them.
Charged(r, priced, metered) ==
  LET unknown == r.usage = "unknown" \/ (metered /\ ~priced) IN
  [Released(r) EXCEPT
     !.cost  = @ + One(priced),
     !.bound = IF unknown THEN @ + One(metered /\ ~priced) ELSE 0,
     !.usage = IF unknown THEN "unknown"
               ELSE IF metered THEN "measured" ELSE "not_applicable"]

\* The provider answered and complete accepts it.  A successful search is not
\* metered by the receipt.
Succeed(p, priced) ==
  LET k == process[p].key IN
  /\ process[p].pc = "calling"
  /\ k \in Searches => ~priced
  /\ MayClose(p)
  /\ Save(k, [Charged(receipt[k], priced, k \notin Searches) EXCEPT !.status = "completed"])
  /\ stored' = [stored EXCEPT ![k] = process[p].call]
  /\ Return(k, process[p].call)
  /\ Become(p, Idle)
  /\ UNCHANGED <<failures, authorized>>

\* Mutant of FailedStatus: the two spellings of the status are mixed up.
FailedStatusName(k, retryable) == IF retryable THEN "retryable" ELSE "failed_permanent"

FailedStatus(k, retryable) == IF retryable THEN "failed_retryable" ELSE "failed_permanent"

\* The provider raised and fail accepts it.  Every error of a search is
\* retryable, and none of them reports usage.
Err(p, retryable, priced) ==
  LET k == process[p].key IN
  /\ process[p].pc = "calling"
  /\ k \in Searches => retryable /\ ~priced
  /\ MayClose(p)
  /\ Save(k, [Charged(receipt[k], priced, TRUE) EXCEPT
                !.status = FailedStatus(k, retryable)])
  /\ failures' = [failures EXCEPT ![k] = @ + 1]
  /\ Become(p, Idle)
  /\ UNCHANGED <<stored, returned, authorized>>

\* The ledger refuses the start, or a late answer or error: the call of the
\* process raises and its caller gets no result.
Rejected(p) ==
  /\ \/ process[p].pc = "reserved" /\ ~MayStart(p)
     \/ process[p].pc = "calling" /\ ~MayClose(p)
  /\ Become(p, Idle)
  /\ UNCHANGED <<receipt, stored, returned, failures, authorized>>

\* The process dies, its task is cancelled, or one of the hooks around the
\* call raises: none of these reaches the ledger.
Die(p) ==
  /\ process[p] # Idle
  /\ Become(p, Idle)
  /\ UNCHANGED <<receipt, stored, returned, failures, authorized>>

-----------------------------------------------------------------------------
Expire(k) ==
  /\ receipt[k].live
  /\ Save(k, [receipt[k] EXCEPT !.live = FALSE])
  /\ UNCHANGED <<stored, process, returned, failures, authorized>>

AuthorizeAmbiguousRetry(k) ==
  /\ receipt[k].status = "ambiguous"
  /\ Save(k, [receipt[k] EXCEPT !.status = "failed_retryable"])
  /\ authorized' = [authorized EXCEPT ![k] = @ + 1]
  /\ UNCHANGED <<stored, process, returned, failures>>

ProcessStep(p) ==
  \/ \E k \in Keys : Reserve(p, k) \/ FindAmbiguous(p, k) \/ ReturnCached(p, k)
  \/ Start(p)
  \/ \E priced \in BOOLEAN : Succeed(p, priced)
  \/ \E retryable, priced \in BOOLEAN : Err(p, retryable, priced)
  \/ Rejected(p)
  \/ Die(p)

PaidNext ==
  \/ \E p \in Processes : ProcessStep(p)
  \/ \E k \in Keys : Expire(k) \/ AuthorizeAmbiguousRetry(k)

PaidSpec == PaidInit /\ [][PaidNext]_paidVars

-----------------------------------------------------------------------------
\* The ledger and the processes hold values of their types, and a receipt has
\* an owner exactly while it is leased (validate_receipt_state).
PaidTypeOK ==
  /\ receipt \in [Keys -> Receipt]
  /\ \A k \in Keys : receipt[k].status \in Leased <=> receipt[k].owner # NoWorker
  /\ stored \in [Keys -> Nat]
  /\ process \in [Processes -> [pc   : {"idle", "reserved", "calling"},
                                key  : Keys \union {NoKey},
                                call : Nat]]
  /\ \A p \in Processes : process[p].pc # "idle" => process[p].key \in Keys
  /\ returned \in [Keys -> SUBSET Nat]
  /\ failures \in [Keys -> Nat]
  /\ authorized \in [Keys -> Nat]

\* The call of the current attempt is running or its outcome is unknown.
InDoubt(k) == receipt[k].status \in {"in_progress", "ambiguous"}

\* Ambiguous work never retries automatically and completed work never repeats:
\* each call after the first answers a recorded failure or a manual
\* authorization, although leases expire and identities are shared.
CallsJustified ==
  \A k \in Keys :
    receipt[k].attempts = failures[k] + authorized[k]
                            + One(InDoubt(k) \/ receipt[k].status = "completed")

Calling(k) == {p \in Processes : process[p].pc = "calling" /\ process[p].key = k}

\* Concurrent claims cannot both execute: two calls of one operation run at
\* the same time only when a human authorized the second one.
OneCallAtATime ==
  \A k \in Keys : Cardinality(Calling(k)) <= authorized[k] + One(InDoubt(k))

\* Every caller of one operation is given the same answer, the stored one: a
\* late answer is either stored or raises, it is never returned beside another.
OneAnswer ==
  \A k \in Keys :
    /\ returned[k] \subseteq {stored[k]}
    /\ receipt[k].status # "completed" => returned[k] = {}

\* The cost and its upper bound cover every model call except those whose loss
\* a human accepted by authorizing the retry, and the one now in doubt.
CostCovered ==
  \A k \in Keys \ Searches :
    receipt[k].attempts
      = receipt[k].cost + receipt[k].bound + authorized[k] + One(InDoubt(k))

=============================================================================
