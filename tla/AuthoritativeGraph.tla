------------------------- MODULE AuthoritativeGraph -------------------------
(***************************************************************************)
(* One thread of the authoritative LangGraph workflow: its job, the        *)
(* requests that review it, and the four stores they write without a       *)
(* common transaction:                                                     *)
(*   history  the append-only state repository of the application,         *)
(*   graph    LangGraph's own checkpointer, which decides where a run      *)
(*            continues,                                                   *)
(*   store    the artifacts of the investigation,                          *)
(*   ledger   the review ledger.                                           *)
(*                                                                         *)
(* A node runs on the event loop up to its checkpoint, and no other run of *)
(* the thread sees it half done; a crash does.  LangGraph writes its       *)
(* checkpoint after the node returned and while later nodes run, so graph  *)
(* may lag behind history by any number of nodes.                          *)
(*                                                                         *)
(* The queue is reduced to the status of the job; JobQueue and ApiJobs     *)
(* have its protocol.  What nodes compute is left out, except what decides *)
(* where the thread goes and which artifacts a node may find twice.        *)
(***************************************************************************)
EXTENDS Integers, Sequences, FiniteSets, SequencesExt

CONSTANTS
  Requests,    \* concurrent calls of the review endpoint
  Decisions,   \* review decisions, by decision_id
  Kind,        \* the kind of a decision
  MaxAttempts, \* maximum_attempts of the job
  MaxCrashes,  \* bound on the crashes of the process
  None

Kinds == {"approve", "revise", "request_evidence", "reject"}

ASSUME GraphAssumption ==
  /\ Kind \in [Decisions -> Kinds]
  /\ "job" \notin Requests
  /\ None \notin Decisions
  /\ MaxAttempts \in Nat \ {0} /\ MaxCrashes \in Nat

VARIABLES
  job,       \* status of the job in the queue
  attempts,  \* its attempts
  run,       \* the run of the thread that the job or a request is executing
  history,   \* checkpoints of the state repository
  graph,     \* the latest checkpoint of LangGraph
  store,     \* artifacts of the investigation
  ledger,    \* the thread's request in the review ledger
  crashes

graphVars == <<job, attempts, run, history, graph, store, ledger, crashes>>

Clients == {"job"} \union Requests

-----------------------------------------------------------------------------
(* The graph.                                                              *)

Sequence == <<"create", "normalize", "plan", "prepare", "research",
              "consolidate", "provenance", "verify", "ledger", "defender",
              "challenger", "reconcile", "draft", "policy", "audit",
              "readiness", "route">>

Analysis == Range(Sequence)
Nodes == Analysis \union
         {"review", "approve_or_revise", "more_evidence", "reject", "finalize", "end"}

\* The operation of each of these nodes is completed once; the others append
\* progress without an operation.
Operations == Analysis \union {"finalize"}

PhaseOf(n) ==
  CASE n = "create"                                       -> "created"
    [] n = "normalize"                                    -> "claim_analysis"
    [] n \in {"plan", "prepare"}                          -> "planning"
    [] n \in {"research", "consolidate"}                  -> "research"
    [] n \in {"provenance", "verify"}                     -> "verification"
    [] n \in {"ledger", "defender", "challenger", "reconcile"} -> "arguments"
    [] n \in {"draft", "policy"}                          -> "judgment"
    [] n = "audit"                                        -> "citation_assurance"
    [] n = "readiness"                                    -> "readiness"
    [] n \in {"review", "more_evidence"}                  -> "review"
    [] n = "approve_or_revise"                            -> "finalization"
    [] n = "reject"                                       -> "cancelled"
    [] n = "finalize"                                     -> "complete"

\* _ALLOWED_PHASE_TRANSITIONS, without those from the phases in Terminal.
PhaseOrder == <<"created", "claim_analysis", "planning", "research",
                "verification", "arguments", "judgment", "citation_assurance",
                "readiness">>
Ended == {"complete", "cancelled"}
Phases == Range(PhaseOrder) \union {"review", "finalization"} \union Ended

AllowedPhase(old, new) ==
  \/ new = old
  \/ \E i \in 1 .. Len(PhaseOrder) - 1 : old = PhaseOrder[i] /\ new = PhaseOrder[i + 1]
  \/ old = "readiness" /\ new \in {"review", "finalization"}
  \/ old = "review" /\ new \in {"research", "finalization", "cancelled"}
  \/ old = "finalization" /\ new = "complete"

Following(n) ==
  CASE n \in Analysis \ {"route"} ->
         Sequence[1 + CHOOSE i \in 1 .. Len(Sequence) : Sequence[i] = n]
    [] n = "approve_or_revise" -> "finalize"
    [] OTHER -> "end"

AfterReview(kind) ==
  CASE kind = "request_evidence" -> "more_evidence"
    [] kind = "reject"           -> "reject"
    [] OTHER                     -> "approve_or_revise"

-----------------------------------------------------------------------------
(* The stores.                                                             *)

State == [seq : Nat, phase : Phases, done : SUBSET Operations,
          decision : Decisions \union {None}, report : BOOLEAN]
NoState == [seq |-> 0, phase |-> "created", done |-> {},
            decision |-> None, report |-> FALSE]

\* Where a thread is: the node it runs next, whether that node has interrupted
\* itself, and the authoritative state in its channel.
Position == [next : Nodes, parked : BOOLEAN, state : State]
Fresh == [next |-> "create", parked |-> FALSE, state |-> NoState]
NoPosition == [next |-> "none", parked |-> FALSE, state |-> NoState]

\* What the policies decide from the artifacts of the thread: the status of its
\* publication decision and whether it needs a review.  They are functions of
\* what is persisted, so a route that runs again decides the same.
Routing == {r \in [status : {"ready", "review_required", "blocked"}, review : BOOLEAN] :
              r.status # "ready" => r.review}

NoRun == [at |-> NoPosition, saved |-> TRUE, decision |-> None, approver |-> FALSE]
Running(c) == run[c] # NoRun

GraphInit ==
  /\ job = "queued"
  /\ attempts = 0
  /\ run = [c \in Clients |-> NoRun]
  /\ history = <<>>
  /\ graph = NoPosition
  /\ \E r \in Routing :
       store = [claims |-> 0, publications |-> 0, status |-> "none",
                completed |-> FALSE, report |-> FALSE, due |-> r]
  /\ ledger = [requested |-> FALSE, decision |-> None, approved |-> FALSE,
               revised |-> FALSE]
  /\ crashes = 0

\* The state a node hands to the repository.
Checkpoint(s, n, phase) ==
  [s EXCEPT !.seq    = IF n = "create" THEN 0 ELSE @ + 1,
            !.phase  = phase,
            !.done   = IF n \in Operations THEN @ \union {n} ELSE @,
            !.report = @ \/ n = "finalize"]

\* Mutant of Accepted: a checkpoint may repeat the sequence of the latest one.
AcceptedTwice(new) ==
  \/ history = <<>> /\ new.seq = 0
  \/ /\ history # <<>>
     /\ LET old == Last(history) IN
          /\ new.seq \in {old.seq, old.seq + 1}
          /\ old.phase \notin Ended
          /\ AllowedPhase(old.phase, new.phase)
          /\ old.done \subseteq new.done
          /\ old.decision \in {None, new.decision}
          /\ old.report => new.report

\* append and validate_monotonic_graph_transition.
Accepted(new) ==
  \/ history = <<>> /\ new.seq = 0
  \/ /\ history # <<>>
     /\ LET old == Last(history) IN
          /\ new.seq = old.seq + 1
          /\ old.phase \notin Ended
          /\ AllowedPhase(old.phase, new.phase)
          /\ old.done \subseteq new.done
          /\ old.decision \in {None, new.decision}
          /\ old.report => new.report

-----------------------------------------------------------------------------
(* How a run ends, and what is left of it.                                 *)

\* LangGraph finishes its pending writes before a run returns or raises.
Leave(c) ==
  /\ run' = [run EXCEPT ![c] = NoRun]
  /\ graph' = IF run[c].saved THEN graph ELSE run[c].at

\* Mutant of StatusAfterError: the failure class is written as the status.
StatusAfterErrorName(completed, class) ==
  IF completed THEN (IF job = "running" THEN "completed" ELSE job)
  ELSE IF class = "transient" /\ attempts < MaxAttempts THEN "queued"
  ELSE class

\* The except branch of execute_next_job: an investigation that is already
\* completed completes the job, unless it is being cancelled.
StatusAfterError(completed, class) ==
  IF completed THEN (IF job = "running" THEN "completed" ELSE job)
  ELSE IF class = "transient" /\ attempts < MaxAttempts THEN "queued"
  ELSE "failed"

Raise(c, class, completed) ==
  /\ Leave(c)
  /\ job' = IF c = "job" THEN StatusAfterError(completed, class) ELSE job
  /\ UNCHANGED history

\* checkpoint and checkpoint_progress: append to the repository, then the safe
\* boundary of the job, then return to LangGraph.  A refused append and a
\* cancelled job raise, and LangGraph stays where it was.
Commit(c, new, next) ==
  IF ~Accepted(new) THEN Raise(c, "permanent", store'.completed)
  ELSE /\ history' = Append(history, new)
       /\ IF c = "job" /\ job = "cancelling" /\ new.seq > 0
          THEN Leave(c) /\ job' = "cancelled"
          ELSE /\ run' = [run EXCEPT ![c].saved = FALSE,
                            ![c].at = [next |-> next, parked |-> FALSE, state |-> new]]
               /\ UNCHANGED <<graph, job>>

\* LangGraph's checkpoint of what the run has reached.
Persist(c) ==
  /\ Running(c) /\ ~run[c].saved
  /\ graph' = run[c].at
  /\ run' = [run EXCEPT ![c].saved = TRUE]
  /\ UNCHANGED <<job, attempts, history, store, ledger, crashes>>

-----------------------------------------------------------------------------
(* The nodes.                                                              *)

At(c, n) == Running(c) /\ run[c].at.next = n /\ ~run[c].at.parked
Done(c, n, phase) == Checkpoint(run[c].at.state, n, phase)

\* normalize saves a claim under a new id each time it runs; two of them stand
\* for several.  The other nodes save under ids they compute again.
WithClaim == [store EXCEPT !.claims = IF @ < 2 THEN @ + 1 ELSE @]

AnalysisNode(c, n) ==
  /\ At(c, n)
  /\ n \notin {"create", "normalize"} => store.claims = 1
  /\ store' = IF n = "normalize" THEN WithClaim ELSE store
  /\ Commit(c, Done(c, n, PhaseOf(n)), Following(n))
  /\ UNCHANGED <<attempts, ledger, crashes>>

\* _one: "expected one claim artifact".
ClaimAmbiguous(c, n) ==
  /\ At(c, n)
  /\ n \notin {"create", "normalize"} /\ store.claims # 1
  /\ Raise(c, "permanent", store.completed)
  /\ UNCHANGED <<attempts, store, ledger, crashes>>

\* A provider or a policy raises before the node has saved anything.
NodeRaises(c, n, class) ==
  /\ At(c, n)
  /\ Raise(c, class, store.completed)
  /\ UNCHANGED <<attempts, store, ledger, crashes>>

\* The publication decision has an id computed from its content.
Routed == [store EXCEPT !.publications = 1, !.status = store.due.status]
WithRequest == [ledger EXCEPT !.requested = store.due.review]

Route(c) ==
  /\ At(c, "route") /\ store.claims = 1
  /\ store' = Routed
  /\ ledger' = WithRequest
  /\ IF store.due.review THEN Commit(c, Done(c, "route", "review"), "review")
                         ELSE Commit(c, Done(c, "route", "finalization"), "finalize")
  /\ UNCHANGED <<attempts, crashes>>

\* interrupt() in the review node of a run that brings no decision.
Park(c) ==
  /\ At(c, "review")
  /\ run' = [run EXCEPT ![c].at.parked = TRUE, ![c].saved = FALSE]
  /\ UNCHANGED <<job, attempts, history, graph, store, ledger, crashes>>

\* Mutant of NeedsApproval: a revision is taken without its approval.
OnlyApprovals(d) == Kind[d] = "approve"

\* The resumed review node: the ledger takes the decision, then the approval,
\* then the revision, each in a transaction of its own.
NeedsApproval(d) == Kind[d] \in {"approve", "revise"}
WithDecision(d) == [ledger EXCEPT !.decision = d]
WithApproval(d) == [WithDecision(d) EXCEPT !.approved = NeedsApproval(d)]
WithRevision(d) == [WithApproval(d) EXCEPT !.revised = Kind[d] = "revise"]

\* Mutant of Recordable: UNIQUE(request_id) is missing from reviewer_decisions.
RecordableAgain(d) == d \in Decisions

\* Idempotent by decision_id, and one decision per request.
Recordable(d) == ledger.decision \in {None, d}

\* An approver was named and is not the reviewer.
Approver(r) == run[r].approver

Resumed(r) == Running(r) /\ run[r].at.next = "review" /\ run[r].at.parked

ReviewNode(r) ==
  LET d   == run[r].decision
      new == [Done(r, "review", "review") EXCEPT !.decision = d] IN
  /\ Resumed(r) /\ Recordable(d)
  /\ UNCHANGED <<attempts, store, crashes>>
  /\ IF NeedsApproval(d) /\ ~Approver(r)
     THEN /\ ledger' = WithDecision(d)
          /\ Raise(r, "permanent", FALSE)
     ELSE /\ ledger' = WithRevision(d)
          /\ Commit(r, new, AfterReview(Kind[d]))

\* The checks before the ledger is written, and the ledger's refusal of a
\* second decision.
ReviewRefused(r) ==
  /\ Resumed(r)
  /\ Raise(r, "permanent", FALSE)
  /\ UNCHANGED <<attempts, store, ledger, crashes>>

\* A new publication decision, READY or BLOCKED, replaces one that required
\* review and one whose verdict was revised.
Releases(c) ==
  store.status = "review_required" \/ Kind[run[c].at.state.decision] = "revise"

Republished(status) == [store EXCEPT !.publications = @ + 1, !.status = status]

ApproveOrRevise(c) ==
  /\ At(c, "approve_or_revise") /\ store.publications = 1
  /\ IF Releases(c) THEN \E status \in {"ready", "blocked"} : store' = Republished(status)
                    ELSE UNCHANGED store
  /\ Commit(c, Done(c, "approve_or_revise", "finalization"), "finalize")
  /\ UNCHANGED <<attempts, ledger, crashes>>

\* _one: "expected one publication_decision artifact".
PublicationAmbiguous(c) ==
  /\ At(c, "approve_or_revise") /\ store.publications # 1
  /\ Raise(c, "permanent", store.completed)
  /\ UNCHANGED <<attempts, store, ledger, crashes>>

CloseThread(c, n) ==
  /\ n \in {"more_evidence", "reject"}
  /\ At(c, n)
  /\ UNCHANGED <<attempts, store, ledger, crashes>>
  /\ Commit(c, Done(c, n, PhaseOf(n)), "end")

Completed == [store EXCEPT !.completed = TRUE]
Reported == [Completed EXCEPT !.report = TRUE]

Finalize(c) ==
  /\ At(c, "finalize")
  /\ store' = Reported
  /\ Commit(c, Done(c, "finalize", "complete"), "end")
  /\ UNCHANGED <<attempts, ledger, crashes>>

-----------------------------------------------------------------------------
(* start, called by the job loop.                                          *)

\* claim, then the thread is continued where LangGraph has it, or begun.
StartJob ==
  /\ job = "queued" /\ ~Running("job")
  /\ job' = "running" /\ attempts' = attempts + 1
  /\ run' = [run EXCEPT !["job"] =
               [NoRun EXCEPT !.at = IF graph = NoPosition THEN Fresh ELSE graph]]
  /\ UNCHANGED <<history, graph, store, ledger, crashes>>

\* The thread is interrupted or at its end: safe boundary, then interrupt or
\* complete.
JobReturns ==
  /\ Running("job")
  /\ run["job"].at.parked \/ run["job"].at.next = "end"
  /\ Leave("job")
  /\ job' = IF job = "cancelling" THEN "cancelled"
            ELSE IF run["job"].at.parked THEN "interrupted" ELSE "completed"
  /\ UNCHANGED <<attempts, history, store, ledger, crashes>>

RequestCancellation ==
  /\ job' = CASE job = "running"                    -> "cancelling"
              [] job \in {"queued", "interrupted"} -> "cancelled"
              [] OTHER                             -> job
  /\ UNCHANGED <<attempts, run, history, graph, store, ledger, crashes>>

\* recover_expired_leases.
Recover ==
  /\ job \in {"running", "cancelling"} /\ ~Running("job")
  /\ job' = IF job = "cancelling" THEN "cancelled"
            ELSE IF attempts < MaxAttempts THEN "queued" ELSE "failed"
  /\ UNCHANGED <<attempts, run, history, graph, store, ledger, crashes>>

(* resume, called by review_authoritative_job.                             *)

\* The thread is interrupted and nobody has decided, so the graph is invoked.
\* An accepted decision that is sent again before the graph went on returns the
\* interrupt and changes nothing; a different one raises.
Resume(r, d, approver) ==
  /\ ~Running(r)
  /\ graph.parked /\ ledger.decision = None
  /\ run' = [run EXCEPT ![r] = [NoRun EXCEPT !.decision = d, !.approver = approver]]
  /\ UNCHANGED <<job, attempts, history, graph, store, ledger, crashes>>

\* The graph reads the latest checkpoint again and goes on from there: by now
\* another request may have taken the thread on, or to its end.
Invoke(r) ==
  /\ Running(r) /\ run[r].at = NoPosition
  /\ run' = [run EXCEPT ![r].at = graph]
  /\ UNCHANGED <<job, attempts, history, graph, store, ledger, crashes>>

\* complete_interrupted, and the investigation is stored as completed.
CloseJob ==
  /\ job' = IF job = "interrupted" THEN "completed" ELSE job
  /\ store' = IF job = "interrupted" THEN Completed ELSE store

\* The accepted decision is sent again and LangGraph holds no interrupt.
Replay(r, d) ==
  /\ ~Running(r)
  /\ graph # NoPosition /\ ~graph.parked /\ ledger.decision = d
  /\ CloseJob
  /\ UNCHANGED <<attempts, run, history, graph, ledger, crashes>>

RequestReturns(r) ==
  /\ At(r, "end")
  /\ Leave(r)
  /\ CloseJob
  /\ UNCHANGED <<attempts, history, ledger, crashes>>

(* The process dies.  A node that was running may have written a part of   *)
(* what it writes before its checkpoint.                                   *)
Halfway(c) ==
  [store : {store}, ledger : {ledger}] \union
  CASE At(c, "normalize") -> [store : {WithClaim}, ledger : {ledger}]
    [] At(c, "route") -> [store : {Routed}, ledger : {ledger, WithRequest}]
    [] c \in Requests /\ Resumed(c) /\ Recordable(run[c].decision) ->
         LET d == run[c].decision IN
         [store : {store}, ledger : {WithDecision(d)} \union
            (IF Approver(c) THEN {WithApproval(d), WithRevision(d)} ELSE {})]
    [] At(c, "approve_or_revise") /\ store.publications = 1 /\ Releases(c) ->
         [store : {Republished("ready"), Republished("blocked")}, ledger : {ledger}]
    [] At(c, "finalize") -> [store : {Completed, Reported}, ledger : {ledger}]
    [] OTHER -> {}

Crash ==
  /\ crashes < MaxCrashes
  /\ \E c \in Clients :
       /\ Running(c)
       /\ \E e \in Halfway(c) : store' = e.store /\ ledger' = e.ledger
  /\ crashes' = crashes + 1
  /\ run' = [c \in Clients |-> NoRun]
  /\ UNCHANGED <<job, attempts, history, graph>>

Node(c) ==
  \/ \E n \in Analysis \ {"route"} : AnalysisNode(c, n)
  \/ \E n \in Analysis : ClaimAmbiguous(c, n)
  \/ Route(c) \/ Park(c) \/ ApproveOrRevise(c) \/ PublicationAmbiguous(c)
  \/ \E n \in {"more_evidence", "reject"} : CloseThread(c, n)
  \/ Finalize(c)

GraphNext ==
  \/ \E c \in Clients :
       \/ Node(c) \/ Persist(c)
       \/ \E n \in Analysis, class \in {"transient", "permanent"} : NodeRaises(c, n, class)
  \/ StartJob \/ JobReturns \/ RequestCancellation \/ Recover
  \/ \E r \in Requests :
       \/ Invoke(r) \/ ReviewNode(r) \/ ReviewRefused(r) \/ RequestReturns(r)
       \/ \E d \in Decisions :
            Replay(r, d) \/ \E approver \in BOOLEAN : Resume(r, d, approver)
  \/ Crash

GraphSpec == GraphInit /\ [][GraphNext]_graphVars

-----------------------------------------------------------------------------
Run == [at : Position \union {NoPosition}, saved : BOOLEAN,
        decision : Decisions \union {None}, approver : BOOLEAN]

\* The four stores, the job and the runs hold values of their types.
GraphTypeOK ==
  /\ job \in {"queued", "running", "cancelling", "interrupted", "completed",
              "failed", "cancelled"}
  /\ attempts \in 0 .. MaxAttempts
  /\ run \in [Clients -> Run]
  /\ history \in Seq(State)
  /\ graph \in Position \union {NoPosition}
  /\ store \in [claims : 0 .. 2, publications : 0 .. 2,
                status : {"none", "ready", "review_required", "blocked"},
                completed : BOOLEAN, report : BOOLEAN, due : Routing]
  /\ ledger \in [requested : BOOLEAN, decision : Decisions \union {None},
                 approved : BOOLEAN, revised : BOOLEAN]
  /\ crashes \in 0 .. MaxCrashes

\* The two checkpoint stores never diverge, whatever crashes and whoever runs
\* the thread: what LangGraph would continue from is a prefix of the history.
GraphInHistory ==
  graph \notin {NoPosition, Fresh} =>
    /\ graph.state.seq < Len(history)
    /\ history[graph.state.seq + 1] = graph.state

\* A thread takes one decision: concurrent and repeated requests, and runs that
\* continue the thread, all see the decision the ledger accepted.
OneDecision ==
  /\ \A i \in 1 .. Len(history) : history[i].decision \in {None, ledger.decision}
  /\ graph.state.decision \in {None, ledger.decision}

\* Once review was requested, no report exists without an approving or revising
\* decision and the approval of somebody else; and a revised report has its
\* revision on record.
ReportApproved ==
  (store.report \/ \E i \in 1 .. Len(history) : history[i].report) /\ ledger.requested
    => /\ ledger.decision # None
       /\ Kind[ledger.decision] \in {"approve", "revise"}
       /\ ledger.approved
       /\ Kind[ledger.decision] = "revise" => ledger.revised

\* PHASE_9_STAGE_9.11_COMPLETION_REPORT.md: "replaying the same immutable
\* decision reconstructs the completed graph and safely closes the original
\* job": an approved job that is completed has its report.
ClosedWithReport ==
  job = "completed" /\ ledger.decision # None /\ NeedsApproval(ledger.decision)
    => store.report
=============================================================================
