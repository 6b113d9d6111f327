# Claim Polygraph NG in TLA+

Formal models of the parts of Claim Polygraph NG (`src/claim_polygraph_ng`)
whose correctness depends on the order of events: the durable job queue, the
workers and the API process that use it, the ledger of paid provider calls, the
authoritative LangGraph workflow with its human review, the research rounds and
the argument roles that run inside its nodes, the review ledger with the
endpoints that write it, and the policies that lead from the evidence to a
published report.  TLC checks the models on small instances; TLAPS proves, for
every instance, every safety property the passing runs check, and that the queue
implements the lifecycle its clients are promised, the workers and the API the
queue, and the review endpoints the ledger.

Paths below are relative to `src/claim_polygraph_ng`.

1. [The system](#1-the-system)
2. [Modules and the code they stand for](#2-modules-and-the-code-they-stand-for)
3. [Runs, bounds and what they show](#3-runs-bounds-and-what-they-show)
4. [Fairness](#4-fairness)
5. [Proofs](#5-proofs)
6. [Disagreements with the documentation](#6-disagreements-with-the-documentation)
7. [Not modelled](#7-not-modelled)
8. [Plan](#8-plan)

## 1. The system

A client submits a claim; a job is queued; a worker leases it and runs an
investigation (search, extraction, verification, arguments, judgment); the
result is published, or parked until a human has reviewed it.

```
 client --HTTP--> api.py --enqueue/cancel/review--> SQLiteJobQueue (persistence/jobs.py)
                    |                                    ^ claim/renew/boundary/complete/fail
                    | worker_loop ------------------------+
                    v
   LangGraphAuthoritativeInvestigationGraph ---- LangGraph checkpointer
        |  append            |  save            \---- ReviewLedger (persistence/review.py)
        v                    v
  graph state repository   artifact store
        |
        +-- research fan-out, argument subgraph, verification subgraph
                 |
                 +-- IdempotentStructuredModelProvider / IdempotentSearchProvider
                             |
                             +-- SQLitePaidOperationLedger -- metered providers
```

### Components that keep state

| Component | State | Operations | Hard behaviour | What makes it correct |
|---|---|---|---|---|
| Durable job queue, `persistence/jobs.py`, `domain/jobs.py` | rows of `durable_jobs` (status, attempts, lease, retry time, result), `job_audit_events`, `job_operation_receipts` | enqueue, claim, renew_lease, request_cancellation, safe_boundary, interrupt, resume, complete, complete_interrupted, fail, recover_expired_leases, begin/complete_operation | any worker calls any operation at any time; rows are written by `model_copy`, which runs no validator; recovery is one transaction over all rows | leases and statuses agree, limits hold, terminal rows are final, the audit trail accounts for the row, the client sees a simple lifecycle |
| Durable worker, `application/job_worker.py` | the attempt a worker executes | run_once: claim, execute with boundaries and paid operations, complete or fail | a worker whose lease expired goes on; it dies between reservation, call and receipt; its successor has its identity | no result of a superseded attempt, no operation paid twice, every job settles |
| API job control, `api.py` | the loop, its renewal task, stored investigations | worker_loop, execute_next_job, create, cancel, review endpoints | requests run between the awaits of the loop; cancellation arrives between check and close; restart within a lease | the loop holds the lease of its job, no parked job completes unreviewed, jobs progress |
| Paid-operation ledger, `persistence/paid_operations.py`, `providers/idempotent.py` | receipts and stored results per operation key | reserve, mark_provider_started, complete, fail, authorize_ambiguous_retry | expiry during a call, late answers, shared identities, unknown prices, tasks that die | a call is repeated only for a recorded failure or by a human, all callers get one answer, the accounts cover all calls |
| Authoritative graph, `application/langgraph_authoritative.py`, `domain/authoritative_graph.py`, `persistence/authoritative_graph.py` | state history, LangGraph's checkpoint, artifacts, review request | start, the nodes, park, resume with a decision, finalize | four stores without a common transaction; two checkpoints of which one lags; two reviewers; replay | the checkpoints agree, one decision per thread, no report without the required approval, nothing unsettled reported without a person |
| Human review ledger, `persistence/review.py`, `domain/review.py` | requests, findings, decisions, approvals, revisions, hash-chained events | create_request, add_finding, record_decision, record_approval, record_revision | optimistic sequence numbers, idempotent repeats, several spellings of one name | linear and complete chain, one decision per request, separation of duties |
| Durable fixture graph, `application/langgraph_durable.py`, and its endpoints in `api.py` | one checkpoint per thread, step budget | start, the nodes, interrupt, resume with a decision | handler threads run the same thread without a lock; the ledger is written after the graph; a crash or the budget in between | ledger and checkpoint agree, a parked thread can be reviewed |
| Research fan-out, `application/langgraph_research.py`, `application/research_executor.py`, `analysis/sufficiency.py`, `analysis/research_routing.py` | rounds, assignment results, shared budgets, progress audits | plan, research, consolidate, assess, decide, continue | concurrent roles on one budget, restart between any two stages, failed roles, termination | no result lost or replaced, budgets respected, "sufficient" means what it says, the loop ends |
| Argument subgraph, `application/langgraph_argument.py` | two role results, reconciliation | argue in parallel, reconcile | a failed role is stored as a result and never run again | both positions built on one ledger, or a person decides |
| Judgment and publication policies, `domain/evidence_integrity.py`, `domain/evidence_disposition.py`, `domain/social_constraints.py`, `domain/publication.py`, `analysis/argument_ledger.py`, `analysis/judgment_policy.py`, `analysis/citation_assurance.py`, `analysis/readiness.py`, `analysis/review_routing.py`, `reporting/reports.py` | the artifacts of the thread: argument ledger, social policy, verdict, report assertions, readiness, publication decisions; the dispositions of evidence | the nodes ledger to route, review, approve_or_revise, `record_evidence_disposition`, `get_report` | dispositions arrive at any time and the stored decision is older than they are; four sources ask for a review; a decision taken again must repeat every gate | what is published rests on usable passages, nothing unsigned needed a signature, a social block holds |
| Complex claim workflow, `application/complex_investigation_service.py` | component results, checkpoint | decompose, investigate one after another, aggregate | partial failure, resume | a component is not investigated twice; a failed one is not hidden |

The remaining components (verification subgraph, analysis of texts and numbers,
providers and retrieval, rendering of reports, command line, telemetry, configuration,
evaluation, dashboard) keep no state over time or only present it; they are
listed in `PROJECT.json` with the reason they are left out.

### Interaction

* The API process and the workers share the queue only through SQLite.  Each
  public method of the queue is one `BEGIN IMMEDIATE` transaction, so it is one
  atomic action of the models; nothing holds two of them together.
* The queue learns the outcome of a graph *after* the graph has stored it, and
  the review endpoint works on the graph first and on the job second.
* The graph appends to its own state repository inside the node; LangGraph
  writes its checkpoint after the node has returned.  Both decide where a run
  continues.
* Providers are called through the paid-operation ledger, which knows worker
  identities but not the tasks that run under them.

The hazards this leads to, each at the line where it bites and with the
properties that watch it, are the `hazards` of `PROJECT.json`.

## 2. Modules and the code they stand for

| Module | Models | Code |
|---|---|---|
| `JobLifecycle` | what a client is promised of a job | abstract; the phases of `JobStatus` |
| `JobQueue` | the durable job queue | `persistence/jobs.py`, `domain/jobs.py` |
| `JobWorkers` | several workers over `JobQueue` | `application/job_worker.py` |
| `ApiJobs` | the API process over `JobQueue` | `api.py` |
| `PaidOperations` | the ledger and both provider decorators | `persistence/paid_operations.py`, `providers/idempotent.py` |
| `AuthoritativeGraph` | one thread, its job, its reviewers and four stores | `application/langgraph_authoritative.py`, `domain/authoritative_graph.py`, `persistence/authoritative_graph.py`, `persistence/review.py`, `api.py` |
| `ReviewLedger` | the append-only ledger of human reviews | `persistence/review.py`, `domain/review.py` |
| `GraphReview` | the durable graph and the review endpoints over the ledger | `application/langgraph_durable.py`, `api.py` |
| `ResearchRounds` | the research of one component | `application/langgraph_research.py`, `application/research_executor.py`, `application/multi_agent_service.py` (its workers), `analysis/sufficiency.py`, `analysis/research_routing.py`, `analysis/consolidation.py`, `analysis/independence.py` |
| `ArgumentRoles` | the argument subgraph | `application/langgraph_argument.py` |
| `EvidencePipeline` | the nodes research, consolidate, defender, reconcile and route with the two subgraphs inside them | `application/langgraph_authoritative.py`, `application/investigation_service.py` |
| `EvidencePolicy` | the policies, as operators over the artifacts | `domain/evidence_integrity.py`, `domain/evidence_disposition.py`, `domain/social_constraints.py`, `domain/publication.py`, `analysis/argument_ledger.py`, `analysis/judgment_policy.py`, `analysis/citation_assurance.py`, `analysis/readiness.py`, `analysis/review_routing.py`, `application/investigation_service.py` |
| `Publication` | one thread from the ledger node to its end, its review, the dispositions and the report endpoint | `application/langgraph_authoritative.py`, `application/investigation_service.py`, `api.py`, `reporting/reports.py` |
| `JobQueueProofs`, `JobWorkersProofs`, `ApiJobsProofs`, `PaidOperationsProofs`, `AuthoritativeGraphProofs`, `ReviewLedgerProofs`, `EvidencePipelineProofs`, `PublicationProofs` | theorems about the modules they are named for; `JobQueueProofs` also has those about `JobLifecycle`, `ReviewLedgerProofs` has those about `GraphReview`, `EvidencePipelineProofs` those about `ResearchRounds` | |
| `MCJobQueue`, `MCJobWorkers`, `MCApiJobs`, `MCPaidOperations`, `MCAuthoritativeGraph`, `MCGraphReview`, `MCEvidencePipeline`, `MCPublication` | the constants of the instances | |

`JobWorkers` and `ApiJobs` extend `JobQueue` and use its actions: the queue's
own specification lets anybody call anything, the two programs restrict the
callers.  `JobQueue` instantiates `JobLifecycle` with the phase of each row.
`GraphReview` extends `ReviewLedger` and `EvidencePipeline` extends
`ResearchRounds` and `ArgumentRoles` in the same way: the ledger by itself lets
anybody append anything it accepts, the subgraphs run by themselves, and the
composing module says who calls them and what happens in between.
`Publication` extends `EvidencePolicy`, which has no state.

**JobQueue.**  `row` is the payload column, `audit` the events of a job (their
last transition and the number of claims), `receipt` the paid operations.
Times are remaining seconds, cut off at zero, where the code's comparisons stop
distinguishing values; `Tick` lets a second pass.  `Loads` is
`DurableJob.model_validate_json`: a row whose attempts exceed the maximum raises
in every operation that reads it, which is why `RecoverExpiredLeases`, one
transaction over all active rows, requires every active row to load.  `Owned`
compares owner and status and does not look at the expiry, as in the code.
Operations that return early and write nothing (a second enqueue, a boundary
without cancellation, cancelling a terminal job) are stutters.

**JobWorkers.**  `exec[w]` is where `run_once` of a worker is and which attempt
it claimed; `paid` counts provider calls.  The worker is interrupted between any
two of its queue calls.  A queue call that raises `JobLeaseError` ends the
execution (`Evicted`).  `Crash` is a dead process; its successor uses the same
identity, the hardest case for a lease without attempt number.

**ApiJobs.**  `loop` is the position in `worker_loop`/`execute_next_job`, with
`dead` for a loop an exception has left.  `Handle` is the except branch.  The
endpoints are actions of their own because FastAPI runs them between the awaits
of the loop; `DecideReview` and `CloseReview` are the two halves of
`review_authoritative_job`, between which the process may die.  In between the
thread is `decided` and runs on in the request (`resuming`) or, after a crash, in
the loop that finds its job again.  `saved` is what the except branch asks:
`StoreInvestigation` stores a completed investigation at the end of a direct job
and in the `finalize` node of a thread, before the boundary that follows it;
`hidden` is one that `resolve_job_investigation` passes over, because it takes
the oldest investigation of the claim and an earlier attempt left that unfinished.

**PaidOperations.**  A process is one execution of `generate` or `search`;
`Identity` maps it to the `worker_id` the ledger compares.  Between
`mark_provider_started` and the provider's await the code does nothing else, so
a started receipt is a call that was made.  Prices are counted in calls.  A
decision of `reserve` that makes the decorator raise and writes nothing is a
stutter.

**AuthoritativeGraph.**  A node is atomic up to its checkpoint because it runs
without an await other runs of the thread could use; a crash can still cut it
(`Halfway` lists what the node may have written).  `Commit` is `checkpoint` with
its monotonicity check and the safe boundary that follows it; `Persist` is
LangGraph's own write, which may be late by any number of nodes.  A request
reads the thread in `Resume` and the graph reads it again in `Invoke`, by which
time another request may have taken it to its end.  The policies
are a choice made once per thread, `store.due`: they are functions of persisted
artifacts, so a repeated `route` decides the same.

**ReviewLedger.**  One variable per table; `events` is the trail of a request.
Every operation is one transaction.  An identifier stands for the record stored
under it, whose content the constants give (`Reviewer`, `Covers`, `Under`, ...),
so a repeated identifier repeats its content, and a repeated call that returns
the saved row is a stutter.  A hash is named by the sequence number of the event
it covers.  `Folded` is `casefold`: two spellings, one person.

**GraphReview.**  FastAPI runs these handlers in a thread pool.  `thread` is the
latest checkpoint of the one thread, `call[c]` what handler thread `c` is doing,
with the values its run of the graph continues from (`mine`): the checkpointer
takes no lock and compares nothing, so two runs overwrite each other's
checkpoints.  A resume reads the thread twice: `ResumeGraph` is the look at the
applied decision and the interrupt, `InvokeGraph` the graph's own reading of the
latest checkpoint, by which time another call may have taken the thread on or
closed it; then there is nothing left to run, and `invoke` returns as if it had
applied the decision.  A start ends with a reading of its own (`ReadSnapshot`).
`Advanced` is one node and its checkpoint, `OutOfSteps` the check in
`_node_update`, which the interrupt does not make.  The ledger is written after
the graph has run, in a step of its own, whatever the run has made of the
decision.  `raced` records that two calls were between their first reading and
their end at once; it decides nothing.

**ResearchRounds.**  One variable per field of the checkpoint, which each stage
saves whole, `stored` for the table of settled results, and `active` for the
roles inside the semaphore, all that a crash loses.  A page is a source with one
passage on a host of its own; `Finds` are the outcomes of a search: the pages
that gave evidence and the number fetched.  `FamilyOf` stands for the rules that
make two sources dependent.  `Share` divides what is left of the budget among
the roles of a round, and `Units` counts what results have spent.  The copy of a passage that consolidation keeps has the
smallest of random identifiers, hence the choice `again`; `late` is a limit on
durations or costs being reached.  `raised` is the exception of a fan-in with a
role that has no share.

**ArgumentRoles.**  The stage of the checkpoint, the table of positions, and
whether the rebuilt ledger equals the authoritative one.  The positions' text is
left out: what decides is whether a role answered validly.

**EvidencePipeline.**  `node` is the node that runs next and `flagged` its
`review_required`.  A node that is interrupted runs again from its start, which
for `research` and `defender` means from the checkpoint of their subgraph; a step
of a subgraph is therefore a step that leaves `node` alone.  The checkpoint of
`research` puts the report's consumption into the state of the graph, whose
validator accepts none over the budget (`domain/authoritative_graph.py:223-246`):
`refused` says that it has raised, which it does again on every resumption,
because the results are stored.  `Overdrawn` counts the searches and the model
calls; durations, tokens and costs are not counted, so `refused` may also be
chosen.  Pages, rounds and activations never exceed theirs (`BudgetHeld`).  The
nodes in between that neither touch these variables nor stop the graph are left out.

**EvidencePolicy.**  An item is one passage of evidence; its hygiene, its use and
the facts about its source are data.  A text is a clause of the report, known by
the items whose passage holds its phrase and by whether it contains a word that
qualifies it; narrowing a clause to an excerpt makes it the words of one passage.
`Overlap` ranks the passages by the words they share with a clause, without
ties.  `Facts` are what research, provenance and verification report; how they
find it is in `ResearchRounds` or not modelled.  A claim has one material
proposition and one phrase per clause, and is of medium risk.

**Publication.**  One variable per artifact.  `Node` is what the graph does, one
node at a time; crashes between nodes are in `AuthoritativeGraph` and a failed
reconciliation in `EvidencePipeline`.  `verdict` is the provisional verdict until
the audit, where the sentence audit may reword its summary, and the stored one
afterwards.  `Draft` lets the model answer with any verdict that passes the
validator, since only one provider checks that it names approved items.
`RecordDisposition` is the endpoint that runs beside everything else, and
`Publishable` says what `get_report` would answer: it changes nothing, so it is
a state function, and it recomputes the assurance from the dispositions of the
moment.  `Decide` is the review node resumed: it stores the decision first and
validates the approver and the revised verdict afterwards, in the code's order.

## 3. Runs, bounds and what they show

| Run | Instance | Shows |
|---|---|---|
| `queue` | 3 jobs, 2 workers, 2 providers, depth 2, 2 active, 1 or 2 attempts, lease 1, delay 0..1 | `LeaseInv`, `CapacityInv`, `AuditInv`, `OvershootInv`, and that the queue implements `JobLifecycle` |
| `queue_attempts` | 2 jobs, 1 active | counterexample to `AttemptsBounded` (finding) |
| `workers` | 2 jobs, 2 workers, 2 attempts, 1 paid operation | `FencingInv`, `PaidAtMostOnce`, and `EveryJobSettles` under fairness |
| `api` | 2 jobs, one of each kind, 2 attempts, 2 crashes | `LoopOwnsCurrent`, `ReviewedBeforeCompleted`, and `JobsProgress` under fairness |
| `api_cancel` | one job of each kind, no crash | counterexample to `CancellationStops` (finding) |
| `paid` | 3 processes, two of them under one identity, a model call and a search, 3 calls each | `CallsJustified`, `OneCallAtATime`, `CostCovered` |
| `graph` | 2 requests, one decision of each kind, 2 attempts, 2 crashes | `GraphInHistory`, `OneDecision`, `ReportApproved` |
| `graph_replay` | as `graph` | counterexample to `ClosedWithReport` (finding) |
| `review` | 2 requests, 2 handler threads, a confirming and a revising decision, 3 approvals, 1 revision, names ann, Ann and bob, step budgets 5, 9, 10 and 12, 1 crash | `ChainInv`, `SeparationOfDuties`, `StoresAgree`, `HalfDoneOnlyByFault` |
| `pipeline` | 3 pages of 2 families, 3 rounds, 2 roles at a time, 6 activations, 5 searches, 7 pages, 5 model calls, 1 crash | `BudgetHeld`, `SufficientIsBacked`, `SettledOnce`, `Escalated`, and `PipelineEnds` under fairness |
| `research_budget` | 2 pages to fetch for 3 roles | counterexample to `ControllerReached` (finding) |
| `publication` | 2 passages in 18 packets, 7 sets of facts, 6 drafts, 1 rewording, 2 new labels, 2 dispositions | `PublishedCitesClean`, `UnreviewedIsBacked`, `SocialBlockHolds`, `EscalatedIsReviewed`, `ReleasedIsPublishable` |

Every component also has one type invariant, checked by its passing run.  Some
properties that section 5 proves for every instance are not run again:
`ResultInv`, `TerminalIsFinal`, `BacklogInv`, `CompletedByLastAttempt`,
`AttemptsBounded` of the workers and of the API, `LedgerIsAppendOnly`,
`RecordsAreKept`, `OneAnswer` and `GivesUpLate`.
`CHECK_DEADLOCK FALSE` is set everywhere: all these systems may stop, when every
job is terminal and no client acts, when the graph has reached its end, or when
a bound is used up.

*Bounds and why they are enough.*

* Queue: three jobs are needed so that one waits, one runs and one is refused,
  or two compete for a provider while a third holds the global limit; one job
  has a single attempt, so the last attempt and the overshoot occur.  Two
  workers suffice because the queue compares an owner with a caller: right and
  wrong.  One second of lease distinguishes live and expired.  The theorems of
  section 5 drop all these bounds.
* `OneReserves` (in `MCJobQueue`, a constraint): paid operations are reserved
  only while one job is known.  No queue operation reads a receipt except the
  two that write it, so receipts of several jobs only multiply states.
* Workers: with two attempts there is a superseded attempt and a later one.
* API: `MaxCrashes` bounds the restarts; the second crash can meet a job the
  first one left.  A restart comes within the lease of the job it interrupted or
  after it: `worker_loop` recovers leases once, when it starts, so a lease that
  expires later is never recovered.  `JobsProgress` says that this, and a loop
  that an exception has ended, are the only ways in which a job is left behind:
  either some job stays active for ever without a loop that works on it
  (`Stranded`), or every job settles or is parked.
* Ledger: `MaxStarts` bounds the calls of a key; with three calls a failure, an
  authorization and a success follow each other.  Two processes under one
  identity are the smallest case in which the owner check cannot tell them apart.
* Graph: two crashes allow one while a repeated run is under way; two requests
  are the concurrent reviewers; `MaxAttempts` 2 lets a transient error return
  the job to the queue.  Claims and publications are counted to two, which
  stands for "several": the code only asks whether there is exactly one.
* Review: two handler threads make every race of two requests.  The budgets stop
  the graph before the review node (5), exactly at it (9), after it (10), and
  never (12), since at most eleven nodes take a step.  `MaxSequence` 3 is the
  length a trail has when a revision is sent: request, decision, approval.  Of
  the three approvals one is by the deciding person in another spelling, one is
  valid and one rejects.
* Pipeline: two families out of three pages, so that corroboration by pages and
  by families differ; seven pages for two to three rounds and five model calls,
  so that both limits are met in the middle of a round; a search brings a blank
  page, an inline one, or two pages of one family.  Three rounds are the smallest
  number with a round that is neither first nor last.  One crash reaches every
  pair of steps.
* Publication: one passage varies over every hygiene, use and kind of source, the
  other backs or disputes it, which is the smallest packet in which an
  exclusion leaves something to cite.  Two dispositions exclude an item and
  approve it again.  One clause of the report is critical and one is not, so that
  the test of the critical clauses and the threshold of 95 percent differ.
* Symmetry is used over workers, requests and handler threads, which occur in no
  constant function, and only in runs without liveness properties.

Each property of a passing run has a mutant of the modelled code under which TLC
reports it violated (`mutants` in `PROJECT.json`); the operators named
"Mutant of ..." in the modules are those variants and no specification uses them.

## 4. Fairness

* `WorkersFairness`: each worker process keeps taking steps, time passes, and
  `recover_expired_leases` is called again and again.  The class has no loop of
  its own: its operator provides both, and without the recovery calls
  `EveryJobSettles` fails.  Nothing forces clients to submit or cancel,
  executors to fail, or workers to crash.  A worker may crash for ever;
  termination then comes from the attempt limit.
* `ApiFairness`: the supervisor starts the process again, the loop is scheduled
  and the work on a job ends, because provider calls have timeouts; the clock
  runs.  Renewal is not fair: it may fail at any time, as in the code.  No
  client has to act.
* `PipelineSpec` has weak fairness of `PipelineNext`: the job that owns the
  thread is run or resumed until the thread ends, and a running process
  schedules its tasks, whose provider calls have timeouts.  Nothing forces a role
  to succeed.  Crashes are bounded by `MaxCrashes`; a process that died for ever
  would end by the attempts of its job.
* `Publication` states weak fairness of `Node`, the graph's own scheduling, but
  only its safety is checked.
* The queue, ledger, graph and review runs check safety only and assume no
  fairness.

## 5. Proofs

All proofs hold for every set of jobs, workers, providers, keys, processes,
requests, people, pages, search outcomes, passages, findings and drafted
verdicts and for every policy and budget, under the named assumptions of the modules (finite sets of jobs, processes or
pages, positive limits and attempts, the ranges the domain models validate, and
the "none" values outside the sets they extend).

**JobQueueProofs.**
`TypeCorrect` is inductive by itself.  The invariants that speak of one row at a
time are *not* inductive alone: that exactly completed rows have a result needs
that only active rows are released; that the trail counts the attempts needs
that an attempt is counted only on a row that loads; that attempts overshoot by
at most one needs that an overshooting row is running and therefore never
claimed again.  They are proved together as `LocalInv`, the conjunction of
`LocalAt` over all jobs; `SaveLocal` reduces a step to the row it writes, and
`LocalStep` has one step per operation.  `LeaseCorrect`, `AuditCorrect`,
`OvershootBounded` and `ResultCorrect` follow.  `CapacityRespected` rests on
`ActiveShrinks` (only a claim makes a job active) and `GrowByOne` (a counting
lemma).  `TerminalRowsFinal` is the action
property.  `BacklogKept` says which operations can lengthen the queue: none but
an admission, since every other one that returns a job took it from the active
rows; the programs that use the queue cite it.
`QueueImplementsLifecycle`: `Spec => Lifecycle!Spec` under the mapping of rows to
phases.  Each operation is mapped to its lifecycle step (`MoveStep`), recovery to
`Abandon(Expired)`, and renewals, receipts and the clock to stutters
(`SameStatus`).  Only `TypeOK` is needed as an invariant: the slot limit of
`Start` is the guard of the claim, since working jobs are the active rows
(`WorkingIsActive`).

**JobWorkersProofs.**
`FencingInv` is not inductive: a lease carries no attempt number, and a worker
comes back under its old identity.  What keeps a superseded attempt out is
`WorkersInv`: the queue's type and `LocalInv`, a typed execution
(`ExecutionInv`), attempts within their maximum in every status a program that
never resumes can reach (`AttemptInv`), and that a worker which is busy with a
job and owns it executes the attempt the row counts last (`OwnerInv`).  `RowChange` covers the
queue operations, `MemoryChange` the steps that move an execution only.
`NeverPaidTwice` adds `PaidInv`, which ties the calls made to the receipt and to
the place of the worker that reserved it.  `BacklogBounded` rests on
`BacklogKept`, and `WorkersImplementQueue` is `WorkersSpec => Spec`: all that is
proved of the queue holds of any number of workers.

**ApiJobsProofs.**
`ApiImplementsQueue` is the same for the API: with a crash at any point, the queue
sees only its own operations (`ApiUsesQueue`).  `LoopOwnsCurrent` needs `ApiInv`:
that a loop which works has a job, and a renewal task nothing else to renew
(`ProcessInv`); that attempts stay within their maximum in every status, and
strictly below it where a claim may follow, since the API never resumes a job
(`ApiAttemptInv`), so that every row loads and the loop is refused nothing; that
the job in the loop's hands is active and the loop's own (`OwnerInv`), which
nobody changes because recovery is called only before the loop starts and a
request to cancel leaves an active job its owner.  `ReviewInv` is what a parked
thread says of its job, of the stored investigation, of the place of the loop and
of the requests under way;
it gives `NoneCompletesUnreviewed`.  `LoopChange` covers the steps that move the
loop, `RowChange` those that write a row.

**PaidOperationsProofs.**
`PaidTypeCorrect` includes that a receipt has an owner exactly while it is
leased.  `CallsAreJustified`, `AnswersAgree` and `CostsAreCovered` are proved
together (`Accounts`): the answer can only be unique because a completed receipt
is never started again, and the cost is only complete because a call that ends
ends the doubt.  `CallsAreSerial` is separate: a call ends the doubt or is
counted by an authorization.

**AuthoritativeGraphProofs.**
Three stores and a process tell the position of one thread, and a crash may
separate any two of their writes.  `GraphInv` speaks of the positions (the one
LangGraph would continue from and those of the runs under way) without regard to
who holds them.  `HistoryInv`: the history is numbered without a gap, and a
position is empty, fresh, or past `create` with its state in the history at the
number it carries.  `DecisionInv`: every checkpoint that has a decision has the
one the ledger accepted.  `ApprovalInv`: a requested review is due, and a due
one is either signed (decision, approval and, for a revision, the revised
verdict are in the ledger) or no report exists anywhere and no position leads to
one.  A step either leaves the history alone (`Stays`) or appends the state of
one run (`Advances`); `StepEffect` sorts the actions into the two, and
`HistoryStep`, `DecisionStep` and `ApprovalStep` treat the two effects instead of
the actions.  `StoresAgree`, `OneDecisionTaken` and `ReportsAreApproved` follow.
`RecordsAreKept` is the action property: no step rewrites a checkpoint of the
history or an accepted decision.

**ReviewLedgerProofs.**
`LedgerInv` is the type, the chain and the duties.  `GrowTrail` says what
appending one event does to a linear trail, `GrowChain` to the account of the
tables, and the step has one case per operation.  `ReviewImplementsLedger`:
every step of `GraphReview` is a step of `LedgerSpec` or leaves the ledger
alone, so the chain and the duties hold behind the endpoints too.  `GraphInv`
adds what a handler knows at each place (`CallOK`) and that without a race only
one of them runs the graph (`SoleRunner`): the checkpoint it found parked is
still parked when it invokes the graph, and a handler that is about to record
holds the decision of the latest checkpoint.  From it `StoresAgreement`.
`LedgerIsAppendOnly` is the action property of the tables: no step removes or
replaces an event or a row.  `ReviewsAreFinished` states `HalfDoneOnlyByFault`,
which excludes half done reviews only when no call is under way; `HandsInv` says
what holds in between: a thread between two nodes, a parked thread without
request and an applied decision without record are in the hands of the call that
will finish them.  That this call cannot be refused when it gets there is
`ExpectedFresh`: the trail of a request without decision does not grow
(`UndecidedTrailKept`), so the sequence number it brought is still the last.

**EvidencePipelineProofs.**
Four invariants on top of each other.  `ShapeInv` fixes the lengths of the
checkpoint's sequences in each stage and that a joined round equals the stored
results; `PipelineSettlesOnce` and the types follow.  `EvidenceInv` says that kept
evidence was found by a joined round, that an audited family consists of pages
brought by then, and that a decision means what it says.  With it
`PipelineGivesUpLate` (a page nobody had brought is a new member of some family,
hence a gain) and `PipelineIsBacked`, whose corroboration needs that *n* families
give *n* pages of different families (`FamiliesGivePages`, by a bijection with an
initial segment).  `RouteInv` says what an unset review flag stands for at each
node, and gives `PipelineEscalates`.  `BudgetInv` is what `PipelineKeepsBudget`
needs: what the joined rounds spent is within the limits, and each role of the
round under way keeps to a share of what they leave, in whatever order the roles
settle and whichever of them a crash starts again.  That the shares add up to no
more than the whole would be an induction over the team; `Units` avoids it by
counting a sum as a set of units, one per page or call, and `Slot` numbers the
units of all roles within `1 .. Capacity` without using a number twice
(`DealtOut`, `DealtApart`, `RoundFits`).

**PublicationProofs.**
The policies choose a first and a nearest passage; that a nonempty finite set has
one (`FurthestExists`, `Ranked`) follows from the well-foundedness of the strict
subset order, and with it every policy returns what it declares
(`PublicationTypes`).  `PublishedReportsCiteClean` needs no more, because whether
a report can be shown is computed anew for each reading.  The others are about
flags that one node sets and another reads much later, and are proved together
as `Gates`: before the route node there is no decision and before the review
node no signature; from the policy node on, a verdict and a policy that ask for
no review stand for a label the ledger allows, findings that block nothing and
safeguards that were met; a readiness that asks for nobody stands for a full
audit; a decision "ready" is never socially blocked, and one that nobody signed
is `Backed`; a thread that went to `finalize` without a review was `Unescalated`.
`ReviewReleasesWhatIsPublishable` is the action property.

*Only model-checked:* liveness (`EveryJobSettles`, `JobsProgress`,
`PipelineEnds`), which is outside what the installed provers handle, as is
everything under fairness; and the four properties that the code does not have,
each refuted by a run of its own (section 6).

## 6. Disagreements with the documentation

Four runs end in a counterexample; `findings` in `PROJECT.json` quotes the text
each one refutes.

1. `queue_attempts`: interrupting and resuming a job on its last attempt lets it
   be claimed once more, and from then on its row cannot be read.  Recovery is one
   transaction over all active rows and raises on it, so that no lease of any job
   is recovered again, against
   `docs/PHASE_8_STAGE_8.11_COMPLETION_REPORT.md:32`, "Worker leases expire and
   can be recovered after a crash."  Neither program resumes jobs this way; `AttemptsRespected` of
   `JobWorkersProofs` says that the workers keep `AttemptsBounded`.
2. `api_cancel`: a cancellation between the last boundary and the close of a job
   whose investigation is stored ends the worker loop.
3. `graph_replay`: repeating a decision while LangGraph has left the review but
   not reached `finalize` completes the job without its report.
4. `research_budget`: when fewer candidates are left than a round has roles, the
   result built for a role without a share lacks required fields.  The round
   raises before its checkpoint and again whenever it is resumed, and the
   controller that was to account for the shortage is never reached.

Observations that are not kept as runs, because no document promises the
contrary or the models above already contain the behaviour:

* `fail` accepts a job that is being cancelled, and after a transient failure
  schedules its retry (`persistence/jobs.py:340`).  The job may complete although
  its cancellation was requested.
* Leases are recovered once, when the worker loop starts.  A process that is back
  within the 90 seconds of a lease strands its job, which holds the only active
  slot, so that the jobs behind it wait for ever: this is the first alternative of
  `JobsProgress`.
* A crash between the two checkpoints of the authoritative graph makes a completed
  node run again; its append conflicts, and the job fails for good.
* Two requests that resume the same durable thread can both find it parked.  Both
  may run the review node: the ledger keeps one decision and the last checkpoint
  may show the other.  Or one invokes the graph after the other has closed it:
  it runs nothing, is answered like a success, and may be the first to record
  its decision, so that the ledger holds one the graph never applied
  (`application/langgraph_durable.py:162` reads, `:174` reads again).
  `docs/PHASE_7_COMPLETION_REPORT.md:57-58` says that conflicting resumes "are
  rejected by tested boundaries", which is true of requests that come one after
  the other; `StoresAgree` says exactly this much.
* A role is given a share of pages and model calls before it runs, but searches
  are compared with their limit only between rounds, and a role that raises is
  recorded with all counters zero (`application/research_executor.py:191`).
  `BudgetHeld` speaks of what is recorded.
* The last round may therefore take the searches, and likewise the tokens, the
  durations and the costs, over their limits.  The controller then stops, but the
  graph state refuses the consumption
  (`domain/authoritative_graph.py:225-246`): the `research` node raises, now and on
  each resumption, and its thread ends without a review or a report.  This is one
  of the endings `PipelineEnds` allows, and
  `docs/PHASE_8_STAGE_8.3_COMPLETION_REPORT.md:27-31` documents the refusal.
* The authoritative adapter (`application/authoritative_research.py:56-64`) passes
  on neither the number of independent families nor the source types a
  requirement asks for.
* After a failed position or a differing ledger the `reconcile` node raises, now
  and on each resumption, and the `route` node that would ask for a person is
  never reached (`EvidencePipeline`), although
  `docs/PHASE_9_STAGE_9.7_COMPLETION_REPORT.md:57` says "Any role failure or
  difference routes to human review."
* Between the audit and the route node a thread has no publication decision, and
  `get_report?format=markdown` takes a missing decision for consent
  (`reporting/reports.py:473`, with `require_completed=False` at `api.py:1021`).
  In that interval it shows a report that the social policy blocks, although
  `docs/PHASE_10_STAGE_10.6_ARGUMENT_JUDGMENT_PUBLICATION_CONSTRAINTS.md:19` says
  "A blocking social-policy finding blocks publication even when citation
  assurance itself passes."  `SocialBlockHolds` speaks of threads with a decision;
  without that condition TLC refutes it at the readiness node.
* A thread that was rejected or sent back although its routed decision was "ready"
  stays publishable by the same endpoint;
  `docs/PHASE_9_STAGE_9.9_COMPLETION_REPORT.md:52` says "More-evidence requests
  and rejection do not produce a final report."
* The `policy` node validates its candidate even when it is not adopted: a draft
  without evidence whose default label is definite raises on every resumption
  (`analysis/judgment_policy.py:113`, `PolicyRaises`).
* Approving after dispositions have removed an integrity block leaves a decision
  that was "blocked" as it is; only a decision that waited for review, or a
  revision, is taken again.
* Revising a verdict without evidence to a definite label raises after the
  decision and its approval are stored, and no other decision is accepted.  The
  handler does not compare the kind of a decision with the kinds it offered.
* The route node's decision "ready" does not imply that the report can be shown:
  a hedged excerpt changes the stance that is inferred when the report is read.
  `ReleasedIsPublishable` therefore speaks of decisions taken by a review.
* `assure_full_report` reads stored uses, so an item approved by a disposition is
  never cited by a report that is built after it.
* Consolidation keeps the copy with the smaller random identifier
  (`analysis/consolidation.py:103-136`), so a challenge that is found again can
  count as new progress.

## 7. Not modelled

* In modelled components: read-only queries, the event stream, telemetry
  callbacks; the contents of artifacts, prompts and reports; direct
  investigations that share a stored result with another job of the same claim.
* In the research rounds: the caches of searches and pages, which decide no
  control; costs and durations except for reaching their limit (`late`); the
  rules by which two sources are dependent, so that families are fixed and a
  citation found later merges none; pages that repeat each other's passages.
* In the argument subgraph: the ledger's content; it is equal to the
  authoritative one or not.  How it is built is in `EvidencePolicy`.
* In the publication: the matching of phrases and words, which is data; ties of
  rank; claims with several propositions, clauses with several phrases, other
  risk levels; the rules that classify a source or a passage's hygiene; the
  rendering of the report; two nodes or two reviews of a thread at once, which
  `AuthoritativeGraph` has.
* The single-round service of `application/multi_agent_service.py` around the
  workers that `ResearchRounds` models.
* The components marked `not_modelled` in `PROJECT.json`.  Those planned are in
  section 8.  The others are pure input and output (providers, retrieval,
  reporting, command line, telemetry, dashboard), offline programs
  (evaluation), static tables (operation contracts, configuration), or text and
  number analysis without state.
* SQLite itself: a transaction is taken to be atomic and durable.

## 8. Plan

Done: (1) `JobQueue`, `JobLifecycle` and their proofs; (2) `JobWorkers` and its
proofs; (3) `ApiJobs` and its proofs; (4) `PaidOperations` and its proofs;
(5) `AuthoritativeGraph` and its proofs; (6) `ReviewLedger`, `GraphReview` and their proofs;
(7) `ResearchRounds`, (8) `ArgumentRoles` and their composition
`EvidencePipeline` with its proofs; (9) `EvidencePolicy`, `Publication` and
their proofs.

Next, in this order:

10. `ComplexClaim`: components investigated one after another from a checkpoint,
    failed ones among them, and their aggregation; no component twice, none
    hidden.
11. Proofs: what liveness rests on apart from fairness, a measure that every
    step of the pipeline but a crash decreases; and those of `ComplexClaim`.
12. The outcomes of `EvidencePolicy` in place of the free choices
    `AuthoritativeGraph` and `EvidencePipeline` make for the policies.
