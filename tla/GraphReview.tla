----------------------------- MODULE GraphReview -----------------------------
(***************************************************************************)
(* The review endpoints of the API over one thread of the durable graph    *)
(* and the review ledger.  FastAPI runs the handlers in a thread pool, so  *)
(* several of them are under way at once; each opens its own connection to *)
(* the checkpointer, runs the graph from the checkpoint that is the latest *)
(* when the run begins, and what it writes becomes the latest checkpoint:  *)
(* no lock, no compare and swap.                                           *)
(*                                                                         *)
(* The thread is its latest checkpoint.  A call that runs the graph        *)
(* carries the values it continues from (mine).  Requests are the review   *)
(* requests of this thread.                                                *)
(***************************************************************************)
EXTENDS ReviewLedger, FiniteSets

CONSTANTS
  Clients,      \* handler threads
  Budgets,      \* the step budgets of the requests considered
  MaxCrashes,   \* bound on the crashes of the process
  MaxSequence   \* bound on the sequence numbers clients send

ASSUME ReviewBoundsAssumption ==
  MaxCrashes \in Nat /\ MaxSequence \in Nat /\ Budgets \subseteq Nat \ {0}

VARIABLES
  thread,    \* the latest checkpoint of the thread
  call,      \* what each handler thread is doing
  raced,     \* two calls were at once between reading the thread and their end of it
  crashes

graphVars == <<thread, call, raced, crashes>>
reviewVars == <<ledgerVars, graphVars>>

\* Nodes before the review node: normalize to route_review.
PreReview == 9

Checkpoint == [at : {"none", "running", "parked", "reviewed", "closed"},
               steps : Nat, budget : Budgets \union {0}, review : BOOLEAN,
               applied : Decisions \union {None}]
NoThread == [at |-> "none", steps |-> 0, budget |-> 0, review |-> FALSE, applied |-> None]
Fresh(budget, review) ==
  [NoThread EXCEPT !.at = "running", !.budget = budget, !.review = review]

Places == {"idle", "starting", "returning", "requesting",
           "deciding", "invoking", "resuming", "recording"}
Call == [at : Places, request : Requests \union {None}, decision : Decisions \union {None},
         expected : 0 .. MaxSequence, mine : Checkpoint]
Idle == [at |-> "idle", request |-> None, decision |-> None, expected |-> 0, mine |-> NoThread]

ReviewInit ==
  /\ LedgerInit
  /\ thread = NoThread
  /\ call = [c \in Clients |-> Idle]
  /\ raced = FALSE /\ crashes = 0

\* The calls inside start or resume that have found the thread as they need it,
\* and those of them that execute nodes.
UnderWay(c) == call[c].at \in {"starting", "invoking", "resuming"}
Running(c) == call[c].at \in {"starting", "resuming"}

Races(c) == raced' = (raced \/ \E o \in Clients \ {c} : UnderWay(o))
Go(c, place) == call' = [call EXCEPT ![c].at = place]
Answer(c) == call' = [call EXCEPT ![c] = Idle]

-----------------------------------------------------------------------------
(* POST /api/graph-runs                                                    *)

\* start: 409 when the thread has a checkpoint, whatever its state.
StartGraph(c, budget, review) ==
  /\ call[c] = Idle /\ thread.at = "none"
  /\ call' = [call EXCEPT ![c] = [Idle EXCEPT !.at = "starting", !.mine = Fresh(budget, review)]]
  /\ Races(c)
  /\ UNCHANGED <<thread, crashes, ledgerVars>>

\* start returns the thread as it is after its run, whoever wrote it; one with
\* an interrupt gets a review request.
ReadSnapshot(c) ==
  /\ call[c].at = "returning"
  /\ IF thread.at = "parked" THEN Go(c, "requesting") ELSE Answer(c)
  /\ UNCHANGED <<thread, raced, crashes, ledgerVars>>

RequestReview(c) ==
  /\ call[c].at = "requesting"
  /\ \E r \in Requests : CreateRequest(r)
  /\ Answer(c)
  /\ UNCHANGED <<thread, raced, crashes>>

-----------------------------------------------------------------------------
(* One step of the graph: a node and its checkpoint.                       *)

\* The node that comes next needs a step; the interrupt does not.
Parks(m) == m.at = "running" /\ m.steps = PreReview /\ m.review
OutOfSteps(m) == ~Parks(m) /\ m.steps >= m.budget

\* Values after the next node: _record or _route_review, the review node with
\* the decision it was resumed with, or one of the three final nodes.
Advanced(m, d) ==
  IF Parks(m) THEN [m EXCEPT !.at = "parked"]
  ELSE IF m.at = "running" /\ m.steps < PreReview THEN [m EXCEPT !.steps = @ + 1]
  ELSE IF m.at = "parked"
  THEN [m EXCEPT !.at = "reviewed", !.steps = @ + 1, !.applied = d]
  ELSE [m EXCEPT !.at = "closed", !.steps = @ + 1]

\* Mutant of AfterNode: a parked thread is answered without a request.
AfterNodeUnreviewed(c, m) ==
  IF m.at = "parked" THEN Idle
  ELSE IF m.at # "closed" THEN [call[c] EXCEPT !.mine = m]
  ELSE [call[c] EXCEPT !.at = IF @ = "starting" THEN "returning" ELSE "recording",
                       !.mine = NoThread]

\* The handler goes on when invoke returns: parked or closed.  The decision is
\* recorded whatever the run has made of it.
AfterNode(c, m) ==
  IF m.at \notin {"parked", "closed"} THEN [call[c] EXCEPT !.mine = m]
  ELSE [call[c] EXCEPT !.at = IF @ = "starting" THEN "returning" ELSE "recording",
                       !.mine = NoThread]

RunNode(c) ==
  /\ Running(c) /\ ~OutOfSteps(call[c].mine)
  /\ LET m == Advanced(call[c].mine, call[c].decision) IN
     /\ thread' = m
     /\ call' = [call EXCEPT ![c] = AfterNode(c, m)]
  /\ UNCHANGED <<raced, crashes, ledgerVars>>

\* A node over the budget raises; the request fails and the last checkpoint stays.
RunOutOfSteps(c) ==
  /\ Running(c) /\ OutOfSteps(call[c].mine)
  /\ Answer(c)
  /\ UNCHANGED <<thread, raced, crashes, ledgerVars>>

-----------------------------------------------------------------------------
(* POST /api/reviews/{request_id}/decisions                                *)

\* The request is loaded; its version is checked while it has no decision.
SubmitDecision(c, r, d, expected) ==
  /\ call[c] = Idle /\ Exists(r)
  /\ decision[r] = None => Len(events[r]) = expected
  /\ call' = [call EXCEPT ![c] = [Idle EXCEPT !.at = "deciding", !.request = r,
                                              !.decision = d, !.expected = expected]]
  /\ UNCHANGED <<thread, raced, crashes, ledgerVars>>

\* Mutant of ResumeGraph: an applied decision does not refuse another one.
ResumeGraphAgain(c) ==
  /\ call[c].at = "deciding"
  /\ \/ thread.applied # None /\ Go(c, "recording") /\ UNCHANGED raced
     \/ thread.applied = None /\ thread.at # "parked" /\ Answer(c) /\ UNCHANGED raced
     \/ thread.applied = None /\ thread.at = "parked" /\ Go(c, "invoking") /\ Races(c)
  /\ UNCHANGED <<thread, crashes, ledgerVars>>

\* resume reads the latest checkpoint: the applied decision is returned as it
\* is, another one or a thread that is not parked is a 409.
ResumeGraph(c) ==
  /\ call[c].at = "deciding"
  /\ \/ thread.applied = call[c].decision /\ Go(c, "recording") /\ UNCHANGED raced
     \/ thread.applied \notin {None, call[c].decision} /\ Answer(c) /\ UNCHANGED raced
     \/ thread.applied = None /\ thread.at # "parked" /\ Answer(c) /\ UNCHANGED raced
     \/ thread.applied = None /\ thread.at = "parked" /\ Go(c, "invoking") /\ Races(c)
  /\ UNCHANGED <<thread, crashes, ledgerVars>>

\* invoke reads the latest checkpoint again and goes on from there.  A review
\* node that is about to interrupt gets the decision instead; a thread that
\* another call has closed has nothing left to run, and invoke returns.
InvokeGraph(c) ==
  /\ call[c].at = "invoking"
  /\ IF thread.at = "closed" THEN Go(c, "recording")
     ELSE call' = [call EXCEPT ![c].at = "resuming",
                               ![c].mine = [thread EXCEPT !.at = IF Parks(thread) THEN "parked" ELSE @]]
  /\ UNCHANGED <<thread, raced, crashes, ledgerVars>>

\* The decision is recorded after the graph has run; a refused or repeated
\* record changes nothing.
RecordStep(c) ==
  /\ call[c].at = "recording"
  /\ LET r == call[c].request
         d == call[c].decision
     IN \/ RecordDecision(r, d, call[c].expected)
        \/ /\ Held(decision, d) \/ decision[r] # None \/ Current(r) # call[c].expected
           /\ UNCHANGED ledgerVars
  /\ Answer(c)
  /\ UNCHANGED <<thread, raced, crashes>>

-----------------------------------------------------------------------------
(* The two endpoints that are one transaction each.                        *)

SubmitApproval(r, a, expected) ==
  RecordApproval(r, a, expected) /\ UNCHANGED graphVars

SubmitRevision(r, v, expected) ==
  RecordRevision(r, v, expected) /\ UNCHANGED graphVars

\* The process dies with all its handler threads; checkpoints and ledger stay.
Crash ==
  /\ crashes < MaxCrashes /\ crashes' = crashes + 1
  /\ call' = [c \in Clients |-> Idle]
  /\ UNCHANGED <<thread, raced, ledgerVars>>

Handler(c) ==
  \/ ReadSnapshot(c) \/ RequestReview(c) \/ RunNode(c) \/ RunOutOfSteps(c)
  \/ ResumeGraph(c) \/ InvokeGraph(c) \/ RecordStep(c)

ReviewNext ==
  \/ \E c \in Clients :
       \/ \E budget \in Budgets, review \in BOOLEAN : StartGraph(c, budget, review)
       \/ \E r \in Requests, d \in Decisions, n \in 0 .. MaxSequence : SubmitDecision(c, r, d, n)
       \/ Handler(c)
  \/ \E r \in Requests, n \in 0 .. MaxSequence :
       \/ \E a \in Approvals : SubmitApproval(r, a, n)
       \/ \E v \in Revisions : SubmitRevision(r, v, n)
  \/ Crash

ReviewSpec == ReviewInit /\ [][ReviewNext]_reviewVars

-----------------------------------------------------------------------------
\* The tables, the checkpoint and the calls hold values of their types.
ReviewTypeOK ==
  /\ LedgerTypeOK
  /\ thread \in Checkpoint
  /\ call \in [Clients -> Call]
  /\ raced \in BOOLEAN /\ crashes \in 0 .. MaxCrashes

\* Graph and ledger agree: as long as no two requests ran the graph at once,
\* a decision in the ledger is the one of the latest checkpoint, also after
\* repeated, refused and interrupted requests.
StoresAgree ==
  \A r \in Requests : decision[r] # None /\ ~raced => decision[r] = thread.applied

AtRest == \A c \in Clients : call[c] = Idle

\* Nothing but a crash, a race or the step budget leaves a review half done: a
\* parked thread can be reviewed, an applied decision is in the ledger, and a
\* reviewed thread is closed.
HalfDoneOnlyByFault ==
  AtRest /\ crashes = 0 /\ ~raced =>
    /\ thread.at = "parked" => \E r \in Requests : Exists(r)
    /\ thread.at \in {"running", "reviewed"} => OutOfSteps(thread)
    /\ thread.at = "closed" /\ thread.applied # None =>
         \E r \in Requests : decision[r] = thread.applied
=============================================================================
