---------------------- MODULE AuthoritativeGraphProofs ----------------------
(***************************************************************************)
(* Proofs about one thread of the authoritative graph, for any number of   *)
(* concurrent review requests, decisions, attempts and crashes.            *)
(*                                                                         *)
(* A position is where LangGraph or a run has the thread.  A step either   *)
(* stays in the history, and then no position is new except that a review  *)
(* interrupts itself; or it advances, which appends one checkpoint to the  *)
(* history and makes it the state of at most one new position.  The two    *)
(* stores agree, one decision is taken and no report escapes its review    *)
(* because of what a position may be, whoever holds it.                    *)
(***************************************************************************)
EXTENDS AuthoritativeGraph, TLAPS

-----------------------------------------------------------------------------
(* The graph.                                                              *)

LEMMA AnalysisSet ==
  Analysis = {"create", "normalize", "plan", "prepare", "research",
              "consolidate", "provenance", "verify", "ledger", "defender",
              "challenger", "reconcile", "draft", "policy", "audit",
              "readiness", "route"}
<1>1. Len(Sequence) = 17 /\ DOMAIN Sequence = 1 .. 17
  BY DEF Sequence
<1>2. \A i \in 1 .. 17 :
        Sequence[i] \in {"create", "normalize", "plan", "prepare", "research",
              "consolidate", "provenance", "verify", "ledger", "defender",
              "challenger", "reconcile", "draft", "policy", "audit",
              "readiness", "route"}
  BY DEF Sequence
<1>3. /\ Sequence[1] = "create" /\ Sequence[2] = "normalize" /\ Sequence[3] = "plan"
      /\ Sequence[4] = "prepare" /\ Sequence[5] = "research"
      /\ Sequence[6] = "consolidate" /\ Sequence[7] = "provenance"
      /\ Sequence[8] = "verify" /\ Sequence[9] = "ledger"
      /\ Sequence[10] = "defender" /\ Sequence[11] = "challenger"
      /\ Sequence[12] = "reconcile" /\ Sequence[13] = "draft"
      /\ Sequence[14] = "policy" /\ Sequence[15] = "audit"
      /\ Sequence[16] = "readiness" /\ Sequence[17] = "route"
  BY DEF Sequence
<1>4. Analysis = {Sequence[i] : i \in 1 .. 17}
  BY <1>1 DEF Analysis, Range
<1> QED BY <1>2, <1>3, <1>4

\* Only create begins a thread, and no analysis node leads past the route.
LEMMA FollowingType ==
  ASSUME NEW n \in Analysis \ {"route"}
  PROVE  /\ Following(n) \in Nodes
         /\ Following(n) \notin {"create", "approve_or_revise", "finalize"}
<1> DEFINE i == CHOOSE i \in 1 .. Len(Sequence) : Sequence[i] = n
<1>1. Len(Sequence) = 17 /\ DOMAIN Sequence = 1 .. 17
  BY DEF Sequence
<1>2. \E k \in 1 .. Len(Sequence) : Sequence[k] = n
  BY <1>1 DEF Analysis, Range
<1>3. i \in 1 .. 17 /\ Sequence[i] = n
  BY <1>1, <1>2
<1>4. Following(n) = Sequence[1 + i]
  <2>1. n # "approve_or_revise"
    BY AnalysisSet
  <2> QED BY <2>1 DEF Following
<1> HIDE DEF i
<1>5. i # 17
  BY <1>3 DEF Sequence
<1>6. 1 + i \in 2 .. 17
  BY <1>3, <1>5
<1>7. \A k \in 2 .. 17 : /\ Sequence[k] # "create"
                         /\ Sequence[k] # "approve_or_revise"
                         /\ Sequence[k] # "finalize"
  BY DEF Sequence
<1>8. Sequence[1 + i] \in Analysis
  BY <1>1, <1>6 DEF Analysis, Range
<1> QED BY <1>4, <1>6, <1>7, <1>8 DEF Nodes

LEMMA PhaseType ==
  ASSUME NEW n \in Analysis \union {"more_evidence", "reject"}, n # "route"
  PROVE  PhaseOf(n) \in Phases
<1>1. /\ DOMAIN PhaseOrder = 1 .. 9
      /\ PhaseOrder[1] = "created" /\ PhaseOrder[2] = "claim_analysis"
      /\ PhaseOrder[3] = "planning" /\ PhaseOrder[4] = "research"
      /\ PhaseOrder[5] = "verification" /\ PhaseOrder[6] = "arguments"
      /\ PhaseOrder[7] = "judgment" /\ PhaseOrder[8] = "citation_assurance"
      /\ PhaseOrder[9] = "readiness"
  BY DEF PhaseOrder
<1>2. Range(PhaseOrder) = {PhaseOrder[i] : i \in 1 .. 9}
  BY <1>1 DEF Range
<1>3. {"created", "claim_analysis", "planning", "research", "verification",
       "arguments", "judgment", "citation_assurance", "readiness"} \subseteq Range(PhaseOrder)
  BY <1>1, <1>2
<1>4. /\ Range(PhaseOrder) \subseteq Phases
      /\ "review" \in Phases /\ "cancelled" \in Phases
  BY DEF Phases, Ended
<1>5. CASE n \in {"create", "normalize", "plan", "prepare", "research", "consolidate"}
  BY <1>3, <1>4, <1>5 DEF PhaseOf
<1>6. CASE n \in {"provenance", "verify", "ledger", "defender", "challenger", "reconcile"}
  BY <1>3, <1>4, <1>6 DEF PhaseOf
<1>7. CASE n \in {"draft", "policy", "audit", "readiness"}
  BY <1>3, <1>4, <1>7 DEF PhaseOf
<1>8. CASE n \in {"more_evidence", "reject"}
  BY <1>4, <1>8 DEF PhaseOf
<1> QED BY <1>5, <1>6, <1>7, <1>8, AnalysisSet

LEMMA CheckpointType ==
  ASSUME NEW s \in State, NEW n, NEW phase \in Phases
  PROVE  /\ Checkpoint(s, n, phase) \in State
         /\ Checkpoint(s, n, phase).decision = s.decision
         /\ Checkpoint(s, n, phase).report => s.report \/ n = "finalize"
<1>1. PICK q \in Nat : q = IF n = "create" THEN 0 ELSE s.seq + 1
  BY DEF State
<1>2. PICK d \in SUBSET Operations :
        d = IF n \in Operations THEN s.done \union {n} ELSE s.done
  BY DEF State
<1>3. PICK r \in BOOLEAN : r = (s.report \/ n = "finalize")
  OBVIOUS
<1>4. Checkpoint(s, n, phase)
        = [s EXCEPT !.seq = q, !.phase = phase, !.done = d, !.report = r]
  BY <1>1, <1>2, <1>3, Zenon DEF Checkpoint
<1>5. /\ Checkpoint(s, n, phase) \in State
      /\ Checkpoint(s, n, phase).decision = s.decision
      /\ Checkpoint(s, n, phase).report = r
  BY <1>4 DEF State
<1> QED BY <1>3, <1>5

-----------------------------------------------------------------------------
(* The inductive invariant.                                                *)

Jobs == {"queued", "running", "cancelling", "interrupted", "completed", "failed",
         "cancelled"}
Statuses == {"none", "ready", "review_required", "blocked"}
Stores == [claims : 0 .. 2, publications : 0 .. 2, status : Statuses,
           completed : BOOLEAN, report : BOOLEAN, due : Routing]
Ledgers == [requested : BOOLEAN, decision : Decisions \union {None},
            approved : BOOLEAN, revised : BOOLEAN]

\* A job that waits has an attempt left, which is why none exceeds the maximum.
JobInv ==
  /\ job \in Jobs
  /\ attempts \in 0 .. MaxAttempts
  /\ job = "queued" => attempts < MaxAttempts

\* A request that runs the thread brings a decision.
RunInv ==
  /\ run \in [Clients -> Run]
  /\ graph \in Position \union {NoPosition}
  /\ \A r \in Requests : Running(r) => run[r].decision \in Decisions

\* Where the thread may be continued from.
Positions == {graph} \union {run[c].at : c \in Clients}

\* A position that is neither empty nor the beginning has its state in the
\* history, at the place its sequence number names, and is past create.
Logged(s) == s.seq < Len(history) /\ history[s.seq + 1] = s
Placed(p) == p \in {NoPosition, Fresh} \/ (p.next # "create" /\ Logged(p.state))

HistoryInv ==
  /\ history \in Seq(State)
  /\ \A i \in 1 .. Len(history) : history[i].seq = i - 1
  /\ \A p \in Positions : Placed(p)

DecisionInv ==
  \A i \in 1 .. Len(history) : history[i].decision \in {None, ledger.decision}

\* The ledger holds the approval of a decision that releases the report.
Signed ==
  /\ ledger.decision # None
  /\ Kind[ledger.decision] \in {"approve", "revise"}
  /\ ledger.approved
  /\ Kind[ledger.decision] = "revise" => ledger.revised

\* As long as that is missing, no report exists and no run, and no run that
\* would continue the thread, is on the way to one.
Unreleased ==
  /\ ~store.report
  /\ \A i \in 1 .. Len(history) : ~history[i].report
  /\ \A p \in Positions : p.next \notin {"approve_or_revise", "finalize"}

ApprovalInv ==
  /\ ledger.requested => store.due.review
  /\ store.due.review => Signed \/ Unreleased

GraphTyped ==
  /\ JobInv /\ RunInv
  /\ store \in Stores /\ ledger \in Ledgers /\ crashes \in 0 .. MaxCrashes

GraphInv == GraphTyped /\ HistoryInv /\ DecisionInv /\ ApprovalInv

-----------------------------------------------------------------------------
(* What a step may do to the stores.                                       *)

\* The state of every new position is an old one.
Stays ==
  /\ UNCHANGED history
  /\ \A p \in Positions' :
       \/ p \in Positions \union {NoPosition, Fresh}
       \/ \E q \in Positions : /\ q.next = "review"
                               /\ p.next = "review" /\ p.state = q.state

\* One checkpoint is appended, of a run that was at q, and may be the state of
\* a new position.  A way to the report leads over the review, if one is due.
Advances ==
  \E q \in Positions \ {NoPosition}, new \in State, next \in Nodes \ {"create"} :
    /\ history' = Append(history, new) /\ new.seq = Len(history)
    /\ new.decision \in {q.state.decision, ledger'.decision}
    /\ new.report => q.state.report \/ q.next = "finalize"
    /\ next \in {"approve_or_revise", "finalize"} =>
         q.next = "approve_or_revise" \/ ~store.due.review \/ Signed'
    /\ \A p \in Positions' : \/ p \in Positions \union {NoPosition}
                             \/ p.next = next /\ p.state = new

\* An accepted decision and its approval are never replaced.
LedgerStep ==
  /\ ledger' \in Ledgers
  /\ ledger.decision # None => UNCHANGED ledger.decision
  /\ ledger'.requested => ledger.requested \/ store.due.review
  /\ Signed => Signed'

\* Only finalize writes the report.
StoreStep ==
  /\ store' \in Stores /\ store'.due = store.due
  /\ store'.report => store.report \/ \E q \in Positions : q.next = "finalize"

Effect == (Stays \/ Advances) /\ LedgerStep /\ StoreStep

-----------------------------------------------------------------------------
(* The effect of a step preserves the invariants of the stores.            *)

LEMMA AppendFacts ==
  ASSUME HistoryInv, NEW new \in State, history' = Append(history, new)
  PROVE  /\ history' \in Seq(State) /\ Len(history) \in Nat
         /\ Len(history') = Len(history) + 1
         /\ history'[Len(history) + 1] = new
         /\ \A i \in 1 .. Len(history) : history'[i] = history[i]
BY DEF HistoryInv

\* The state of a position is one of the history, or nothing.
LEMMA PositionState ==
  ASSUME HistoryInv, RunInv, NEW q \in Positions \ {NoPosition}
  PROVE  /\ q \in Position /\ q.state \in State
         /\ \/ q.state = NoState
            \/ \E i \in 1 .. Len(history) : history[i] = q.state
<1>1. q \in Position
  BY DEF Positions, RunInv, Run
<1>2. q.state \in State /\ q.state.seq \in Nat /\ Len(history) \in Nat
  BY <1>1 DEF Position, State, HistoryInv
<1>3. CASE q = Fresh
  BY <1>1, <1>2, <1>3 DEF Fresh
<1>4. CASE Logged(q.state)
  <2>1. q.state.seq + 1 \in 1 .. Len(history)
    BY <1>2, <1>4 DEF Logged
  <2> QED BY <1>1, <1>2, <1>4, <2>1 DEF Logged
<1> QED BY <1>3, <1>4 DEF HistoryInv, Placed

LEMMA HistoryStep == RunInv /\ HistoryInv /\ (Stays \/ Advances) => HistoryInv'
<1> SUFFICES ASSUME RunInv, HistoryInv, Stays \/ Advances PROVE HistoryInv'
  OBVIOUS
<1>1. CASE Stays
  <2>1. ASSUME NEW p \in Positions' PROVE Placed(p)'
    <3>1. CASE p \in Positions \union {NoPosition, Fresh}
      BY <1>1, <3>1 DEF Stays, HistoryInv, Placed, Logged
    <3>2. CASE \E q \in Positions : /\ q.next = "review" /\ p.next = "review"
                                    /\ p.state = q.state
      <4>1. PICK q \in Positions : q.next = "review" /\ p.next = "review" /\ p.state = q.state
        BY <3>2
      <4>2. q \notin {NoPosition, Fresh}
        BY <4>1 DEF NoPosition, Fresh
      <4> QED BY <1>1, <4>1, <4>2 DEF Stays, HistoryInv, Placed, Logged
    <3> QED BY <1>1, <3>1, <3>2 DEF Stays
  <2> QED BY <1>1, <2>1 DEF Stays, HistoryInv
<1>2. CASE Advances
  <2>1. PICK q \in Positions \ {NoPosition}, new \in State, next \in Nodes \ {"create"} :
          /\ history' = Append(history, new) /\ new.seq = Len(history)
          /\ \A p \in Positions' : \/ p \in Positions \union {NoPosition}
                                   \/ p.next = next /\ p.state = new
    BY <1>2 DEF Advances
  <2>2. /\ history' \in Seq(State) /\ Len(history) \in Nat
        /\ Len(history') = Len(history) + 1
        /\ history'[Len(history) + 1] = new
        /\ \A i \in 1 .. Len(history) : history'[i] = history[i]
    BY <2>1, AppendFacts
  <2>3. ASSUME NEW i \in 1 .. Len(history') PROVE history'[i].seq = i - 1
    BY <2>1, <2>2 DEF HistoryInv
  <2>4. ASSUME NEW p \in Positions' PROVE Placed(p)'
    <3>1. CASE p \in {NoPosition, Fresh}
      BY <3>1 DEF Placed
    <3>2. CASE p \in Positions \ {NoPosition, Fresh}
      <4>1. p.next # "create" /\ Logged(p.state) /\ p.state.seq \in Nat
        BY <3>2, PositionState DEF HistoryInv, Placed, State
      <4>2. p.state.seq + 1 \in 1 .. Len(history)
        BY <2>2, <4>1 DEF Logged
      <4> QED BY <2>2, <4>1, <4>2 DEF Placed, Logged
    <3>3. CASE p.next = next /\ p.state = new
      BY <2>1, <2>2, <3>3 DEF Placed, Logged
    <3> QED BY <2>1, <3>1, <3>2, <3>3
  <2> QED BY <2>2, <2>3, <2>4 DEF HistoryInv
<1> QED BY <1>1, <1>2

LEMMA DecisionStep == RunInv /\ HistoryInv /\ DecisionInv /\ Effect => DecisionInv'
<1> SUFFICES ASSUME RunInv, HistoryInv, DecisionInv, Effect PROVE DecisionInv'
  OBVIOUS
<1>1. ASSUME NEW d \in {None, ledger.decision} PROVE d \in {None, ledger'.decision}
  BY <1>1 DEF Effect, LedgerStep
<1>2. CASE Stays
  BY <1>1, <1>2 DEF Stays, DecisionInv
<1>3. CASE Advances
  <2>1. PICK q \in Positions \ {NoPosition}, new \in State :
          /\ history' = Append(history, new)
          /\ new.decision \in {q.state.decision, ledger'.decision}
    BY <1>3 DEF Advances
  <2>2. q.state.decision \in {None, ledger.decision}
    BY PositionState DEF DecisionInv, NoState
  <2>3. /\ Len(history) \in Nat /\ Len(history') = Len(history) + 1
        /\ history'[Len(history) + 1] = new
        /\ \A i \in 1 .. Len(history) : history'[i] = history[i]
    BY <2>1, AppendFacts
  <2> QED BY <1>1, <2>1, <2>2, <2>3 DEF DecisionInv
<1> QED BY <1>2, <1>3 DEF Effect

LEMMA ApprovalStep == RunInv /\ HistoryInv /\ ApprovalInv /\ Effect => ApprovalInv'
<1> SUFFICES ASSUME RunInv, HistoryInv, ApprovalInv, Effect PROVE ApprovalInv'
  OBVIOUS
<1>1. (ledger.requested => store.due.review)' /\ store'.due = store.due
  BY DEF ApprovalInv, Effect, LedgerStep, StoreStep
<1>2. CASE ~store.due.review \/ Signed
  BY <1>1, <1>2 DEF ApprovalInv, Effect, LedgerStep
<1>3. CASE store.due.review /\ Unreleased
  <2>1. ~store'.report
    BY <1>3 DEF Unreleased, Effect, StoreStep
  <2>2. CASE Stays
    <3>1. ASSUME NEW p \in Positions' PROVE p.next \notin {"approve_or_revise", "finalize"}
      BY <1>3, <2>2 DEF Unreleased, Stays, NoPosition, Fresh
    <3> QED BY <1>1, <2>1, <2>2, <3>1, <1>3 DEF Stays, Unreleased, ApprovalInv
  <2>3. CASE Advances
    <3>1. PICK q \in Positions \ {NoPosition}, new \in State, next \in Nodes \ {"create"} :
            /\ history' = Append(history, new)
            /\ new.report => q.state.report \/ q.next = "finalize"
            /\ next \in {"approve_or_revise", "finalize"} =>
                 q.next = "approve_or_revise" \/ ~store.due.review \/ Signed'
            /\ \A p \in Positions' : \/ p \in Positions \union {NoPosition}
                                     \/ p.next = next /\ p.state = new
      BY <2>3 DEF Advances
    <3>2. q.next \notin {"approve_or_revise", "finalize"}
      BY <1>3 DEF Unreleased
    <3>3. ~q.state.report
      BY <1>3, PositionState DEF Unreleased, NoState
    <3>4. /\ Len(history) \in Nat /\ Len(history') = Len(history) + 1
          /\ history'[Len(history) + 1] = new
          /\ \A i \in 1 .. Len(history) : history'[i] = history[i]
      BY <3>1, AppendFacts
    <3>5. ASSUME NEW i \in 1 .. Len(history') PROVE ~history'[i].report
      BY <1>3, <3>1, <3>2, <3>3, <3>4, <3>5 DEF Unreleased
    <3>6. CASE next \in {"approve_or_revise", "finalize"}
      BY <1>1, <1>3, <3>1, <3>2, <3>6 DEF ApprovalInv
    <3>7. CASE next \notin {"approve_or_revise", "finalize"}
      <4>1. ASSUME NEW p \in Positions' PROVE p.next \notin {"approve_or_revise", "finalize"}
        BY <1>3, <3>1, <3>7 DEF Unreleased, NoPosition
      <4> QED BY <1>1, <2>1, <3>5, <4>1 DEF Unreleased, ApprovalInv
    <3> QED BY <3>6, <3>7
  <2> QED BY <2>2, <2>3 DEF Effect
<1> QED BY <1>2, <1>3 DEF ApprovalInv

-----------------------------------------------------------------------------
(* How runs begin, move and end.                                           *)

LEMMA RunSet ==
  ASSUME RunInv, NEW c \in Clients, NEW e \in Run,
         c \in Requests => e = NoRun \/ e.decision \in Decisions,
         run' = [run EXCEPT ![c] = e], graph' \in Position \union {NoPosition}
  PROVE  /\ RunInv'
         /\ \A p \in Positions' : p \in Positions \union {graph', e.at}
<1>1. \A b \in Clients : run'[b] = IF b = c THEN e ELSE run[b]
  BY DEF RunInv
<1>2. Requests \subseteq Clients
  BY DEF Clients
<1> QED BY <1>1, <1>2 DEF RunInv, Positions, Running

LEMMA NoRunType == NoRun \in Run /\ NoRun.at = NoPosition
BY DEF NoRun, Run

LEMMA LeaveEffect ==
  ASSUME RunInv, NEW c \in Clients, Leave(c)
  PROVE  RunInv' /\ \A p \in Positions' : p \in Positions \union {NoPosition}
<1>1. run[c].at \in Positions /\ graph \in Positions
  BY DEF Positions
<1>2. graph' \in Positions /\ graph' \in Position \union {NoPosition}
  BY <1>1 DEF Leave, RunInv, Run
<1>3. run' = [run EXCEPT ![c] = NoRun]
  BY DEF Leave
<1> QED BY <1>2, <1>3, NoRunType, RunSet

\* An error ends the run and decides what becomes of the job.
LEMMA RaiseEffect ==
  ASSUME RunInv, JobInv, NEW c \in Clients, NEW class, NEW completed,
         Raise(c, class, completed), UNCHANGED attempts
  PROVE  JobInv' /\ RunInv' /\ Stays
<1>1. JobInv'
  BY DEF Raise, StatusAfterError, JobInv, Jobs
<1>2. RunInv' /\ \A p \in Positions' : p \in Positions \union {NoPosition}
  BY LeaveEffect DEF Raise
<1> QED BY <1>1, <1>2 DEF Raise, Stays

LEMMA AcceptedNext ==
  ASSUME HistoryInv, NEW new \in State, Accepted(new)
  PROVE  new.seq = Len(history)
<1>1. CASE history = <<>> /\ new.seq = 0
  BY <1>1
<1>2. CASE history # <<>> /\ new.seq = Last(history).seq + 1
  <2>1. Len(history) \in Nat \ {0} /\ Last(history) = history[Len(history)]
    BY <1>2 DEF HistoryInv, Last
  <2> QED BY <1>2, <2>1 DEF HistoryInv
<1> QED BY <1>1, <1>2 DEF Accepted

\* A checkpoint is refused, or the job is cancelled at it, or the run goes on.
Appends(new, next) ==
  /\ history' = Append(history, new) /\ new.seq = Len(history)
  /\ \A p \in Positions' : \/ p \in Positions \union {NoPosition}
                           \/ p.next = next /\ p.state = new

LEMMA CommitEffect ==
  ASSUME RunInv, JobInv, HistoryInv, NEW c \in Clients, Running(c), NEW new \in State,
         NEW next \in Nodes, Commit(c, new, next), UNCHANGED attempts
  PROVE  JobInv' /\ RunInv' /\ (Stays \/ Appends(new, next))
<1>1. CASE ~Accepted(new)
  BY <1>1, RaiseEffect DEF Commit
<1>2. CASE Accepted(new) /\ c = "job" /\ job = "cancelling" /\ new.seq > 0
  <2>1. /\ history' = Append(history, new) /\ Leave(c) /\ job' = "cancelled"
        /\ new.seq = Len(history)
    BY <1>2, AcceptedNext DEF Commit
  <2> QED BY <2>1, LeaveEffect DEF Appends, JobInv, Jobs
<1>3. CASE Accepted(new) /\ ~(c = "job" /\ job = "cancelling" /\ new.seq > 0)
  <2> DEFINE at == [next |-> next, parked |-> FALSE, state |-> new]
             e  == [run[c] EXCEPT !.saved = FALSE, !.at = at]
  <2>1. /\ history' = Append(history, new) /\ run' = [run EXCEPT ![c] = e]
        /\ UNCHANGED <<graph, job>> /\ new.seq = Len(history)
    BY <1>3, AcceptedNext DEF Commit
  <2>2. at \in Position /\ at.next = next /\ at.state = new
    BY DEF Position
  <2>3. run[c] \in Run /\ graph \in Position \union {NoPosition} /\ graph \in Positions
    BY DEF RunInv, Positions
  <2> HIDE DEF at
  <2>4. e \in Run /\ e.at = at /\ e.decision = run[c].decision
    BY <2>2, <2>3 DEF Run
  <2> HIDE DEF e
  <2>5. RunInv' /\ \A p \in Positions' : p \in Positions \union {graph', at}
    BY <2>1, <2>3, <2>4, RunSet DEF RunInv
  <2> QED BY <2>1, <2>2, <2>3, <2>5 DEF Appends, JobInv
<1> QED BY <1>1, <1>2, <1>3

LEMMA NodeNames ==
  /\ Analysis \subseteq Nodes /\ "none" \notin Nodes
  /\ {"route", "review", "approve_or_revise", "more_evidence", "reject", "finalize", "end"}
       \subseteq Nodes \ {"create"}
BY AnalysisSet DEF Nodes

\* A node that commits its own checkpoint.
LEMMA NodeEffect ==
  ASSUME RunInv, JobInv, HistoryInv, NEW c \in Clients, NEW n \in Nodes, At(c, n),
         NEW phase \in Phases, NEW next \in Nodes \ {"create"},
         Commit(c, Done(c, n, phase), next), UNCHANGED attempts,
         next \in {"approve_or_revise", "finalize"} =>
           n = "approve_or_revise" \/ ~store.due.review
  PROVE  JobInv' /\ RunInv' /\ (Stays \/ Advances)
<1> DEFINE q == run[c].at
           new == Done(c, n, phase)
<1>1. q \in Positions \ {NoPosition} /\ q.next = n /\ Running(c)
  BY NodeNames DEF At, Positions, NoPosition
<1>2. q.state \in State
  BY <1>1, PositionState
<1>3. /\ new \in State /\ new.decision = q.state.decision
      /\ new.report => q.state.report \/ n = "finalize"
  BY <1>2, CheckpointType DEF Done
<1> HIDE DEF q, new
<1>4. JobInv' /\ RunInv' /\ (Stays \/ Appends(new, next))
  BY <1>1, <1>3, CommitEffect DEF new
<1>5. ASSUME Appends(new, next) PROVE Advances
  BY <1>1, <1>3, <1>5 DEF Appends, Advances
<1> QED BY <1>4, <1>5

LEMMA Unmoved ==
  ASSUME UNCHANGED <<run, graph, history>>
  PROVE  Stays /\ (RunInv => RunInv')
BY DEF Stays, Positions, RunInv, Running

LEMMA StoreKept == store \in Stores /\ UNCHANGED store => StoreStep
BY DEF StoreStep

LEMMA LedgerKept == ledger \in Ledgers /\ UNCHANGED ledger => LedgerStep
BY DEF LedgerStep, Signed

-----------------------------------------------------------------------------
(* What the nodes write.                                                   *)

LEMMA StoreWrites ==
  ASSUME store \in Stores,
         \/ store' \in {WithClaim, Routed, Completed}
         \/ store.publications = 1 /\ store' \in {Republished("ready"), Republished("blocked")}
         \/ store' = Reported /\ \E q \in Positions : q.next = "finalize"
  PROVE  StoreStep
<1>1. /\ store.claims \in 0 .. 2 /\ store.due \in Routing
      /\ store.due.status \in Statuses
  BY DEF Stores, Routing, Statuses
<1>2. CASE store' = WithClaim
  <2>1. (IF store.claims < 2 THEN store.claims + 1 ELSE store.claims) \in 0 .. 2
    BY <1>1
  <2> QED BY <1>2, <2>1 DEF WithClaim, Stores, StoreStep
<1>3. CASE store' = Routed
  <2>1. store.due.status \in Statuses /\ 1 \in 0 .. 2
    BY <1>1
  <2>2. store' \in Stores
    BY <1>3, <2>1 DEF Routed, Stores
  <2> QED BY <1>3, <2>2 DEF Routed, Stores, StoreStep
<1>4. CASE store' = Completed
  BY <1>4 DEF Completed, Stores, StoreStep
<1>5. CASE /\ store.publications = 1
           /\ store' \in {Republished("ready"), Republished("blocked")}
  <2>1. store.publications + 1 \in 0 .. 2 /\ "ready" \in Statuses /\ "blocked" \in Statuses
    BY <1>5 DEF Statuses
  <2>2. PICK status \in Statuses : store' = Republished(status)
    BY <1>5, <2>1
  <2>3. store' \in Stores
    BY <2>1, <2>2 DEF Republished, Stores
  <2> QED BY <2>2, <2>3 DEF Republished, Stores, StoreStep
<1>6. CASE store' = Reported /\ \E q \in Positions : q.next = "finalize"
  BY <1>6 DEF Reported, Completed, Stores, StoreStep
<1> QED BY <1>2, <1>3, <1>4, <1>5, <1>6

LEMMA RequestWrites ==
  ASSUME store \in Stores, ledger \in Ledgers, ledger' = WithRequest
  PROVE  LedgerStep
<1>1. store.due.review \in BOOLEAN
  BY DEF Stores, Routing
<1> QED BY <1>1 DEF WithRequest, Ledgers, LedgerStep, Signed

\* A decision is taken again only as it is, with the same approval.
LEMMA DecisionWrites ==
  ASSUME ledger \in Ledgers, NEW d \in Decisions, Recordable(d),
         ledger' \in {WithDecision(d), WithApproval(d), WithRevision(d)}
  PROVE  LedgerStep /\ ledger'.decision = d
<1>1. PICK a \in BOOLEAN : a = NeedsApproval(d)
  <2>1. NeedsApproval(d) \in BOOLEAN
    BY DEF NeedsApproval
  <2> QED BY <2>1
<1>2. PICK v \in BOOLEAN : v = (Kind[d] = "revise")
  OBVIOUS
<1>3. /\ WithDecision(d) = [ledger EXCEPT !.decision = d]
      /\ WithApproval(d) = [ledger EXCEPT !.decision = d, !.approved = a]
      /\ WithRevision(d) = [ledger EXCEPT !.decision = d, !.approved = a, !.revised = v]
  BY <1>1, <1>2, Zenon DEF WithDecision, WithApproval, WithRevision
<1>4. /\ ledger' \in Ledgers /\ ledger'.decision = d
      /\ ledger'.requested = ledger.requested
      /\ ledger'.approved \in {ledger.approved, a}
      /\ ledger'.revised \in {ledger.revised, v}
  <2>1. CASE ledger' = WithDecision(d)
    BY <1>3, <2>1 DEF Ledgers
  <2>2. CASE ledger' = WithApproval(d)
    BY <1>3, <2>2 DEF Ledgers
  <2>3. CASE ledger' = WithRevision(d)
    BY <1>3, <2>3 DEF Ledgers
  <2> QED BY <2>1, <2>2, <2>3
<1>5. ASSUME Signed PROVE Signed'
  <2>1. ledger.decision = d /\ Kind[d] \in {"approve", "revise"} /\ a
    BY <1>1, <1>5 DEF Signed, Recordable, NeedsApproval
  <2>2. Kind[d] = "revise" => ledger.revised /\ v
    BY <1>2, <1>5, <2>1 DEF Signed
  <2> QED BY <1>4, <1>5, <2>1, <2>2 DEF Signed
<1> QED BY <1>4, <1>5 DEF LedgerStep, Recordable

\* With its approval and its revision the decision releases the report.
LEMMA ReleaseWrites ==
  ASSUME ledger \in Ledgers, NEW d \in Decisions, NeedsApproval(d),
         ledger' = WithRevision(d)
  PROVE  Signed'
<1>1. PICK v \in BOOLEAN : v = (Kind[d] = "revise")
  OBVIOUS
<1>2. WithRevision(d) = [ledger EXCEPT !.decision = d, !.approved = TRUE, !.revised = v]
  BY <1>1, Zenon DEF WithDecision, WithApproval, WithRevision
<1>3. ledger'.decision = d /\ ledger'.approved /\ ledger'.revised = v
  BY <1>2 DEF Ledgers
<1> QED BY <1>1, <1>3, GraphAssumption DEF Signed, NeedsApproval

-----------------------------------------------------------------------------
(* The effect of each action.                                              *)

\* A run, or the node it is in, ends with an error.
LEMMA ErrorEffect ==
  ASSUME GraphTyped, NEW c \in Clients, NEW class, NEW completed,
         Raise(c, class, completed), UNCHANGED <<attempts, store, ledger, crashes>>
  PROVE  GraphTyped' /\ Effect
BY RaiseEffect, StoreKept, LedgerKept DEF GraphTyped, Effect, LedgerStep, StoreStep

\* An analysis node, a closing node and the route write nothing that matters
\* to the review but the request for it.
LEMMA ProgressEffect ==
  ASSUME GraphTyped, HistoryInv, NEW c \in Clients,
         \/ \E n \in Analysis \ {"route"} : AnalysisNode(c, n)
         \/ Route(c)
         \/ \E n \in {"more_evidence", "reject"} : CloseThread(c, n)
         \/ Finalize(c)
         \/ ApproveOrRevise(c)
  PROVE  GraphTyped' /\ Effect
<1> USE DEF GraphTyped
<1>0. /\ "review" \in Phases /\ "finalization" \in Phases /\ "complete" \in Phases
      /\ At(c, "finalize") => \E q \in Positions : q.next = "finalize"
  BY DEF Phases, Ended, At, Positions
<1>1. ASSUME JobInv' /\ RunInv' /\ (Stays \/ Advances), StoreStep, LedgerStep,
             UNCHANGED crashes
      PROVE  GraphTyped' /\ Effect
  BY <1>1 DEF Effect, StoreStep, LedgerStep
<1>2. ASSUME NEW n \in Analysis \ {"route"}, AnalysisNode(c, n)
      PROVE  GraphTyped' /\ Effect
  <2>1. /\ At(c, n) /\ Commit(c, Done(c, n, PhaseOf(n)), Following(n))
        /\ UNCHANGED <<attempts, ledger, crashes>>
        /\ store' \in {store, WithClaim}
    BY <1>2 DEF AnalysisNode
  <2>2. JobInv' /\ RunInv' /\ (Stays \/ Advances)
    BY <2>1, NodeEffect, NodeNames, FollowingType, PhaseType
  <2> QED BY <1>1, <2>1, <2>2, StoreKept, StoreWrites, LedgerKept
<1>3. CASE Route(c)
  <2>1. /\ At(c, "route") /\ UNCHANGED <<attempts, crashes>>
        /\ store' = Routed /\ ledger' = WithRequest
        /\ \/ Commit(c, Done(c, "route", "review"), "review")
           \/ /\ ~store.due.review
              /\ Commit(c, Done(c, "route", "finalization"), "finalize")
    BY <1>3 DEF Route
  <2>2. JobInv' /\ RunInv' /\ (Stays \/ Advances)
    BY <1>0, <2>1, NodeEffect, NodeNames
  <2> QED BY <1>1, <2>1, <2>2, StoreWrites, RequestWrites
<1>4. ASSUME NEW n \in {"more_evidence", "reject"}, CloseThread(c, n)
      PROVE  GraphTyped' /\ Effect
  <2>1. /\ At(c, n) /\ Commit(c, Done(c, n, PhaseOf(n)), "end")
        /\ UNCHANGED <<attempts, store, ledger, crashes>>
    BY <1>4 DEF CloseThread
  <2>2. JobInv' /\ RunInv' /\ (Stays \/ Advances)
    BY <2>1, NodeEffect, NodeNames, PhaseType
  <2> QED BY <1>1, <2>1, <2>2, StoreKept, LedgerKept
<1>5. CASE Finalize(c)
  <2>1. /\ At(c, "finalize") /\ Commit(c, Done(c, "finalize", "complete"), "end")
        /\ store' = Reported /\ UNCHANGED <<attempts, ledger, crashes>>
    BY <1>5 DEF Finalize
  <2>2. JobInv' /\ RunInv' /\ (Stays \/ Advances)
    BY <1>0, <2>1, NodeEffect, NodeNames
  <2> QED BY <1>0, <1>1, <2>1, <2>2, StoreWrites, LedgerKept
<1>6. CASE ApproveOrRevise(c)
  <2>1. /\ At(c, "approve_or_revise")
        /\ Commit(c, Done(c, "approve_or_revise", "finalization"), "finalize")
        /\ store.publications = 1
        /\ store' \in {store, Republished("ready"), Republished("blocked")}
        /\ UNCHANGED <<attempts, ledger, crashes>>
    BY <1>6 DEF ApproveOrRevise
  <2>2. JobInv' /\ RunInv' /\ (Stays \/ Advances)
    BY <1>0, <2>1, NodeEffect, NodeNames
  <2> QED BY <1>1, <2>1, <2>2, StoreKept, StoreWrites, LedgerKept
<1> QED BY <1>2, <1>3, <1>4, <1>5, <1>6

\* The review node of a run that brings a decision.
LEMMA ReviewEffect ==
  ASSUME GraphTyped, HistoryInv, NEW r \in Requests, ReviewNode(r)
  PROVE  GraphTyped' /\ Effect
<1> USE DEF GraphTyped
<1> DEFINE d    == run[r].decision
           q    == run[r].at
           s    == Done(r, "review", "review")
           new  == [s EXCEPT !.decision = d]
           next == AfterReview(Kind[d])
<1>1. /\ r \in Clients /\ d \in Decisions /\ Recordable(d) /\ Running(r)
      /\ q \in Positions \ {NoPosition} /\ q.next = "review"
      /\ UNCHANGED <<attempts, store, crashes>>
  BY DEF ReviewNode, Resumed, RunInv, Clients, Positions, NoPosition
<1>2. StoreStep
  BY <1>1, StoreKept
<1>3. CASE NeedsApproval(d) /\ ~Approver(r)
  <2>1. ledger' = WithDecision(d) /\ Raise(r, "permanent", FALSE)
    BY <1>3 DEF ReviewNode
  <2>2. LedgerStep
    BY <1>1, <2>1, DecisionWrites
  <2>3. JobInv' /\ RunInv' /\ Stays
    BY <1>1, <2>1, RaiseEffect
  <2> QED BY <1>1, <1>2, <2>2, <2>3 DEF Effect, StoreStep, LedgerStep
<1>4. CASE ~(NeedsApproval(d) /\ ~Approver(r))
  <2>1. ledger' = WithRevision(d) /\ Commit(r, new, next)
    BY <1>4 DEF ReviewNode
  <2>2. LedgerStep /\ ledger'.decision = d
    BY <1>1, <2>1, DecisionWrites
  <2>3. /\ new \in State /\ new.decision = d
        /\ new.report => q.state.report
    <3>1. q.state \in State /\ "review" \in Phases
      BY <1>1, PositionState DEF Phases
    <3>2. s \in State /\ (s.report => q.state.report)
      BY <3>1, CheckpointType DEF Done
    <3> HIDE DEF s, q, d
    <3> QED BY <1>1, <3>2 DEF State
  <2>4. /\ next \in Nodes \ {"create"} /\ next # "finalize"
        /\ next = "approve_or_revise" => NeedsApproval(d)
    <3>1. Kind[d] \in Kinds
      BY <1>1, GraphAssumption
    <3>2. next \in {"more_evidence", "reject", "approve_or_revise"}
      BY DEF AfterReview
    <3>3. next = "approve_or_revise" => NeedsApproval(d)
      BY <3>1 DEF AfterReview, NeedsApproval, Kinds
    <3> QED BY <3>2, <3>3, NodeNames
  <2>5. next = "approve_or_revise" => Signed'
    BY <1>1, <2>1, <2>4, ReleaseWrites
  <2> HIDE DEF d, q, s, new, next
  <2>6. JobInv' /\ RunInv' /\ (Stays \/ Appends(new, next))
    BY <1>1, <2>1, <2>3, <2>4, CommitEffect
  <2>7. ASSUME Appends(new, next) PROVE Advances
    BY <1>1, <2>2, <2>3, <2>4, <2>5, <2>7 DEF Appends, Advances
  <2> QED BY <1>1, <1>2, <2>2, <2>6, <2>7 DEF Effect, StoreStep, LedgerStep
<1> QED BY <1>3, <1>4

\* The steps that move a run without a checkpoint.
LEMMA MoveEffect ==
  ASSUME GraphTyped, HistoryInv, NEW c \in Clients,
         \/ Park(c) \/ Persist(c)
         \/ c = "job" /\ StartJob
         \/ c \in Requests /\ \E d \in Decisions, approver \in BOOLEAN : Resume(c, d, approver)
         \/ c \in Requests /\ Invoke(c)
  PROVE  GraphTyped' /\ Effect
<1> USE DEF GraphTyped
<1>0. run[c] \in Run /\ run[c].at \in Positions /\ graph \in Positions
  BY DEF RunInv, Positions
<1>1. ASSUME NEW e \in Run, c \in Requests => e.decision \in Decisions \/ e = NoRun,
             run' = [run EXCEPT ![c] = e], graph' \in {graph, run[c].at},
             \/ e.at \in Positions \union {NoPosition, Fresh}
             \/ /\ run[c].at.next = "review"
                /\ e.at.next = "review" /\ e.at.state = run[c].at.state,
             UNCHANGED <<history, store, ledger, crashes>>
      PROVE  RunInv' /\ Effect /\ store' \in Stores /\ ledger' \in Ledgers
  <2>1. graph' \in Position \union {NoPosition} /\ graph' \in Positions
    BY <1>0, <1>1 DEF RunInv, Run
  <2>2. RunInv' /\ \A p \in Positions' : p \in Positions \union {graph', e.at}
    BY <1>1, <2>1, RunSet
  <2>3. Stays
    BY <1>0, <1>1, <2>1, <2>2 DEF Stays
  <2> QED BY <1>1, <2>2, <2>3, StoreKept, LedgerKept DEF Effect
<1>2. Running(c) /\ c \in Requests => run[c].decision \in Decisions
  BY DEF RunInv
<1>3. CASE Park(c)
  <2> DEFINE e == [run[c] EXCEPT !.at.parked = TRUE, !.saved = FALSE]
  <2>1. /\ run' = [run EXCEPT ![c] = e] /\ run[c].at.next = "review" /\ Running(c)
        /\ UNCHANGED <<job, attempts, history, graph, store, ledger, crashes>>
    BY <1>3 DEF Park, At
  <2>2. run[c].at \in Position
    BY <1>0, <2>1 DEF Run, NoPosition
  <2>3. /\ e \in Run /\ e.decision = run[c].decision
        /\ e.at.next = run[c].at.next /\ e.at.state = run[c].at.state
    BY <1>0, <2>2 DEF Run, Position
  <2> HIDE DEF e
  <2> QED BY <1>1, <1>2, <2>1, <2>3 DEF JobInv
<1>4. CASE Persist(c)
  <2> DEFINE e == [run[c] EXCEPT !.saved = TRUE]
  <2>1. /\ run' = [run EXCEPT ![c] = e] /\ graph' = run[c].at /\ Running(c)
        /\ UNCHANGED <<job, attempts, history, store, ledger, crashes>>
    BY <1>4 DEF Persist
  <2>2. e \in Run /\ e.decision = run[c].decision /\ e.at = run[c].at
    BY <1>0 DEF Run
  <2> HIDE DEF e
  <2> QED BY <1>0, <1>1, <1>2, <2>1, <2>2 DEF JobInv
<1>5. CASE c = "job" /\ StartJob
  <2> DEFINE e == [NoRun EXCEPT !.at = IF graph = NoPosition THEN Fresh ELSE graph]
  <2>1. /\ run' = [run EXCEPT ![c] = e] /\ c \notin Requests
        /\ UNCHANGED <<history, graph, store, ledger, crashes>>
    BY <1>5, GraphAssumption DEF StartJob
  <2>2. JobInv'
    BY <1>5, GraphAssumption DEF StartJob, JobInv, Jobs
  <2>3. Fresh \in Position
    BY AnalysisSet DEF Fresh, Position, NoState, State, Nodes, Phases, Ended, PhaseOrder, Range
  <2>4. e \in Run /\ e.at \in Positions \union {Fresh}
    BY <1>0, <2>3 DEF NoRun, Run, RunInv
  <2> HIDE DEF e
  <2> QED BY <1>1, <2>1, <2>2, <2>4
<1>6. ASSUME c \in Requests, NEW d \in Decisions, NEW approver \in BOOLEAN,
             Resume(c, d, approver)
      PROVE  GraphTyped' /\ Effect
  <2> DEFINE e == [NoRun EXCEPT !.decision = d, !.approver = approver]
  <2>1. /\ run' = [run EXCEPT ![c] = e]
        /\ UNCHANGED <<job, attempts, history, graph, store, ledger, crashes>>
    BY <1>6 DEF Resume
  <2>2. e \in Run /\ e.at = NoPosition /\ e.decision = d
    BY NoRunType DEF Run, NoRun
  <2> HIDE DEF e
  <2> QED BY <1>0, <1>1, <2>1, <2>2 DEF JobInv
<1>7. CASE c \in Requests /\ Invoke(c)
  <2> DEFINE e == [run[c] EXCEPT !.at = graph]
  <2>1. /\ run' = [run EXCEPT ![c] = e] /\ Running(c)
        /\ UNCHANGED <<job, attempts, history, graph, store, ledger, crashes>>
    BY <1>7 DEF Invoke
  <2>2. e \in Run /\ e.at = graph /\ e.decision = run[c].decision
    BY <1>0 DEF Run, RunInv
  <2> HIDE DEF e
  <2> QED BY <1>0, <1>1, <1>2, <1>7, <2>1, <2>2 DEF JobInv
<1> QED BY <1>3, <1>4, <1>5, <1>6, <1>7

\* The end of a run whose thread is interrupted or at its end.
LEMMA ReturnEffect ==
  ASSUME GraphTyped, NEW c \in Clients, Leave(c), JobInv', UNCHANGED <<history, ledger, crashes>>,
         store' \in {store, Completed}
  PROVE  GraphTyped' /\ Effect
<1>1. RunInv' /\ Stays
  BY LeaveEffect DEF GraphTyped, Stays
<1>2. StoreStep /\ LedgerStep
  BY StoreKept, StoreWrites, LedgerKept DEF GraphTyped
<1> QED BY <1>1, <1>2 DEF GraphTyped, Effect, StoreStep, LedgerStep

\* A call that runs no node.
LEMMA CallEffect ==
  ASSUME GraphTyped, UNCHANGED <<run, history, graph, ledger, crashes>>, JobInv',
         store' \in {store, Completed}
  PROVE  GraphTyped' /\ Effect
BY Unmoved, StoreKept, StoreWrites, LedgerKept
   DEF GraphTyped, Effect, StoreStep, LedgerStep

\* What a node may leave behind when the process dies in it.
LEMMA CrashEffect == GraphTyped /\ Crash => GraphTyped' /\ Effect
<1> SUFFICES ASSUME GraphTyped, Crash PROVE GraphTyped' /\ Effect
  OBVIOUS
<1> USE DEF GraphTyped
<1>1. PICK c \in Clients :
        Running(c) /\ \E e \in Halfway(c) : store' = e.store /\ ledger' = e.ledger
  BY DEF Crash
<1>2. PICK e \in Halfway(c) : store' = e.store /\ ledger' = e.ledger
  BY <1>1
<1>3. crashes' \in 0 .. MaxCrashes
  BY GraphAssumption DEF Crash
<1>4. JobInv' /\ RunInv' /\ Stays
  <2>1. \A b \in Clients : run'[b] = NoRun
    BY DEF Crash
  <2>2. run' \in [Clients -> Run] /\ graph' = graph /\ UNCHANGED <<job, attempts, history>>
    BY NoRunType DEF Crash
  <2>3. \A r \in Requests : ~Running(r)'
    BY <2>1 DEF Clients, Running
  <2>4. \A p \in Positions' : p \in Positions \union {NoPosition}
    BY <2>1, <2>2, NoRunType DEF Positions
  <2> QED BY <2>2, <2>3, <2>4 DEF JobInv, RunInv, Stays
<1>5. StoreStep /\ LedgerStep
  <2>1. CASE e \in [store : {store}, ledger : {ledger}]
    BY <1>2, <2>1, StoreKept, LedgerKept
  <2>2. CASE At(c, "normalize") /\ e \in [store : {WithClaim}, ledger : {ledger}]
    BY <1>2, <2>2, StoreWrites, LedgerKept
  <2>3. CASE At(c, "route") /\ e \in [store : {Routed}, ledger : {ledger, WithRequest}]
    BY <1>2, <2>3, StoreWrites, LedgerKept, RequestWrites
  <2>4. CASE /\ c \in Requests /\ Resumed(c) /\ Recordable(run[c].decision)
             /\ LET d == run[c].decision IN
                e \in [store : {store}, ledger : {WithDecision(d), WithApproval(d), WithRevision(d)}]
    <3>1. run[c].decision \in Decisions
      BY <1>1, <2>4 DEF RunInv
    <3> QED BY <1>2, <2>4, <3>1, StoreKept, DecisionWrites
  <2>5. CASE /\ At(c, "approve_or_revise") /\ store.publications = 1
             /\ e \in [store : {Republished("ready"), Republished("blocked")}, ledger : {ledger}]
    BY <1>2, <2>5, StoreWrites, LedgerKept
  <2>6. CASE At(c, "finalize") /\ e \in [store : {Completed, Reported}, ledger : {ledger}]
    <3>1. \E q \in Positions : q.next = "finalize"
      BY <2>6 DEF At, Positions
    <3> QED BY <1>2, <2>6, <3>1, StoreWrites, LedgerKept
  <2> QED BY <1>2, <2>1, <2>2, <2>3, <2>4, <2>5, <2>6 DEF Halfway
<1> QED BY <1>3, <1>4, <1>5 DEF Effect, StoreStep, LedgerStep

LEMMA StepEffect ==
  GraphTyped /\ HistoryInv /\ [GraphNext]_graphVars => GraphTyped' /\ Effect
<1> SUFFICES ASSUME GraphTyped, HistoryInv, [GraphNext]_graphVars PROVE GraphTyped' /\ Effect
  OBVIOUS
<1>1. "job" \in Clients /\ Requests \subseteq Clients
  BY DEF Clients
<1>2. ASSUME NEW c \in Clients, Node(c) PROVE GraphTyped' /\ Effect
  BY <1>2, ProgressEffect, MoveEffect, ErrorEffect
     DEF Node, ClaimAmbiguous, PublicationAmbiguous
<1>3. ASSUME NEW c \in Clients, Persist(c) PROVE GraphTyped' /\ Effect
  BY <1>3, MoveEffect
<1>4. ASSUME NEW c \in Clients, NEW n \in Analysis, NEW class, NodeRaises(c, n, class)
      PROVE  GraphTyped' /\ Effect
  BY <1>4, ErrorEffect DEF NodeRaises
<1>5. CASE StartJob
  BY <1>1, <1>5, MoveEffect
<1>6. CASE JobReturns
  <2>1. JobInv'
    BY <1>6 DEF JobReturns, GraphTyped, JobInv, Jobs
  <2> QED BY <1>1, <1>6, <2>1, ReturnEffect DEF JobReturns
<1>7. CASE RequestCancellation
  <2>1. JobInv'
    BY <1>7 DEF RequestCancellation, GraphTyped, JobInv, Jobs
  <2> QED BY <1>7, <2>1, CallEffect DEF RequestCancellation
<1>8. CASE Recover
  <2>1. JobInv'
    BY <1>8 DEF Recover, GraphTyped, JobInv, Jobs
  <2> QED BY <1>8, <2>1, CallEffect DEF Recover
<1>9. ASSUME NEW r \in Requests, ReviewNode(r) PROVE GraphTyped' /\ Effect
  BY <1>9, ReviewEffect
<1>10. ASSUME NEW r \in Requests, ReviewRefused(r) PROVE GraphTyped' /\ Effect
  BY <1>1, <1>10, ErrorEffect DEF ReviewRefused
<1>11. ASSUME NEW r \in Requests, RequestReturns(r) PROVE GraphTyped' /\ Effect
  <2>1. JobInv'
    BY <1>11 DEF RequestReturns, CloseJob, GraphTyped, JobInv, Jobs
  <2> QED BY <1>1, <1>11, <2>1, ReturnEffect DEF RequestReturns, CloseJob
<1>12. ASSUME NEW r \in Requests, NEW d \in Decisions, Replay(r, d)
       PROVE  GraphTyped' /\ Effect
  <2>1. JobInv'
    BY <1>12 DEF Replay, CloseJob, GraphTyped, JobInv, Jobs
  <2> QED BY <1>12, <2>1, CallEffect DEF Replay, CloseJob
<1>13. ASSUME NEW r \in Requests, NEW d \in Decisions, NEW approver \in BOOLEAN,
              Resume(r, d, approver)
       PROVE  GraphTyped' /\ Effect
  BY <1>1, <1>13, MoveEffect
<1>14. ASSUME NEW r \in Requests, Invoke(r) PROVE GraphTyped' /\ Effect
  BY <1>1, <1>14, MoveEffect
<1>15. CASE Crash
  BY <1>15, CrashEffect
<1>16. CASE UNCHANGED graphVars
  BY <1>16, CallEffect DEF graphVars, GraphTyped, JobInv
<1> QED
  BY <1>2, <1>3, <1>4, <1>5, <1>6, <1>7, <1>8, <1>9, <1>10, <1>11, <1>12, <1>13,
     <1>14, <1>15, <1>16
     DEF GraphNext

LEMMA GraphInvariant == GraphSpec => []GraphInv
<1>1. GraphInit => GraphInv
  <2> SUFFICES ASSUME GraphInit PROVE GraphInv
    OBVIOUS
  <2>1. JobInv /\ crashes \in 0 .. MaxCrashes
    BY GraphAssumption DEF GraphInit, JobInv, Jobs
  <2>2. RunInv
    BY NoRunType DEF GraphInit, RunInv, Running, Clients
  <2>3. store \in Stores /\ ~store.report
    BY DEF GraphInit, Stores, Statuses
  <2>4. ledger \in Ledgers /\ ~ledger.requested
    BY DEF GraphInit, Ledgers
  <2>5. history = <<>> /\ \A p \in Positions : p = NoPosition
    BY NoRunType DEF GraphInit, Positions
  <2>6. HistoryInv
    BY <2>5 DEF HistoryInv, Placed
  <2>7. Unreleased
    BY <2>3, <2>5 DEF Unreleased, NoPosition
  <2> QED BY <2>1, <2>2, <2>3, <2>4, <2>5, <2>6, <2>7
          DEF GraphInv, GraphTyped, DecisionInv, ApprovalInv
<1>2. GraphInv /\ [GraphNext]_graphVars => GraphInv'
  <2> SUFFICES ASSUME GraphInv, [GraphNext]_graphVars PROVE GraphInv'
    OBVIOUS
  <2>1. GraphTyped' /\ Effect
    BY StepEffect DEF GraphInv
  <2> QED BY <2>1, HistoryStep, DecisionStep, ApprovalStep DEF GraphInv, GraphTyped, Effect
<1> QED BY <1>1, <1>2, PTL DEF GraphSpec

-----------------------------------------------------------------------------
(* The results.                                                            *)

\* The four stores, the job and the runs stay typed; no attempt of the job is
\* made beyond its maximum.
THEOREM GraphTypeCorrect == GraphSpec => []GraphTypeOK
<1>1. GraphInv => GraphTypeOK
  BY DEF GraphInv, GraphTyped, JobInv, RunInv, HistoryInv, Jobs, Stores, Statuses,
         Ledgers, GraphTypeOK
<1> QED BY <1>1, GraphInvariant, PTL

\* What LangGraph would continue from is always in the state repository,
\* whatever crashes between the two writes and whoever runs the thread.
THEOREM StoresAgree == GraphSpec => []GraphInHistory
<1>1. GraphInv => GraphInHistory
  <2> SUFFICES ASSUME GraphInv, graph \notin {NoPosition, Fresh} PROVE Logged(graph.state)
    BY DEF GraphInHistory, Logged
  <2> QED BY DEF GraphInv, HistoryInv, Placed, Positions
<1> QED BY <1>1, GraphInvariant, PTL

\* One decision is taken by a thread, however requests, recovered jobs and
\* crashes interleave.
THEOREM OneDecisionTaken == GraphSpec => []OneDecision
<1>1. GraphInv => OneDecision
  <2> SUFFICES ASSUME GraphInv PROVE OneDecision
    OBVIOUS
  <2>1. graph.state.decision \in {None, ledger.decision}
    <3>1. CASE graph = NoPosition
      BY <3>1 DEF NoPosition, NoState
    <3>2. CASE graph # NoPosition
      BY <3>2, PositionState DEF GraphInv, GraphTyped, DecisionInv, NoState, Positions
    <3> QED BY <3>1, <3>2
  <2> QED BY <2>1 DEF GraphInv, DecisionInv, OneDecision
<1> QED BY <1>1, GraphInvariant, PTL

\* Once a review is requested no report exists without the decision, the
\* approval and, for a revision, the revision that release it.
THEOREM ReportsAreApproved == GraphSpec => []ReportApproved
<1>1. GraphInv => ReportApproved
  BY DEF GraphInv, ApprovalInv, Unreleased, Signed, ReportApproved
<1> QED BY <1>1, GraphInvariant, PTL

\* What a step may do to the records of the thread.
RecordsKept ==
  /\ \/ UNCHANGED history
     \/ \E new \in State : new.seq = Len(history) /\ history' = Append(history, new)
  /\ ledger.decision # None => UNCHANGED ledger.decision

\* The history is only appended to, one checkpoint at a time, and an accepted
\* decision is never replaced: a step cannot rewrite what was decided on.
THEOREM RecordsAreKept == GraphSpec => [][RecordsKept]_graphVars
<1>1. GraphInv /\ [GraphNext]_graphVars => RecordsKept
  BY StepEffect DEF GraphInv, Effect, Stays, Advances, LedgerStep, RecordsKept
<1> QED BY <1>1, GraphInvariant, PTL DEF GraphSpec
=============================================================================
