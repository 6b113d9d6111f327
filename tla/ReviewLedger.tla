---------------------------- MODULE ReviewLedger ----------------------------
(***************************************************************************)
(* The append-only ledger of human reviews: per request at most one        *)
(* decision, one approval and one verdict revision, any number of findings, *)
(* and a hash-chained trail with one event per row.                        *)
(*                                                                         *)
(* Every operation is one BEGIN IMMEDIATE transaction.  A decision is named *)
(* by its decision_id and an approval, finding or revision by its entity   *)
(* id; their contents are the functions below, so an identifier that is    *)
(* used again carries the same content.  An operation that returns the     *)
(* saved row or raises writes nothing and is a stutter.                    *)
(***************************************************************************)
EXTENDS Sequences, Naturals

CONSTANTS
  Requests, Findings, Decisions, Approvals, Revisions,
  Identities,   \* spellings of the names of reviewers and approvers
  Folded,       \* the identity a spelling stands for (str.casefold)
  Verdicts,
  None,
  Reviewer,     \* [Decisions -> Identities]
  Proposal,     \* [Decisions -> Verdicts or None]
  Covers,       \* [Approvals -> Decisions], the decision record approved
  Approver,     \* [Approvals -> Identities]
  Approving,    \* the approvals that are not rejections
  Revises,      \* [Revisions -> Decisions]
  Under,        \* [Revisions -> Approvals or None]
  Revised       \* [Revisions -> Verdicts]

Entities == Findings \union Decisions \union Approvals \union Revisions \union Requests

ASSUME NoneAssumption == None \notin Entities \union Verdicts
ASSUME ContentAssumption ==
  /\ Reviewer \in [Decisions -> Identities]
  /\ Proposal \in [Decisions -> Verdicts \union {None}]
  /\ Covers \in [Approvals -> Decisions]
  /\ Approver \in [Approvals -> Identities]
  /\ Approving \subseteq Approvals
  /\ Revises \in [Revisions -> Decisions]
  /\ Under \in [Revisions -> Approvals \union {None}]
  /\ Revised \in [Revisions -> Verdicts]

VARIABLES
  events,    \* review_audit_events of a request; empty before it is created
  findings,  \* review_findings
  decision,  \* reviewer_decisions, UNIQUE(request_id)
  approval,  \* approval_records, UNIQUE(request_id)
  revision   \* verdict_revisions, UNIQUE(request_id)

ledgerVars == <<events, findings, decision, approval, revision>>

Actions == {"request_created", "finding_added", "decision_recorded",
            "approval_recorded", "revision_recorded"}

\* A hash is named by the sequence number of the event it covers, 0 for none:
\* hashes of different events of a request differ.
Event == [sequence : Nat \ {0}, action : Actions, entity : Entities, previous : Nat]

LedgerInit ==
  /\ events = [r \in Requests |-> <<>>]
  /\ findings = [r \in Requests |-> {}]
  /\ decision = [r \in Requests |-> None]
  /\ approval = [r \in Requests |-> None]
  /\ revision = [r \in Requests |-> None]

Exists(r) == events[r] # <<>>
Current(r) == IF Exists(r) THEN events[r][Len(events[r])].sequence ELSE 0
Held(table, id) == \E r \in Requests : table[r] = id
Identity(name) == Folded[name]

\* Mutant of AppendEvent: numbered by the rows before it.
AppendEventFromZero(r, action, entity) ==
  events' = [events EXCEPT ![r] =
               Append(@, [sequence |-> Len(@), action |-> action,
                          entity |-> entity, previous |-> Current(r)])]

AppendEvent(r, action, entity) ==
  events' = [events EXCEPT ![r] =
               Append(@, [sequence |-> Len(@) + 1, action |-> action,
                          entity |-> entity, previous |-> Current(r)])]

CreateRequest(r) ==
  /\ ~Exists(r)
  /\ AppendEvent(r, "request_created", r)
  /\ UNCHANGED <<findings, decision, approval, revision>>

\* The foreign key refuses rows of an unknown request, the primary key a
\* finding that is already stored.
AddFinding(r, f, expected) ==
  /\ Exists(r) /\ Current(r) = expected
  /\ \A q \in Requests : f \notin findings[q]
  /\ findings' = [findings EXCEPT ![r] = @ \union {f}]
  /\ AppendEvent(r, "finding_added", f)
  /\ UNCHANGED <<decision, approval, revision>>

RecordDecision(r, d, expected) ==
  /\ Exists(r) /\ ~Held(decision, d) /\ Current(r) = expected
  /\ decision[r] = None
  /\ decision' = [decision EXCEPT ![r] = d]
  /\ AppendEvent(r, "decision_recorded", d)
  /\ UNCHANGED <<findings, approval, revision>>

\* Mutant of Distinct: names are compared as they are spelled.
DistinctSpelling(a, d) == Reviewer[d] # Approver[a]

Distinct(a, d) == Identity(Reviewer[d]) # Identity(Approver[a])

\* Mutant of RecordApproval: a later approval replaces the first.
RecordApprovalAgain(r, a, expected) ==
  /\ Exists(r) /\ ~Held(approval, a) /\ Current(r) = expected
  /\ decision[r] = Covers[a]
  /\ Distinct(a, Covers[a])
  /\ approval' = [approval EXCEPT ![r] = a]
  /\ AppendEvent(r, "approval_recorded", a)
  /\ UNCHANGED <<findings, decision, revision>>

\* A rejecting record takes the only slot of the request too.
RecordApproval(r, a, expected) ==
  /\ Exists(r) /\ ~Held(approval, a) /\ Current(r) = expected
  /\ decision[r] = Covers[a]
  /\ Distinct(a, Covers[a])
  /\ approval[r] = None
  /\ approval' = [approval EXCEPT ![r] = a]
  /\ AppendEvent(r, "approval_recorded", a)
  /\ UNCHANGED <<findings, decision, revision>>

RecordRevision(r, v, expected) ==
  /\ Exists(r) /\ ~Held(revision, v) /\ Current(r) = expected
  /\ decision[r] = Revises[v]
  /\ Proposal[Revises[v]] = Revised[v]
  /\ Under[v] # None /\ approval[r] = Under[v]
  /\ Under[v] \in Approving /\ Covers[Under[v]] = Revises[v]
  /\ revision[r] = None
  /\ revision' = [revision EXCEPT ![r] = v]
  /\ AppendEvent(r, "revision_recorded", v)
  /\ UNCHANGED <<findings, decision, approval>>

LedgerNext ==
  \E r \in Requests :
    \/ CreateRequest(r)
    \/ \E n \in Nat :
         \/ \E f \in Findings : AddFinding(r, f, n)
         \/ \E d \in Decisions : RecordDecision(r, d, n)
         \/ \E a \in Approvals : RecordApproval(r, a, n)
         \/ \E v \in Revisions : RecordRevision(r, v, n)

LedgerSpec == LedgerInit /\ [][LedgerNext]_ledgerVars

-----------------------------------------------------------------------------
LedgerTypeOK ==
  /\ events \in [Requests -> Seq(Event)]
  /\ findings \in [Requests -> SUBSET Findings]
  /\ decision \in [Requests -> Decisions \union {None}]
  /\ approval \in [Requests -> Approvals \union {None}]
  /\ revision \in [Requests -> Revisions \union {None}]

\* The chain as _verify checks it: numbered without gaps, each event built on
\* the one before it.
Linear(trail) ==
  \A i \in 1 .. Len(trail) : trail[i].sequence = i /\ trail[i].previous = i - 1

\* An event is explained by the row it was appended with, and by the events
\* that had to come first.
Preceded(trail, i, action) == \E k \in 1 .. i - 1 : trail[k].action = action

ExplainedAt(r, i) ==
  LET e == events[r][i] IN
  /\ (i = 1) <=> (e.action = "request_created")
  /\ e.action = "finding_added" => e.entity \in findings[r]
  /\ e.action = "decision_recorded" => e.entity = decision[r]
  /\ e.action = "approval_recorded" =>
       e.entity = approval[r] /\ Preceded(events[r], i, "decision_recorded")
  /\ e.action = "revision_recorded" =>
       e.entity = revision[r] /\ Preceded(events[r], i, "approval_recorded")

\* No row without its event.
Recorded(r, action) == \E i \in 1 .. Len(events[r]) : events[r][i].action = action

Accounted(r) ==
  /\ decision[r] # None => Recorded(r, "decision_recorded")
  /\ approval[r] # None => Recorded(r, "approval_recorded")
  /\ revision[r] # None => Recorded(r, "revision_recorded")

OncePerRequest(r) ==
  \A i, k \in 1 .. Len(events[r]) :
    /\ events[r][i].action = events[r][k].action
    /\ events[r][i].action # "finding_added"
    => i = k

ChainAt(r) ==
  /\ Linear(events[r])
  /\ \A i \in 1 .. Len(events[r]) : ExplainedAt(r, i)
  /\ Accounted(r) /\ OncePerRequest(r)

\* The trail of a request is a linear chain that tells exactly what the tables
\* hold, in an order the policy allows and each act once, whichever reviewers
\* append with whichever expected sequence numbers.
ChainInv == \A r \in Requests : ChainAt(r)

DutiesAt(r) ==
  /\ approval[r] # None =>
       /\ decision[r] = Covers[approval[r]]
       /\ Identity(Reviewer[decision[r]]) # Identity(Approver[approval[r]])
  /\ revision[r] # None =>
       /\ approval[r] \in Approving /\ approval[r] = Under[revision[r]]
       /\ decision[r] = Revises[revision[r]]
       /\ Proposal[decision[r]] = Revised[revision[r]]

\* A verdict is revised only under an approval of that very decision, given by
\* another person than the reviewer however the names are spelled, and to the
\* verdict the reviewer proposed.
SeparationOfDuties == \A r \in Requests : DutiesAt(r)
=============================================================================
