---------------------------- MODULE Publication ----------------------------
(***************************************************************************)
(* From the evidence packet of one claim to a published report: the graph  *)
(* nodes ledger to finalize of langgraph_authoritative.py with the service *)
(* operations they call, the human review of the thread, and the two API   *)
(* endpoints that run beside them at any time: record_evidence_disposition *)
(* and get_report?format=markdown.  The graph itself runs one node at a    *)
(* time; AuthoritativeGraph has its crashes and replays.                   *)
(*                                                                         *)
(* get_report changes nothing, so it is a state function: Publishable says *)
(* whether it would answer with the report now.                            *)
(***************************************************************************)
EXTENDS EvidencePolicy

CONSTANTS
  Packets, FactSets, Drafts,  \* the packets, findings and drafted verdicts considered
  Wordings,                   \* the revised summaries a sentence audit may suggest
  NewLabels,                  \* the labels a reviewer may choose
  DisposedUses,               \* the uses a disposition may give an item
  MaxDispositions             \* bound on the dispositions recorded

ASSUME PublicationAssumption ==
  /\ Packets \subseteq Packet /\ FactSets \subseteq Facts
  /\ Drafts \subseteq Verdict
  /\ Wordings \subseteq Text /\ NewLabels \subseteq Labels
  /\ DisposedUses \subseteq PermittedUses \union {"excluded"} /\ MaxDispositions \in Nat

VARIABLES
  at,         \* the node that runs next, or where the thread rests
  packet,     \* the evidence artifacts
  facts,      \* the provenance and verification artifacts
  latest,     \* the latest disposition of each item
  recorded,   \* how many dispositions are stored
  ledger,     \* the argument ledger artifact
  social,     \* the social evidence policy artifact
  proposed,   \* the label of the proposed verdict artifact
  verdict,    \* the provisional verdict; from the audit on, the verdict artifact
  policy,     \* human_review_required of the judgment policy artifact
  audit,      \* the support level of the sentence audit
  report,     \* the final assertions of the full-report assurance artifact
  readiness,  \* the readiness artifact
  decision,   \* the status of the last publication decision, or "none"
  decided,    \* the kind of the review decision in the review ledger, or "none"
  signed      \* a distinct approver is in the review ledger

packetVars == <<packet, facts>>
dispositionVars == <<latest, recorded>>
argumentVars == <<ledger, social>>
judgmentVars == <<proposed, verdict, policy, audit, report, readiness>>
reviewVars == <<decided, signed>>
vars == <<at, packetVars, dispositionVars, argumentVars, judgmentVars, decision, reviewVars>>

NoVerdict == [label |-> "unverifiable", decisive |-> {}, contrary |-> {}, review |-> FALSE,
              questions |-> FALSE, text |-> [c \in Clauses |-> Standard]]
NoReport == [c \in Clauses |-> [text |-> Standard, cited |-> {}, stance |-> "context"]]
NoLedger == [resolution |-> "unresolved", supporting |-> {}, contradictory |-> {},
             qualifying |-> {}, contextual |-> {}, findings |-> {}]

Init ==
  /\ at = "ledger"
  /\ packet \in Packets /\ facts \in FactSets
  /\ latest = [e \in Items |-> "none"] /\ recorded = 0
  /\ ledger = NoLedger /\ social = [blocked |-> FALSE, review |-> FALSE]
  /\ proposed = "unverifiable" /\ verdict = NoVerdict /\ policy = FALSE /\ audit = "none"
  /\ report = NoReport /\ readiness = "ready"
  /\ decision = "none" /\ decided = "none" /\ signed = FALSE

\* consolidate approved the items an argument may use.
Approved == {e \in Items : ArgumentEligible(packet[e])}
\* review_required of the graph: research and the argument roles set it, and the
\* defender node does when no item may be argued with.
Escalated == facts.escalated \/ Approved = {}
Identified(v) == v.decisive \union v.contrary # {}
\* The validator of Verdict: a definite label names evidence.
ValidLabel(v, label) == label \in {"unsupported", "unverifiable"} \/ Identified(v)

-----------------------------------------------------------------------------
(* What the API shows now: _current_citation_assurance and load_report.    *)

Current == Effective(packet, latest)
CurrentBlockers == {e \in Items : Blocking(Current[e], e \in verdict.decisive)}
CurrentCitable == {e \in Items : CitationEligible(Current[e], e \in verdict.decisive)}
CurrentReportBlocked == AssuranceBlocked(Reassessed(report, Current), Current, CurrentCitable)
BlockedNow == CurrentBlockers # {} \/ CurrentReportBlocked

\* The artifacts load_report asks for are stored.
Audited == at \notin {"ledger", "reconcile", "draft", "policy", "failed", "audit"}

\* render_publishable_markdown answers; a missing decision does not refuse, and
\* the social policy is not asked: between audit and route a report it blocks shows.
Publishable == Audited /\ decision \in {"none", "ready"} /\ ~BlockedNow

-----------------------------------------------------------------------------
(* The nodes from the ledger to the publication decision.                  *)

BuildArguments ==
  /\ at = "ledger" /\ at' = "reconcile"
  /\ ledger' = BuildLedger(packet, facts)
  /\ UNCHANGED <<packetVars, dispositionVars, social, judgmentVars, decision, reviewVars>>

Reconcile ==
  /\ at = "reconcile" /\ at' = "draft"
  /\ social' = SocialPolicy(packet, ledger, facts)
  /\ UNCHANGED <<packetVars, dispositionVars, ledger, judgmentVars, decision, reviewVars>>

\* The model is shown the approved evidence; only one provider checks that it
\* names no other item.
Draft(v) ==
  /\ at = "draft" /\ at' = "policy" /\ ValidLabel(v, v.label)
  /\ verdict' = v
  /\ UNCHANGED <<packetVars, dispositionVars, argumentVars, proposed, policy, audit, report,
                 readiness, decision, reviewVars>>

Consistent == LabelConsistent(Safeguarded(verdict, facts), packet, Approved)

ApplyPolicy ==
  /\ at = "policy" /\ at' = "audit"
  /\ ValidLabel(Consistent, Candidate(Consistent, ledger))
  /\ proposed' = verdict.label
  /\ policy' = PolicyReview(Consistent, ledger, social)
  /\ verdict' = Enforced(Consistent, ledger, social)
  /\ UNCHANGED <<packetVars, dispositionVars, argumentVars, audit, report, readiness, decision,
                 reviewVars>>

\* The policy candidate is validated even when it is not adopted: a definite
\* default label for a draft without evidence raises, on this run of the node
\* and on every later one.
PolicyRaises ==
  /\ at = "policy" /\ at' = "failed"
  /\ ~ValidLabel(Consistent, Candidate(Consistent, ledger))
  /\ UNCHANGED <<packetVars, dispositionVars, argumentVars, judgmentVars, decision, reviewVars>>

\* The model audits the summary, and may reword it twice; the full report is
\* assured over all the evidence.
AuditCitations(level, wording) ==
  /\ at = "audit" /\ at' = "readiness"
  /\ verdict' = [verdict EXCEPT
       !.text = [c \in Clauses |-> IF c \in Critical THEN wording[c] ELSE @[c]]]
  /\ audit' = level
  /\ report' = FullReport(verdict', packet, Items)
  /\ UNCHANGED <<packetVars, dispositionVars, argumentVars, proposed, policy, readiness,
                 decision, reviewVars>>

AssessReadiness ==
  /\ at = "readiness" /\ at' = "route"
  /\ readiness' = Readiness(ledger, facts, audit, verdict.questions, social)
  /\ UNCHANGED <<packetVars, dispositionVars, argumentVars, proposed, verdict, policy, audit,
                 report, decision, reviewVars>>

\* The assurance artifact of the audit, before any disposition.
ReportBlocked == AssuranceBlocked(report, packet, Citable(verdict, packet, Items))
ReportFailing == \E c \in Clauses :
  ~Supported(report[c], packet, Citable(verdict, packet, Items))

\* Mutant of ReviewRequired: what research and the argument roles asked for is lost.
ReviewRequiredByPolicy(status) ==
  \/ status # "ready"
  \/ verdict.review
  \/ RoutedToReview(ReportFailing, readiness, facts, proposed # verdict.label, policy, ledger,
                    facts.requested)

\* The four sources the route node joins, route_review among them.
ReviewRequired(status) ==
  \/ Escalated
  \/ status # "ready"
  \/ verdict.review \/ readiness = "human_review_required" \/ ReportBlocked
  \/ RoutedToReview(ReportFailing, readiness, facts, proposed # verdict.label, policy, ledger,
                    facts.requested)

RouteReview ==
  /\ at = "route"
  /\ decision' = PublicationStatus(verdict, packet, ReportBlocked, policy, readiness, social)
  /\ at' = IF ReviewRequired(decision') THEN "review" ELSE "finalize"
  /\ UNCHANGED <<packetVars, dispositionVars, argumentVars, judgmentVars, reviewVars>>

-----------------------------------------------------------------------------
(* The review node, resumed with a decision, and what follows it.          *)

\* An approval is refused while something is blocked now: nothing is recorded.
\* Then the decision is stored, and only after it the approver is checked and
\* the revised verdict validated: a failure there leaves the thread with a
\* decision nobody can repeat or replace.
Decide(kind, label, approver) ==
  /\ at = "review" /\ decided = "none"
  /\ kind = "approve" => ~BlockedNow
  /\ decided' = kind
  /\ signed' = (kind \in {"approve", "revise"} /\ approver = "distinct")
  /\ \/ /\ kind \in {"request_evidence", "reject"}
        /\ at' = kind /\ UNCHANGED <<verdict, report>>
     \/ /\ kind = "approve" /\ signed'
        /\ at' = "approve_or_revise" /\ UNCHANGED <<verdict, report>>
     \/ /\ kind = "revise" /\ signed' /\ ValidLabel(verdict, label)
        /\ at' = "approve_or_revise"
        /\ verdict' = [verdict EXCEPT !.label = label, !.review = FALSE]
        /\ report' = FullReport(verdict', packet, Approved)
     \/ /\ kind \in {"approve", "revise"}
        /\ ~signed' \/ (kind = "revise" /\ ~ValidLabel(verdict, label))
        /\ UNCHANGED <<at, verdict, report>>
  /\ UNCHANGED <<packetVars, dispositionVars, argumentVars, proposed, policy, audit, readiness,
                 decision>>

\* Mutant of Released: the audit of the first report stands for the current one.
ReleasedAsAudited == IF ReportBlocked \/ social.blocked THEN "blocked" ELSE "ready"

\* Mutant of Released: the social evidence policy is not asked again.
ReleasedAfterCitations == IF BlockedNow THEN "blocked" ELSE "ready"

Released == IF BlockedNow \/ social.blocked THEN "blocked" ELSE "ready"

\* Only a decision that waited for review, or a revision, is decided again.
ApproveOrRevise ==
  /\ at = "approve_or_revise" /\ at' = "finalize"
  /\ decision' = IF decision = "review_required" \/ decided = "revise" THEN Released
                 ELSE decision
  /\ UNCHANGED <<packetVars, dispositionVars, argumentVars, judgmentVars, reviewVars>>

\* The nodes more_evidence, reject and finalize: the thread ends.
Rest ==
  /\ at \in {"request_evidence", "reject", "finalize"}
  /\ at' = CASE at = "finalize" -> "complete" [] at = "reject" -> "cancelled"
             [] at = "request_evidence" -> "sent_back"
  /\ UNCHANGED <<packetVars, dispositionVars, argumentVars, judgmentVars, decision, reviewVars>>

-----------------------------------------------------------------------------
\* POST evidence-dispositions: any item, at any time, by two identities.
RecordDisposition(e, use) ==
  /\ recorded < MaxDispositions /\ recorded' = recorded + 1
  /\ latest' = [latest EXCEPT ![e] = use]
  /\ UNCHANGED <<at, packetVars, argumentVars, judgmentVars, decision, reviewVars>>

\* The sentence audit keeps the summary, or one of its suggestions replaces it.
Summaries ==
  {verdict.text} \union {[c \in Clauses |-> w] : w \in Wordings}

Kinds == {"approve", "revise", "request_evidence", "reject"}

Node ==
  \/ BuildArguments \/ Reconcile \/ ApplyPolicy \/ PolicyRaises \/ AssessReadiness
  \/ RouteReview
  \/ \E v \in Drafts : Draft(v)
  \/ \E level \in {"full", "partial", "unsupported"}, w \in Summaries : AuditCitations(level, w)
  \/ ApproveOrRevise \/ Rest

Next ==
  \/ Node
  \/ \E kind \in Kinds, label \in NewLabels, approver \in {"distinct", "missing"} :
       Decide(kind, label, approver)
  \/ \E e \in Items, use \in DisposedUses : RecordDisposition(e, use)

Spec == Init /\ [][Next]_vars /\ WF_vars(Node)

-----------------------------------------------------------------------------
PublicationTypeOK ==
  /\ at \in {"ledger", "reconcile", "draft", "policy", "audit", "readiness", "route",
             "review", "approve_or_revise", "finalize", "complete", "cancelled",
             "sent_back", "failed"} \union Kinds
  /\ packet \in Packet /\ facts \in Facts
  /\ latest \in [Items -> {"none"} \union PermittedUses \union {"excluded"}]
  /\ recorded \in 0 .. MaxDispositions
  /\ ledger \in Ledger /\ social \in [blocked : BOOLEAN, review : BOOLEAN]
  /\ proposed \in Labels /\ verdict \in Verdict /\ policy \in BOOLEAN
  /\ audit \in {"none", "full", "partial", "unsupported"}
  /\ report \in [Clauses -> Assertion]
  /\ readiness \in {"ready", "qualified", "human_review_required"}
  /\ decision \in {"none", "ready", "review_required", "blocked"}
  /\ decided \in {"none"} \union Kinds /\ signed \in BOOLEAN

\* A passage that boilerplate spoiled, or whose use a reviewer or its retrieval
\* forbids, and no reviewer has approved since.
Unusable(e) ==
  \/ packet[e].hygiene = "contaminated" \/ latest[e] = "excluded"
  \/ latest[e] = "none" /\ packet[e].use \in {"excluded", "discovery_lead"}

\* What a reader is shown rests on usable passages at every moment: whatever
\* was disposed before, during or after the review, no passage that decides the
\* verdict and none that the summary cites is unusable, and every clause of the
\* summary cites one.
PublishedCitesClean ==
  Publishable =>
    /\ \A e \in verdict.decisive :
         ~Unusable(e) /\ (packet[e].use = "unspecified" => latest[e] # "none")
    /\ \A c \in Critical :
         /\ report[c].cited # {}
         /\ \A e \in report[c].cited : ~Unusable(e) /\ packet[e].hygiene = "clean"

\* A report that no second person signed is one that nothing in it calls for:
\* its label follows from the evidence, no challenge blocks it, no social
\* source needs a reviewer, its evidence is independent and checked in context
\* and the audit supported its summary in full.
UnreviewedIsBacked ==
  decision # "none" /\ Publishable /\ ~signed =>
    /\ verdict.label \in AllowedLabels(ledger.resolution)
    /\ "blocking" \notin ledger.findings /\ ~social.review
    /\ facts.independent /\ facts.contextChecked /\ audit = "full"

\* A social block outlives the review: no approval, revision or disposition
\* publishes a report whose social evidence the policy has blocked.
SocialBlockHolds == decision # "none" /\ social.blocked => ~Publishable

\* A thread that completes without a person had nothing to ask one: no stage
\* escalated, provenance was certain, the policy kept the label, and no check
\* of the claim was left unfinished.
EscalatedIsReviewed ==
  at = "complete" /\ decided = "none" =>
    /\ decision = "ready" /\ ~facts.requested
    /\ ~facts.escalated /\ Approved # {} /\ facts.requirement # "uncertain"
    /\ (facts.numeric \union facts.temporal) \intersect Unfinished = {}
    /\ verdict.label = proposed

\* A review that decides again decides what a reader then gets: the decision is
\* taken over the dispositions of that moment and the revised report, never over
\* those of the audit.  (The decision of the route node has no such property.)
ReleasedIsPublishable ==
  [][decided # "none" /\ decision' # decision => (decision' = "ready") = Publishable']_vars
=============================================================================
