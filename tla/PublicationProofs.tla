------------------------- MODULE PublicationProofs -------------------------
(***************************************************************************)
(* Type correctness of Publication and what its reports rest on, for any   *)
(* evidence, findings, drafts, reviewers and number of dispositions.       *)
(***************************************************************************)
EXTENDS Publication, TLAPS, FiniteSetTheorems, WellFoundedInduction

-----------------------------------------------------------------------------
(* The policies return what they are declared to return.                   *)

\* In a nonempty set of items one is at least as far as every other: a smallest
\* set without one would have one when any of its items is left out.
LEMMA FurthestExists ==
  ASSUME NEW F \in [Items -> Int], NEW S \in SUBSET Items, S # {}
  PROVE  \E e \in S : \A f \in S : F[f] <= F[e]
<1> DEFINE Furthest(A) == \E e \in A : \A f \in A : F[f] <= F[e]
           Bad == {A \in SUBSET Items : A # {} /\ ~Furthest(A)}
<1>1. ASSUME Bad # {} PROVE FALSE
  <2>1. Bad \subseteq FiniteSubsetsOf(Items)
    BY PolicyAssumption, FS_Subset DEF FiniteSubsetsOf
  <2>2. PICK A \in Bad : \A B \in Bad : ~(<<B, A>> \in StrictSubsetOrdering(Items))
    BY <1>1, <2>1, FS_StrictSubsetOrderingWellFounded, WFMin
  <2>3. PICK a \in A : TRUE
    OBVIOUS
  <2>4. A \ {a} \in SUBSET A /\ A \ {a} # A
    BY <2>3
  <2>5. <<A \ {a}, A>> \in StrictSubsetOrdering(Items)
    BY <2>4 DEF StrictSubsetOrdering
  <2>6. A \ {a} = {} \/ Furthest(A \ {a})
    BY <2>2, <2>4, <2>5
  <2>7. CASE A \ {a} = {}
    BY <2>3, <2>7
  <2>8. CASE Furthest(A \ {a})
    <3>1. PICK e \in A \ {a} : \A f \in A \ {a} : F[f] <= F[e]
      BY <2>8
    <3>2. \A f \in A : F[f] \in Int
      OBVIOUS
    <3>3. CASE F[a] <= F[e]
      BY <3>1, <3>3
    <3>4. CASE F[e] < F[a]
      BY <2>3, <3>1, <3>2, <3>4
    <3> QED BY <2>3, <3>1, <3>2, <3>3, <3>4
  <2> QED BY <2>6, <2>7, <2>8
<1> QED BY <1>1

\* A nonempty set of items has a first one, and a nearest one.
LEMMA Ranked ==
  ASSUME NEW S \in SUBSET Items, S # {}
  PROVE  First(S) \in S /\ Nearest(S) \in S
<1> DEFINE Back == [e \in Items |-> 0 - e]
<1>1. Back \in [Items -> Int] /\ \A e \in Items : Back[e] = 0 - e
  BY PolicyAssumption
<1> HIDE DEF Back
<1>2. PICK k \in S : \A f \in S : Back[f] <= Back[k]
  BY <1>1, FurthestExists
<1>3. \A f \in S : k <= f
  BY <1>1, <1>2, PolicyAssumption
<1>4. Overlap \in [Items -> Int]
  BY PolicyAssumption
<1>5. \E e \in S : \A f \in S : Overlap[f] <= Overlap[e]
  BY <1>4, FurthestExists
<1> QED BY <1>3, <1>5 DEF First, Nearest

\* The ledger holds a resolution, sorted items and severities.
LEMMA LedgerTyped ==
  ASSUME NEW p, NEW f
  PROVE  BuildLedger(p, f) \in Ledger
<1> DEFINE usable == {e \in Items : ArgumentEligible(p[e]) /\ p[e].relevant}
           Of(stance) == {e \in usable : p[e].stance = stance}
<1>1. \A S, C, Q, o : ResolutionOf(S, C, Q, o) \in Resolutions
  BY DEF ResolutionOf, Resolutions
<1>2. \A S, C, Q : Challenges(S, C, Q, f) \in SUBSET Severities
  BY DEF Challenges, Severities
<1>3. \A stance : Of(stance) \in SUBSET Items
  OBVIOUS
<1> HIDE DEF Of
<1>4. BuildLedger(p, f) = 
        [resolution |-> ResolutionOf(Of("supports"), Of("contradicts"), Of("qualifies"),
                                     f.numeric \union f.temporal),
         supporting |-> Of("supports"), contradictory |-> Of("contradicts"),
         qualifying |-> Of("qualifies"), contextual |-> Of("context"),
         findings |-> Challenges(Of("supports"), Of("contradicts"), Of("qualifies"), f)]
  BY DEF BuildLedger, Of
<1> QED BY <1>1, <1>2, <1>3, <1>4 DEF Ledger

\* The social policy answers two questions.
LEMMA SocialTyped ==
  ASSUME NEW p, NEW l, NEW f
  PROVE  SocialPolicy(p, l, f) \in [blocked : BOOLEAN, review : BOOLEAN]
<1>1. SocialBlocked(p, l) \in BOOLEAN
  BY DEF SocialBlocked
<1> QED BY <1>1 DEF SocialPolicy

\* The policies that rewrite a verdict leave a verdict.
LEMMA VerdictTyped ==
  ASSUME NEW v \in Verdict, NEW f \in Facts, NEW p, NEW l \in Ledger,
         NEW A \in SUBSET Items, NEW s \in [blocked : BOOLEAN, review : BOOLEAN]
  PROVE  /\ Safeguarded(v, f) \in Verdict
         /\ LabelConsistent(v, p, A) \in Verdict
         /\ Enforced(v, l, s) \in Verdict
<1>1. Standard \in Text
  BY DEF Standard, Text
<1>2. Safeguarded(v, f) \in Verdict
  BY DEF Safeguarded, Verdict, Facts
<1>3. LabelConsistent(v, p, A) \in Verdict
  <2> DEFINE usable == {e \in A : p[e].relevant /\ p[e].stance # "irrelevant"}
             text == [c \in Clauses |-> IF c \in Critical THEN Standard ELSE v.text[c]]
             kept == [v EXCEPT !.label = "contradicted", !.contrary = usable, !.review = TRUE,
                        !.text = text]
  <2>1. LabelConsistent(v, p, A) \in {v, kept}
    BY DEF LabelConsistent
  <2>2. usable \in SUBSET Items /\ "contradicted" \in Labels
    BY DEF Labels
  <2>3. text \in [Clauses -> Text]
    BY <1>1 DEF Verdict
  <2> HIDE DEF usable, text
  <2>4. kept \in Verdict
    BY <2>2, <2>3 DEF Verdict
  <2> QED BY <2>1, <2>4
<1>4. Enforced(v, l, s) \in Verdict
  <2>1. DefaultLabel(l.resolution) \in Labels
    BY DEF DefaultLabel, Ledger, Resolutions, Labels
  <2>2. Candidate(v, l) \in Labels
    BY <2>1 DEF Candidate, Verdict
  <2> QED BY <2>2 DEF Enforced, Verdict
<1> QED BY <1>2, <1>3, <1>4

\* A stance inferred for a clause is a stance.
LEMMA StanceTyped ==
  ASSUME NEW t, NEW S \in SUBSET Items, NEW p \in Packet, NEW d \in Stances
  PROVE  AssertionStance(t, S, p, d) \in Stances
<1>1. S # {} => p[Nearest(S)].stance \in Stances
  BY Ranked DEF Packet, Evidence
<1>2. "qualifies" \in Stances
  BY DEF Stances
<1> QED BY <1>1, <1>2 DEF AssertionStance

\* The full report cites items, whatever the verdict and the packet.
LEMMA ReportTyped ==
  ASSUME NEW v \in Verdict, NEW p \in Packet, NEW A \in SUBSET Items
  PROVE  FullReport(v, p, A) \in [Clauses -> Assertion]
<1> DEFINE records == Citable(v, p, A)
           Original(c) == MaterialAssertion(v.text[c], v, p, records)
<1>1. records \in SUBSET Items
  BY DEF Citable
<1>2. VerdictStance(v.label) \in Stances
  BY DEF VerdictStance, Stances
<1> HIDE DEF records
<1>3. ASSUME NEW c \in Clauses PROVE Original(c) \in Assertion
  <2> DEFINE candidates == (v.decisive \union v.contrary) \intersect records
  <2>1. candidates \in SUBSET Items
    BY <1>1
  <2>2. v.text[c] \in Text
    BY DEF Verdict
  <2> HIDE DEF candidates
  <2>3. AssertionStance(v.text[c], candidates, p, VerdictStance(v.label)) \in Stances
    BY <1>2, <2>1, StanceTyped
  <2>4. v.text[c].words \intersect candidates \in SUBSET Items
    BY <2>1
  <2>5. Original(c) = [text |-> v.text[c], cited |-> v.text[c].words \intersect candidates,
                       stance |-> AssertionStance(v.text[c], candidates, p,
                                                  VerdictStance(v.label))]
    BY DEF MaterialAssertion, candidates
  <2> QED BY <2>2, <2>3, <2>4, <2>5 DEF Assertion
<1>4. ASSUME NEW a \in Assertion PROVE Revised(a, p, records) \in Assertion
  <2> DEFINE candidates == {e \in records : p[e].stance = a.stance}
             cited == candidates \intersect a.cited
             chosen == IF cited # {} THEN cited ELSE candidates
             e == First(chosen)
             text == [words |-> {e}, marked |-> p[e].hedged]
  <2>1. CASE candidates = {}
    BY <2>1 DEF Revised
  <2>2. CASE candidates # {}
    <3>1. chosen \in SUBSET Items /\ chosen # {}
      BY <1>1, <2>2
    <3>2. e \in Items
      BY <3>1, Ranked
    <3> HIDE DEF e
    <3>3. text \in Text
      BY <3>2 DEF Text, Packet, Evidence
    <3>4. Revised(a, p, records) = [a EXCEPT !.text = text, !.cited = {e}]
      BY <2>2 DEF Revised, e
    <3> HIDE DEF text
    <3> QED BY <3>2, <3>3, <3>4 DEF Assertion
  <2> QED BY <2>1, <2>2
<1> HIDE DEF Original
<1>5. FullReport(v, p, A) = [c \in Clauses |->
        IF Supported(Original(c), p, records) THEN Original(c)
        ELSE Revised(Original(c), p, records)]
  BY DEF FullReport, Original, records
<1> QED BY <1>3, <1>4, <1>5

-----------------------------------------------------------------------------
(* Type correctness.                                                       *)

\* Every step keeps the types.
LEMMA TypeStep ==
  ASSUME PublicationTypeOK, [Next]_vars
  PROVE  PublicationTypeOK'
<1> USE DEF PublicationTypeOK, packetVars, dispositionVars, argumentVars, judgmentVars,
            reviewVars
<1>0. Approved \in SUBSET Items
  BY DEF Approved
<1>1. CASE BuildArguments
  BY <1>1, LedgerTyped DEF BuildArguments
<1>2. CASE Reconcile
  BY <1>2, SocialTyped DEF Reconcile
<1>3. ASSUME NEW v \in Drafts, Draft(v) PROVE PublicationTypeOK'
  BY <1>3, PublicationAssumption DEF Draft
<1>4. CASE ApplyPolicy
  <2> DEFINE safe == Consistent
  <2>1. safe \in Verdict
    BY <1>0, VerdictTyped DEF Consistent
  <2>2. Enforced(safe, ledger, social) \in Verdict
    BY <1>0, <2>1, VerdictTyped
  <2>3. PolicyReview(safe, ledger, social) \in BOOLEAN
    BY <2>1 DEF PolicyReview, Verdict
  <2>4. verdict.label \in Labels
    BY DEF Verdict
  <2> HIDE DEF safe
  <2>5. /\ at' = "audit" /\ proposed' = verdict.label
        /\ policy' = PolicyReview(safe, ledger, social)
        /\ verdict' = Enforced(safe, ledger, social)
        /\ UNCHANGED <<packetVars, dispositionVars, argumentVars, audit, report, readiness,
                       decision, reviewVars>>
    BY <1>4 DEF ApplyPolicy, safe
  <2> QED BY <2>2, <2>3, <2>4, <2>5
<1>5. ASSUME NEW level \in {"full", "partial", "unsupported"}, NEW w \in Summaries,
             AuditCitations(level, w)
      PROVE  PublicationTypeOK'
  <2>1. w \in [Clauses -> Text]
    BY <1>5, PublicationAssumption DEF Summaries, Verdict
  <2> DEFINE text == [c \in Clauses |-> IF c \in Critical THEN w[c] ELSE verdict.text[c]]
  <2>2. text \in [Clauses -> Text]
    BY <2>1 DEF Verdict
  <2>3. verdict' = [verdict EXCEPT !.text = text]
    BY <1>5 DEF AuditCitations
  <2> HIDE DEF text
  <2>4. verdict' \in Verdict
    BY <2>2, <2>3 DEF Verdict
  <2>5. report' \in [Clauses -> Assertion]
    BY <1>5, <2>4, ReportTyped DEF AuditCitations
  <2> QED BY <1>5, <2>4, <2>5 DEF AuditCitations
<1>6. CASE AssessReadiness
  BY <1>6 DEF AssessReadiness, Readiness
<1>7. CASE RouteReview
  BY <1>7 DEF RouteReview, PublicationStatus
<1>8. ASSUME NEW kind \in Kinds, NEW label \in NewLabels, NEW approver, Decide(kind, label, approver)
      PROVE  PublicationTypeOK'
  <2>1. signed' \in BOOLEAN /\ decided' \in Kinds
    BY <1>8 DEF Decide
  <2>2. at' \in Kinds \union {at, "approve_or_revise"}
    BY <1>8 DEF Decide
  <2>3. verdict' \in Verdict
    <3>1. label \in Labels
      BY PublicationAssumption
    <3>2. [verdict EXCEPT !.label = label, !.review = FALSE] \in Verdict
      BY <3>1 DEF Verdict
    <3> QED BY <1>8, <3>2 DEF Decide
  <2>4. report' \in [Clauses -> Assertion]
    BY <1>0, <1>8, <2>3, ReportTyped DEF Decide
  <2> QED BY <1>8, <2>1, <2>2, <2>3, <2>4 DEF Decide
<1>9. CASE ApproveOrRevise
  BY <1>9 DEF ApproveOrRevise, Released
<1>10. CASE Rest
  BY <1>10 DEF Rest
<1>11. ASSUME NEW e \in Items, NEW use \in DisposedUses, RecordDisposition(e, use)
       PROVE  PublicationTypeOK'
  <2>1. use \in PermittedUses \union {"excluded"}
    BY PublicationAssumption
  <2>2. latest' \in [Items -> {"none"} \union PermittedUses \union {"excluded"}]
    BY <1>11, <2>1 DEF RecordDisposition
  <2>3. recorded' \in 0 .. MaxDispositions
    BY <1>11, PublicationAssumption DEF RecordDisposition
  <2> QED BY <1>11, <2>2, <2>3 DEF RecordDisposition
<1>12. CASE PolicyRaises
  BY <1>12 DEF PolicyRaises
<1>13. CASE UNCHANGED vars
  BY <1>13 DEF vars
<1> QED
  BY <1>1, <1>2, <1>3, <1>4, <1>5, <1>6, <1>7, <1>8, <1>9, <1>10, <1>11, <1>12, <1>13
  DEF Next, Node

\* Publication keeps its types: the policies return what they declare, and the
\* report cites items, whatever is drafted, reworded, revised or disposed.
THEOREM PublicationTypes == Spec => []PublicationTypeOK
<1>1. Init => PublicationTypeOK
  <2>1. Standard \in Text
    BY DEF Standard, Text
  <2>2. NoVerdict \in Verdict /\ NoLedger \in Ledger /\ NoReport \in [Clauses -> Assertion]
    BY <2>1 DEF NoVerdict, Verdict, Labels, NoLedger, Ledger, Resolutions, Severities,
                NoReport, Assertion, Stances
  <2> HIDE DEF NoVerdict, NoLedger, NoReport
  <2>3. SUFFICES ASSUME Init PROVE PublicationTypeOK
    OBVIOUS
  <2>4. packet \in Packet /\ facts \in Facts
    BY <2>3, PublicationAssumption DEF Init
  <2>5. latest \in [Items -> {"none"} \union PermittedUses \union {"excluded"}]
    BY <2>3 DEF Init
  <2>6. recorded \in 0 .. MaxDispositions
    BY <2>3, PublicationAssumption DEF Init
  <2> QED BY <2>2, <2>3, <2>4, <2>5, <2>6 DEF Init, PublicationTypeOK, Labels
<1>2. PublicationTypeOK /\ [Next]_vars => PublicationTypeOK'
  BY TypeStep
<1> QED BY <1>1, <1>2, PTL DEF Spec

-----------------------------------------------------------------------------
(* The gates of publication, and what the unsigned report rests on.        *)

BeforePolicy == {"ledger", "reconcile", "draft", "policy", "failed"}
BeforeRoute == BeforePolicy \union {"audit", "readiness", "route"}

\* What the routed decision found, as long as nobody revised the verdict.
Backed ==
  /\ verdict.label \in AllowedLabels(ledger.resolution)
  /\ "blocking" \notin ledger.findings /\ ~social.review
  /\ facts.independent /\ facts.contextChecked /\ audit = "full"

Unescalated ==
  /\ decision = "ready" /\ ~facts.requested
  /\ ~facts.escalated /\ Approved # {} /\ facts.requirement # "uncertain"
  /\ (facts.numeric \union facts.temporal) \intersect Unfinished = {}
  /\ verdict.label = proposed

\* No decision and no review before the route node; a policy that asks for
\* nothing has kept to the ledger, and a verdict that asks for nothing to its
\* safeguards; a readiness that asks for nothing had a full audit.  A decision
\* that nobody signed adds these up.
Gates ==
  /\ at \in BeforeRoute => decision = "none" /\ decided = "none"
  /\ decided = "none" => ~signed
  /\ at \notin BeforePolicy /\ ~policy /\ ~signed =>
       /\ verdict.label \in AllowedLabels(ledger.resolution)
       /\ "blocking" \notin ledger.findings /\ ~social.review
  /\ at \notin BeforePolicy /\ ~verdict.review /\ ~signed =>
       facts.independent /\ facts.contextChecked
  /\ at \notin BeforePolicy \union {"audit", "readiness"} =>
       (readiness # "human_review_required" => audit = "full")
  /\ at = "approve_or_revise" => signed /\ decided # "none"
  /\ decision = "ready" => ~social.blocked
  /\ decision = "ready" /\ ~signed => Backed
  /\ at \in {"finalize", "complete"} /\ decided = "none" => Unescalated

\* The policy node: a policy that asks for nothing changed nothing.
LEMMA PolicyStep ==
  ASSUME PublicationTypeOK, Gates, ApplyPolicy
  PROVE  Gates'
<1> DEFINE safe == Consistent
<1>1. /\ at = "policy" /\ at' = "audit"
      /\ policy' = PolicyReview(safe, ledger, social)
      /\ verdict' = Enforced(safe, ledger, social)
      /\ UNCHANGED <<facts, ledger, social, audit, decision, decided, signed>>
  BY DEF ApplyPolicy, packetVars, argumentVars, reviewVars
<1>2. Safeguarded(verdict, facts) \in Verdict /\ safe \in Verdict
  <2>1. Approved \in SUBSET Items
    BY DEF Approved
  <2> QED BY <2>1, VerdictTyped DEF Consistent, PublicationTypeOK
<1>3. ~safe.review => facts.independent /\ facts.contextChecked
  <2>1. ~safe.review => safe = Safeguarded(verdict, facts)
    BY <1>2 DEF Consistent, LabelConsistent, Verdict
  <2>2. ~Safeguarded(verdict, facts).review => facts.independent /\ facts.contextChecked
    BY DEF Safeguarded, PublicationTypeOK, Verdict
  <2> QED BY <2>1, <2>2
<1> HIDE DEF safe
<1>4. ~verdict'.review => ~safe.review
  BY <1>1, <1>2 DEF Enforced, Verdict
<1>5. ~policy' => /\ verdict' = safe
                  /\ safe.label \in AllowedLabels(ledger.resolution)
                  /\ "blocking" \notin ledger.findings /\ ~social.review
  BY <1>1 DEF PolicyReview, Enforced
<1>6. decision = "none" /\ decided = "none" /\ ~signed
  BY <1>1 DEF Gates, BeforeRoute, BeforePolicy
<1> QED BY <1>1, <1>3, <1>4, <1>5, <1>6 DEF Gates, BeforeRoute, BeforePolicy

\* The route node: a ready decision is one no gate stopped, and a thread that
\* needs no review is one no stage escalated.
LEMMA RouteStep ==
  ASSUME PublicationTypeOK, Gates, RouteReview
  PROVE  Gates'
<1>1. /\ at = "route" /\ decided = "none" /\ ~signed
      /\ decision' = PublicationStatus(verdict, packet, ReportBlocked, policy, readiness, social)
      /\ at' = IF ReviewRequired(decision') THEN "review" ELSE "finalize"
      /\ UNCHANGED <<packet, facts, ledger, social, proposed, verdict, policy, audit, readiness,
                     decided, signed>>
  BY DEF RouteReview, packetVars, argumentVars, judgmentVars, reviewVars, Gates, BeforeRoute,
         BeforePolicy
<1>2. decision' = "ready" =>
        /\ ~social.blocked /\ ~verdict.review /\ ~policy
        /\ readiness # "human_review_required" /\ ~social.review
  BY <1>1 DEF PublicationStatus
<1>3. decision' = "ready" => Backed
  BY <1>1, <1>2 DEF Gates, Backed, BeforePolicy
<1>4. Backed => Backed'
  BY <1>1 DEF Backed
<1>5. ~ReviewRequired(decision') =>
        /\ decision' = "ready" /\ ~facts.requested /\ ~Escalated
        /\ facts.requirement # "uncertain"
        /\ (facts.numeric \union facts.temporal) \intersect Unfinished = {}
        /\ verdict.label = proposed
  BY DEF ReviewRequired, RoutedToReview
<1>6. at' = "finalize" => Unescalated'
  BY <1>1, <1>5 DEF Unescalated, Escalated, Approved
<1>7. at' \in {"review", "finalize"}
  BY <1>1
<1> QED BY <1>1, <1>2, <1>3, <1>4, <1>6, <1>7 DEF Gates, BeforeRoute, BeforePolicy

\* The review: nothing but a revision changes the verdict, and a revision that
\* changes it is signed.
LEMMA DecideStep ==
  ASSUME PublicationTypeOK, Gates, NEW kind \in Kinds, NEW label, NEW approver,
         Decide(kind, label, approver)
  PROVE  Gates'
<1>1. /\ at = "review" /\ decided = "none" /\ decided' = kind
      /\ at' \in {"review", "approve_or_revise", "request_evidence", "reject"}
      /\ at' = "approve_or_revise" => signed'
      /\ UNCHANGED <<packet, facts, ledger, social, proposed, policy, audit, readiness, decision>>
  BY DEF Decide, packetVars, argumentVars
<1>2. ~signed' => UNCHANGED verdict
  BY DEF Decide
<1>3. decided' # "none"
  BY <1>1 DEF Kinds
<1>4. ~signed
  BY <1>1 DEF Gates
<1>5. CASE signed'
  BY <1>1, <1>3, <1>5 DEF Gates, BeforeRoute, BeforePolicy
<1>6. CASE ~signed'
  <2>1. Backed => Backed'
    BY <1>1, <1>2, <1>6 DEF Backed
  <2> QED BY <1>1, <1>2, <1>3, <1>4, <1>6, <2>1 DEF Gates, BeforeRoute, BeforePolicy
<1> QED BY <1>5, <1>6

\* Every step keeps the gates.
LEMMA GateStep ==
  ASSUME PublicationTypeOK, Gates, [Next]_vars
  PROVE  Gates'
<1> USE DEF packetVars, dispositionVars, argumentVars, judgmentVars, reviewVars
<1>1. CASE BuildArguments
  BY <1>1 DEF BuildArguments, Gates, BeforeRoute, BeforePolicy
<1>2. CASE Reconcile
  BY <1>2 DEF Reconcile, Gates, BeforeRoute, BeforePolicy
<1>3. ASSUME NEW v \in Drafts, Draft(v) PROVE Gates'
  BY <1>3 DEF Draft, Gates, BeforeRoute, BeforePolicy
<1>4. CASE ApplyPolicy
  BY <1>4, PolicyStep
<1>5. ASSUME NEW level \in {"full", "partial", "unsupported"}, NEW w \in Summaries,
             AuditCitations(level, w)
      PROVE  Gates'
  <2>1. verdict'.label = verdict.label /\ verdict'.review = verdict.review
    BY <1>5 DEF AuditCitations, PublicationTypeOK, Verdict
  <2> QED BY <1>5, <2>1 DEF AuditCitations, Gates, BeforeRoute, BeforePolicy
<1>6. CASE AssessReadiness
  <2>1. readiness' # "human_review_required" => audit = "full"
    BY <1>6 DEF AssessReadiness, Readiness
  <2> QED BY <1>6, <2>1 DEF AssessReadiness, Gates, BeforeRoute, BeforePolicy
<1>7. CASE RouteReview
  BY <1>7, RouteStep
<1>8. ASSUME NEW kind \in Kinds, NEW label \in NewLabels, NEW approver, Decide(kind, label, approver)
      PROVE  Gates'
  BY <1>8, DecideStep
<1>9. CASE ApproveOrRevise
  <2>1. at = "approve_or_revise" /\ signed /\ decided # "none" /\ at' = "finalize"
    BY <1>9 DEF ApproveOrRevise, Gates
  <2>2. decision' = "ready" => ~social.blocked
    BY <1>9 DEF ApproveOrRevise, Released, Gates
  <2> QED BY <1>9, <2>1, <2>2 DEF ApproveOrRevise, Gates, BeforeRoute, BeforePolicy
<1>10. CASE Rest
  <2>1. /\ at' \in {"complete", "cancelled", "sent_back"}
        /\ at' = "complete" => at = "finalize"
        /\ at \notin BeforeRoute
        /\ UNCHANGED <<packetVars, dispositionVars, argumentVars, judgmentVars, decision,
                       reviewVars>>
    BY <1>10 DEF Rest, BeforeRoute, BeforePolicy
  <2>2. (Backed => Backed') /\ (Unescalated => Unescalated')
    BY <2>1 DEF Backed, Unescalated, Approved
  <2> QED BY <2>1, <2>2 DEF Gates, BeforeRoute, BeforePolicy
<1>11. ASSUME NEW e \in Items, NEW use \in DisposedUses, RecordDisposition(e, use)
       PROVE  Gates'
  <2>1. UNCHANGED <<at, packetVars, argumentVars, judgmentVars, decision, reviewVars>>
    BY <1>11 DEF RecordDisposition
  <2>2. (Backed => Backed') /\ (Unescalated => Unescalated')
    BY <2>1 DEF Backed, Unescalated, Approved
  <2> QED BY <2>1, <2>2 DEF Gates
<1>12. CASE PolicyRaises
  BY <1>12 DEF PolicyRaises, Gates, BeforeRoute, BeforePolicy
<1>13. CASE UNCHANGED vars
  <2>1. UNCHANGED <<at, packetVars, argumentVars, judgmentVars, decision, reviewVars>>
    BY <1>13 DEF vars
  <2>2. (Backed => Backed') /\ (Unescalated => Unescalated')
    BY <2>1 DEF Backed, Unescalated, Approved
  <2> QED BY <2>1, <2>2 DEF Gates
<1> QED
  BY <1>1, <1>2, <1>3, <1>4, <1>5, <1>6, <1>7, <1>8, <1>9, <1>10, <1>11, <1>12, <1>13
  DEF Next, Node

LEMMA GatesAlways == Spec => []Gates
<1>1. Init => Gates
  BY DEF Init, Gates, BeforeRoute, BeforePolicy
<1>2. PublicationTypeOK /\ Gates /\ [Next]_vars => Gates'
  BY GateStep
<1> QED BY <1>1, <1>2, PublicationTypes, PTL DEF Spec

\* A report nobody signed is backed by the evidence, the challenges, the social
\* policy, the safeguards and the audit, for any evidence and any draft.
THEOREM UnsignedReportsAreBacked == Spec => []UnreviewedIsBacked
<1>1. Gates => UnreviewedIsBacked
  BY DEF Gates, UnreviewedIsBacked, Publishable, Backed
<1> QED BY <1>1, GatesAlways, PTL

\* No review lifts a social block, whatever is decided, revised or disposed.
THEOREM SocialBlockSurvivesReview == Spec => []SocialBlockHolds
<1>1. Gates => SocialBlockHolds
  BY DEF Gates, SocialBlockHolds, Publishable
<1> QED BY <1>1, GatesAlways, PTL

\* A thread completes without a person only if no stage asked for one.
THEOREM EscalationsAreReviewed == Spec => []EscalatedIsReviewed
<1>1. Gates => EscalatedIsReviewed
  BY DEF Gates, EscalatedIsReviewed, Unescalated
<1> QED BY <1>1, GatesAlways, PTL

\* Whatever is disposed and whenever, a published report rests on passages that
\* are usable at that moment.
THEOREM PublishedReportsCiteClean == Spec => []PublishedCitesClean
<1>1. PublicationTypeOK => PublishedCitesClean
  <2> SUFFICES ASSUME PublicationTypeOK, Publishable PROVE PublishedCitesClean
    BY DEF PublishedCitesClean
  <2>1. CurrentBlockers = {} /\ ~CurrentReportBlocked
    BY DEF Publishable, BlockedNow
  <2>2. ASSUME NEW e \in Items
        PROVE  /\ Current[e].hygiene = packet[e].hygiene
               /\ Current[e].use = IF latest[e] = "none" THEN packet[e].use ELSE latest[e]
    <3>1. packet[e] \in Evidence
      BY DEF PublicationTypeOK, Packet
    <3>2. CASE latest[e] = "none"
      <4>1. Current[e] = packet[e]
        BY <3>2 DEF Current, Effective
      <4> QED BY <3>2, <4>1
    <3>3. CASE latest[e] # "none"
      <4>1. Current[e] = [packet[e] EXCEPT !.use = latest[e]]
        BY <3>3 DEF Current, Effective
      <4> QED BY <3>1, <3>3, <4>1 DEF Evidence
    <3> QED BY <3>2, <3>3
  <2>4. ASSUME NEW e \in Items, ArgumentEligible(Current[e]) PROVE ~Unusable(e)
    BY <2>2, <2>4 DEF Unusable, ArgumentEligible, ExcludedUse
  <2>5. ASSUME NEW e \in verdict.decisive
        PROVE  ~Unusable(e) /\ (packet[e].use = "unspecified" => latest[e] # "none")
    <3>1. e \in Items
      BY DEF PublicationTypeOK, Verdict
    <3>2. ~Blocking(Current[e], TRUE)
      BY <2>1, <3>1 DEF CurrentBlockers
    <3> QED BY <2>2, <2>4, <3>1, <3>2 DEF Blocking, Unspecified
  <2>6. ASSUME NEW c \in Critical
        PROVE  /\ report[c].cited # {}
               /\ \A e \in report[c].cited : ~Unusable(e) /\ packet[e].hygiene = "clean"
    <3>1. c \in Clauses /\ report[c] \in Assertion
      BY PolicyAssumption DEF PublicationTypeOK
    <3>2. Supported(Reassessed(report, Current)[c], Current, CurrentCitable)
      BY <2>1, <3>1 DEF CurrentReportBlocked, AssuranceBlocked
    <3>3. Reassessed(report, Current)[c].cited = report[c].cited
      BY <3>1 DEF Reassessed, Assertion
    <3>4. report[c].cited # {} /\ report[c].cited \subseteq CurrentCitable
      BY <3>2, <3>3 DEF Supported
    <3>5. ASSUME NEW e \in CurrentCitable
          PROVE  ~Unusable(e) /\ packet[e].hygiene = "clean"
      <4>1. e \in Items /\ Current[e].hygiene = "clean" /\ ~ExcludedUse(Current[e])
        BY DEF CurrentCitable, CitationEligible
      <4>2. ArgumentEligible(Current[e])
        BY <4>1 DEF ArgumentEligible
      <4>3. packet[e].hygiene = Current[e].hygiene
        BY <2>2, <4>1
      <4> QED BY <2>4, <4>1, <4>2, <4>3
    <3> QED BY <3>4, <3>5
  <2> QED BY <2>5, <2>6 DEF PublishedCitesClean
<1> QED BY <1>1, PublicationTypes, PTL

\* A review that decides anew decides what the reader then gets.
THEOREM ReviewReleasesWhatIsPublishable == Spec => ReleasedIsPublishable
<1>1. ASSUME Gates, [Next]_vars, decided # "none", decision' # decision
      PROVE  (decision' = "ready") = Publishable'
  <2>1. ApproveOrRevise
    <3>1. at # "route"
      BY <1>1 DEF Gates, BeforeRoute, BeforePolicy
    <3> QED
      BY <1>1, <3>1 DEF Next, Node, BuildArguments, Reconcile, Draft, ApplyPolicy, PolicyRaises, AuditCitations,
         AssessReadiness, RouteReview, Decide, Rest, RecordDisposition, vars
  <2>2. at' = "finalize" /\ decision' = Released
        /\ UNCHANGED <<packet, latest, verdict, report>>
    BY <1>1, <2>1 DEF ApproveOrRevise, packetVars, dispositionVars, judgmentVars
  <2>3. BlockedNow' = BlockedNow
    BY <2>2 DEF BlockedNow, CurrentBlockers, CurrentReportBlocked, CurrentCitable, Current
  <2>4. Audited'
    BY <2>2 DEF Audited
  <2>5. decision' # "none"
    BY <2>2 DEF Released
  <2>6. decision' = "ready" => ~BlockedNow
    BY <2>2 DEF Released
  <2> QED BY <2>3, <2>4, <2>5, <2>6 DEF Publishable
<1> QED BY <1>1, GatesAlways, PTL DEF Spec, ReleasedIsPublishable
=============================================================================
