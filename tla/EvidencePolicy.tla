--------------------------- MODULE EvidencePolicy ---------------------------
(***************************************************************************)
(* The deterministic policies over one evidence packet: evidence           *)
(* integrity, dispositions, the argument ledger, the social evidence       *)
(* policy, the judgment policy, citation assurance, readiness, review      *)
(* routing and the publication decision.  No state: every operator is a    *)
(* function of the artifacts it is given.                                  *)
(*                                                                         *)
(* Items are the stored positions of the evidence of one claim.  A text is *)
(* a clause of the report: the items whose passage holds its phrase and    *)
(* whether it has a qualification marker.  Overlap ranks the passages by   *)
(* the words they share with the report.                                   *)
(***************************************************************************)
EXTENDS Integers, FiniteSets

CONSTANTS
  Items,     \* the evidence of the claim, by position
  Clauses,   \* the material clauses of the report
  Critical,  \* the clauses of the verdict summary
  Overlap    \* Items -> Nat

ASSUME PolicyAssumption ==
  /\ Items \subseteq Nat /\ IsFiniteSet(Items)
  /\ IsFiniteSet(Clauses) /\ Critical \subseteq Clauses /\ Critical # {}
  /\ Overlap \in [Items -> Nat]

Stances == {"supports", "contradicts", "qualifies", "context", "irrelevant"}
PermittedUses == {"decisive", "qualified_observation", "attributed_statement", "context"}
Uses == PermittedUses \union {"unspecified", "discovery_lead", "excluded"}
Labels == {"supported", "mostly_supported", "mixed", "misleading", "outdated",
           "unsupported", "contradicted", "unverifiable"}
Outcomes == {"verified", "contradicted", "qualified", "insufficient", "not_applicable", "error"}

Source == [social : BOOLEAN, eligible : BOOLEAN, uses : SUBSET Uses, decides : BOOLEAN]
Evidence == [stance : Stances, relevant : BOOLEAN, hedged : BOOLEAN,
             hygiene : {"clean", "caution", "contaminated"}, use : Uses, source : Source]
Packet == [Items -> Evidence]

Text == [words : SUBSET Items, marked : BOOLEAN]
Assertion == [text : Text, cited : SUBSET Items, stance : Stances]
Verdict == [label : Labels, decisive : SUBSET Items, contrary : SUBSET Items,
            review : BOOLEAN, questions : BOOLEAN, text : [Clauses -> Text]]

\* What research, provenance and verification found besides the passages, and
\* whether the workflow requires a review of every claim.
Facts == [numeric : SUBSET Outcomes, temporal : SUBSET Outcomes,
          requirement : {"met", "not_met", "uncertain"}, openDependencies : BOOLEAN,
          unknownQuality : BOOLEAN, socialRisk : SUBSET {"caution", "blocking"},
          absolute : BOOLEAN, sweeping : BOOLEAN, independent : BOOLEAN,
          contextChecked : BOOLEAN, escalated : BOOLEAN, requested : BOOLEAN]

Resolutions == {"supported", "contradicted", "qualified", "unresolved"}
Severities == {"caution", "material", "blocking"}
Ledger == [resolution : Resolutions, supporting : SUBSET Items, contradictory : SUBSET Items,
           qualifying : SUBSET Items, contextual : SUBSET Items, findings : SUBSET Severities]

-----------------------------------------------------------------------------
(* Evidence integrity and dispositions.                                    *)

ExcludedUse(x) == x.use \in {"excluded", "discovery_lead"}
ArgumentEligible(x) == x.hygiene # "contaminated" /\ ~ExcludedUse(x)
Unspecified(x, decisive) == decisive /\ x.use = "unspecified"
CitationEligible(x, decisive) ==
  x.hygiene = "clean" /\ ~ExcludedUse(x) /\ ~Unspecified(x, decisive)
Blocking(x, decisive) == decisive /\ (~ArgumentEligible(x) \/ Unspecified(x, decisive))
NeedsReview(x, decisive) == x.hygiene # "clean" \/ Unspecified(x, decisive)

\* Mutant of Effective: the stored uses stand, whatever was disposed.
EffectiveAsStored(packet, latest) == packet

\* Effective copies of the evidence under the latest disposition of each item:
\* the approved use, or excluded.
Effective(packet, latest) ==
  [e \in Items |-> IF latest[e] = "none" THEN packet[e]
                   ELSE [packet[e] EXCEPT !.use = latest[e]]]

-----------------------------------------------------------------------------
(* The argument ledger.                                                    *)

Unfinished == {"insufficient", "error"}

ResolutionOf(supports, contradicts, qualifies, outcomes) ==
  IF "contradicted" \in outcomes THEN "contradicted"
  ELSE IF outcomes \intersect {"qualified", "error"} # {} THEN "qualified"
  ELSE IF contradicts # {} /\ supports = {} THEN "contradicted"
  ELSE IF qualifies # {} \/ contradicts # {} THEN "qualified"
  ELSE IF supports # {} THEN "supported"
  ELSE "unresolved"

\* The severities of the challenges to the only proposition of the claim.
Challenges(supports, contradicts, qualifies, facts) ==
  (IF facts.absolute /\ qualifies # {} THEN {"material"} ELSE {}) \union
  (IF facts.sweeping THEN {"caution"} ELSE {}) \union
  (IF supports \union contradicts \union qualifies = {} THEN {"blocking"}
   ELSE IF contradicts \union qualifies = {} THEN {"caution"} ELSE {}) \union
  (IF facts.numeric \intersect Unfinished # {} THEN {"blocking"} ELSE {}) \union
  (IF facts.temporal \intersect (Unfinished \union {"contradicted"}) # {}
   THEN {"blocking"} ELSE {}) \union
  (IF facts.requirement # "met" THEN {"material"} ELSE {})

BuildLedger(packet, facts) ==
  LET usable == {e \in Items : ArgumentEligible(packet[e]) /\ packet[e].relevant}
      Of(stance) == {e \in usable : packet[e].stance = stance}
  IN [resolution |-> ResolutionOf(Of("supports"), Of("contradicts"), Of("qualifies"),
                                  facts.numeric \union facts.temporal),
      supporting |-> Of("supports"), contradictory |-> Of("contradicts"),
      qualifying |-> Of("qualifies"), contextual |-> Of("context"),
      findings |-> Challenges(Of("supports"), Of("contradicts"), Of("qualifies"), facts)]

-----------------------------------------------------------------------------
(* The social evidence policy.                                             *)

Referenced(ledger) ==
  ledger.supporting \union ledger.contradictory \union ledger.qualifying \union ledger.contextual
Decides(ledger) ==
  IF ledger.resolution = "supported" THEN ledger.supporting
  ELSE IF ledger.resolution = "contradicted" THEN ledger.contradictory ELSE {}

SocialBlocked(packet, ledger) ==
  LET Social(S) == {e \in S : packet[e].source.social}
      used == Social(Referenced(ledger))
      decisive == Decides(ledger)
  IN \/ \E e \in used : \/ ~packet[e].source.eligible
                        \/ packet[e].use = "unspecified"
                        \/ packet[e].use \notin packet[e].source.uses
     \/ /\ Referenced(ledger) \subseteq used
        /\ \E e \in Social(Items) \ used :
             ~packet[e].source.eligible
               /\ packet[e].stance \in {"supports", "contradicts", "qualifies"}
     \/ Social(decisive) # {} /\ decisive \subseteq used

SocialPolicy(packet, ledger, facts) ==
  [blocked |-> SocialBlocked(packet, ledger),
   review  |-> \/ SocialBlocked(packet, ledger)
               \/ \E e \in Decides(ledger) :
                    packet[e].source.social /\ ~packet[e].source.decides
               \/ facts.socialRisk # {}]

-----------------------------------------------------------------------------
(* The judgment policy.                                                    *)

AllowedLabels(resolution) ==
  CASE resolution = "supported"    -> {"supported"}
    [] resolution = "contradicted" -> {"contradicted", "outdated", "misleading"}
    [] resolution = "qualified"    -> {"mixed", "misleading"}
    [] resolution = "unresolved"   -> {"unsupported", "unverifiable"}
\* Mutant of DefaultLabel: the resolution is taken for the label.
ResolutionAsLabel(resolution) == resolution

DefaultLabel(resolution) ==
  CASE resolution = "supported"    -> "supported"
    [] resolution = "contradicted" -> "contradicted"
    [] resolution = "qualified"    -> "mixed"
    [] resolution = "unresolved"   -> "unverifiable"

Standard == [words |-> {}, marked |-> FALSE]

Safeguarded(verdict, facts) ==
  [verdict EXCEPT !.review = @ \/ ~facts.independent \/ ~facts.contextChecked]

\* Every usable passage contradicts and the label says it cannot be known: the
\* summary becomes a standard sentence, which no passage holds.
LabelConsistent(verdict, packet, approved) ==
  LET usable == {e \in approved : packet[e].relevant /\ packet[e].stance # "irrelevant"}
  IN IF /\ usable # {} /\ verdict.label \in {"unsupported", "unverifiable"}
        /\ \A e \in usable : packet[e].stance = "contradicts"
     THEN [verdict EXCEPT !.label = "contradicted", !.contrary = usable, !.review = TRUE,
             !.text = [c \in Clauses |-> IF c \in Critical THEN Standard ELSE @[c]]]
     ELSE verdict

\* Mutant of PolicyReview: a label outside the allowed ones asks for no review.
PolicyReviewLenient(verdict, ledger, social) ==
  verdict.review \/ "blocking" \in ledger.findings \/ social.review

\* human_review_required of the policy trace.
PolicyReview(verdict, ledger, social) ==
  \/ verdict.review
  \/ verdict.label \notin AllowedLabels(ledger.resolution)
  \/ "blocking" \in ledger.findings
  \/ social.review

\* The label of the policy candidate.
Candidate(verdict, ledger) ==
  IF verdict.label \in AllowedLabels(ledger.resolution) THEN verdict.label
  ELSE DefaultLabel(ledger.resolution)

\* The policy candidate replaces the verdict only under social review.
Enforced(verdict, ledger, social) ==
  IF ~social.review THEN verdict
  ELSE [verdict EXCEPT !.review = TRUE, !.label = Candidate(verdict, ledger)]

-----------------------------------------------------------------------------
(* Full-report citation assurance.                                         *)

VerdictStance(label) ==
  IF label \in {"supported", "mostly_supported"} THEN "supports"
  ELSE IF label \in {"contradicted", "unsupported"} THEN "contradicts"
  ELSE IF label \in {"mixed", "misleading", "outdated"} THEN "qualifies"
  ELSE "context"

First(S) == CHOOSE e \in S : \A f \in S : e <= f
Nearest(S) == CHOOSE e \in S : \A f \in S : Overlap[f] <= Overlap[e]

AssertionStance(text, records, packet, fallback) ==
  IF text.marked THEN "qualifies"
  ELSE IF records = {} THEN fallback ELSE packet[Nearest(records)].stance

MaterialAssertion(text, verdict, packet, records) ==
  LET candidates == (verdict.decisive \union verdict.contrary) \intersect records
  IN [text |-> text, cited |-> text.words \intersect candidates,
      stance |-> AssertionStance(text, candidates, packet, VerdictStance(verdict.label))]

\* The exact-citation audit of one assertion: its phrase is in every passage it
\* cites, so a cited approved passage of its stance decides.
Supported(a, packet, approved) ==
  a.cited # {} /\ a.cited \subseteq approved /\ \E e \in a.cited : packet[e].stance = a.stance

\* A failed assertion is narrowed to an excerpt of an approved passage of its
\* stance.  A second attempt has nothing left to change.
Revised(a, packet, records) ==
  LET candidates == {e \in records : packet[e].stance = a.stance}
      cited == candidates \intersect a.cited
      e == First(IF cited # {} THEN cited ELSE candidates)
  IN IF candidates = {} THEN a
     ELSE [a EXCEPT !.text = [words |-> {e}, marked |-> packet[e].hedged], !.cited = {e}]

\* The records the report may cite: approved and clean, under their stored use.
Citable(verdict, packet, approved) ==
  {e \in approved : CitationEligible(packet[e], e \in verdict.decisive \union verdict.contrary)}

FullReport(verdict, packet, approved) ==
  LET records == Citable(verdict, packet, approved)
      Original(c) == MaterialAssertion(verdict.text[c], verdict, packet, records)
  IN [c \in Clauses |-> IF Supported(Original(c), packet, records) THEN Original(c)
                        ELSE Revised(Original(c), packet, records)]

\* The stance of every clause is inferred anew, from the passages it cites.
Reassessed(report, packet) ==
  [c \in Clauses |-> [report[c] EXCEPT
     !.stance = AssertionStance(report[c].text, report[c].cited, packet, @)]]

\* publication_status is blocked: a critical clause fails, or fewer than 95%.
AssuranceBlocked(report, packet, approved) ==
  LET good == {c \in Clauses : Supported(report[c], packet, approved)}
  IN ~(Critical \subseteq good) \/ 100 * Cardinality(good) < 95 * Cardinality(Clauses)

-----------------------------------------------------------------------------
(* Readiness, review routing and the publication decision.                 *)

Readiness(ledger, facts, audit, questions, social) ==
  IF \/ ledger.resolution = "unresolved"
     \/ (facts.numeric \union facts.temporal) \intersect Unfinished # {}
     \/ audit # "full"
     \/ "blocking" \in ledger.findings
     \/ "blocking" \in facts.socialRisk
     \/ social.blocked
  THEN "human_review_required"
  ELSE IF \/ ledger.resolution = "qualified"
          \/ facts.requirement # "met" \/ facts.openDependencies
          \/ ledger.findings # {} \/ facts.unknownQuality
          \/ facts.socialRisk # {} \/ social.review \/ questions
  THEN "qualified" ELSE "ready"

\* At least one trigger of route_human_review, at medium risk.
RoutedToReview(failing, readiness, facts, relabelled, policyReview, ledger, requested) ==
  \/ failing
  \/ (facts.numeric \union facts.temporal) \intersect Unfinished # {}
  \/ readiness = "human_review_required"
  \/ facts.requirement = "uncertain"
  \/ relabelled \/ policyReview
  \/ "blocking" \in ledger.findings
  \/ requested

PublicationStatus(verdict, packet, assuranceBlocked, policyReview, readiness, social) ==
  IF \/ \E e \in Items : Blocking(packet[e], e \in verdict.decisive)
     \/ social.blocked \/ assuranceBlocked
  THEN "blocked"
  ELSE IF \/ verdict.review \/ policyReview \/ readiness = "human_review_required"
          \/ social.review
          \/ \E e \in Items : NeedsReview(packet[e], e \in verdict.decisive)
  THEN "review_required" ELSE "ready"
=============================================================================
