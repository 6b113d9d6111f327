-------------------------- MODULE EvidencePipeline --------------------------
(***************************************************************************)
(* From the research node of the authoritative graph to the edge that      *)
(* leads to a person or to the report, with the two subgraphs that run     *)
(* inside its nodes.  A node runs again from its start until its           *)
(* checkpoint is written, which the subgraphs' own checkpoints make        *)
(* repeatable.  The nodes between them that neither touch these variables  *)
(* nor stop the graph are left out.                                        *)
(***************************************************************************)
EXTENDS ResearchRounds, ArgumentRoles

VARIABLES
  node,      \* the node that runs next
  approved,  \* some evidence may be argued with
  reported,  \* the graph carries the report of the argument subgraph
  flagged,   \* review_required of the graph state
  refused    \* the graph state has refused what the research consumed

graphState == <<node, approved, reported, flagged, refused>>
pipelineVars == <<researchVars, argumentVars, graphState>>

PipelineInit ==
  /\ ResearchInit /\ ArgumentInit
  /\ node = "research" /\ approved = FALSE /\ reported = FALSE /\ flagged = FALSE
  /\ refused = FALSE

\* What the roles of the last round searched or asked a model may be over the
\* limit: the controller compares before it plans a round, not after.
Overdrawn == Spent("searches") > MaxSearches \/ Spent("models") > MaxModels

\* research: the report of the finished rounds sets the flag.  The state of the
\* graph holds no consumption over the budget: the node's checkpoint raises, now
\* and each time the thread is resumed.  It also counts durations, tokens and
\* costs, which may be over theirs in any run.
ResearchNode ==
  /\ node = "research" /\ ~refused
  /\ \/ ResearchNext /\ UNCHANGED graphState
     \/ /\ stage = "complete" /\ ~Overdrawn
        /\ node' = "consolidate" /\ flagged' = ResearchNeedsReview
        /\ UNCHANGED <<approved, reported, refused, researchVars>>
     \/ /\ stage = "complete" /\ refused' = TRUE
        /\ UNCHANGED <<node, approved, reported, flagged, researchVars>>
  /\ UNCHANGED argumentVars

\* consolidate: the evidence that may be argued with is approved.
ConsolidateNode ==
  /\ node = "consolidate" /\ node' = "defender"
  /\ approved' \in {FALSE, kept # {}}
  /\ UNCHANGED <<reported, flagged, refused, researchVars, argumentVars>>

\* Mutant of DefenderNode: the report of the subgraph replaces the flag.
DefenderNodeForgets ==
  /\ node = "defender"
  /\ \/ approved /\ ArgumentNext(approved) /\ UNCHANGED graphState
     \/ /\ approved => argument = "reconciled"
        /\ node' = "reconcile" /\ reported' = approved
        /\ flagged' = (~approved \/ ArgumentNeedsReview)
        /\ UNCHANGED <<approved, refused, argumentVars>>
  /\ UNCHANGED researchVars

\* defender runs the whole subgraph; without approved evidence it runs nothing
\* and asks for a person.
DefenderNode ==
  /\ node = "defender"
  /\ \/ approved /\ ArgumentNext(approved) /\ UNCHANGED graphState
     \/ /\ approved => argument = "reconciled"
        /\ node' = "reconcile" /\ reported' = approved
        /\ flagged' = (flagged \/ ~approved \/ ArgumentNeedsReview)
        /\ UNCHANGED <<approved, refused, argumentVars>>
  /\ UNCHANGED researchVars

\* reconcile refuses the report of a failed role or of another ledger: the node
\* raises, now and each time the thread is resumed.
ReconcileRaises == node = "reconcile" /\ reported /\ ArgumentNeedsReview

ReconcileNode ==
  /\ node = "reconcile" /\ ~ReconcileRaises
  /\ node' = "route"
  /\ UNCHANGED <<approved, reported, flagged, refused, researchVars, argumentVars>>

\* route: the flag, the policies of the publication and the routing, or the
\* caller's request for a review lead to a person.
RouteNode ==
  /\ node = "route"
  /\ \E policies \in BOOLEAN :
       /\ flagged' = (flagged \/ policies)
       /\ node' = IF flagged' THEN "review" ELSE "finalize"
  /\ UNCHANGED <<approved, reported, refused, researchVars, argumentVars>>

PipelineNext == ResearchNode \/ ConsolidateNode \/ DefenderNode \/ ReconcileNode \/ RouteNode

PipelineSpec == PipelineInit /\ [][PipelineNext]_pipelineVars /\ WF_pipelineVars(PipelineNext)

-----------------------------------------------------------------------------
\* The variables of the subgraphs and of the graph hold values of their types.
PipelineTypeOK ==
  /\ ResearchTypeOK /\ ArgumentTypeOK
  /\ node \in {"research", "consolidate", "defender", "reconcile", "route", "review", "finalize"}
  /\ approved \in BOOLEAN /\ reported \in BOOLEAN /\ flagged \in BOOLEAN
  /\ refused \in BOOLEAN

\* Nothing unsettled is finalized without a person: the graph goes to the
\* report by itself only when the research met every requirement, there was
\* evidence to argue with, and both positions were built on one ledger.
Escalated ==
  node = "finalize" =>
    /\ decision = "sufficient" /\ approved
    /\ BothBuilt /\ same

\* The graph gets to a person or to the report, or a node raises, whatever the
\* roles return and wherever the process dies.
PipelineEnds ==
  <>(node \in {"review", "finalize"} \/ raised \/ refused \/ ReconcileRaises)
=============================================================================
