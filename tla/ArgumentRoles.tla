---------------------------- MODULE ArgumentRoles ----------------------------
(***************************************************************************)
(* The adversarial argument subgraph: a defender and a challenger build    *)
(* their positions concurrently from the approved evidence, each result is *)
(* stored as it comes, and the join rebuilds the ledger and compares it    *)
(* with the authoritative one.  The checkpoint and the table survive the   *)
(* process; a role that was under way leaves nothing behind.               *)
(***************************************************************************)
EXTENDS Integers

VARIABLES
  argument,  \* the stage of the argument checkpoint
  position,  \* the table of stored results, by role
  same       \* the reconciled ledger equals the authoritative one

argumentVars == <<argument, position, same>>

Sides == {"defender", "challenger"}

ArgumentInit ==
  /\ argument = "none" /\ position = [s \in Sides |-> "none"] /\ same = FALSE

\* The checkpoint of the two assignments; approved evidence is required.
PlanArguments(approved) ==
  /\ argument = "none" /\ approved
  /\ argument' = "planned" /\ UNCHANGED <<position, same>>

\* A stored result is returned as it is.  A worker that raises, answers for
\* another assignment or uses evidence outside its packet is stored as failed.
SettlePosition(s) ==
  /\ argument = "planned" /\ position[s] = "none"
  /\ \E outcome \in {"built", "failed"} : position' = [position EXCEPT ![s] = outcome]
  /\ UNCHANGED <<argument, same>>

JoinArguments ==
  /\ argument = "planned" /\ \A s \in Sides : position[s] # "none"
  /\ argument' = "argued" /\ UNCHANGED <<position, same>>

\* The ledger is rebuilt from the evidence in the checkpoint.
ReconcileLedger ==
  /\ argument = "argued" /\ argument' = "reconciled"
  /\ same' \in BOOLEAN
  /\ UNCHANGED position

BothBuilt == \A s \in Sides : position[s] = "built"
ArgumentNeedsReview == ~BothBuilt \/ ~same

ArgumentNext(approved) ==
  \/ PlanArguments(approved) \/ JoinArguments \/ ReconcileLedger
  \/ \E s \in Sides : SettlePosition(s)

ArgumentTypeOK ==
  /\ argument \in {"none", "planned", "argued", "reconciled"}
  /\ position \in [Sides -> {"none", "built", "failed"}]
  /\ same \in BOOLEAN
=============================================================================
