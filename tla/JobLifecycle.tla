---------------------------- MODULE JobLifecycle ----------------------------
(***************************************************************************)
(* What the durable queue promises its clients, without leases, attempts,  *)
(* providers or time: a submitted job waits, works in one of MaxActive     *)
(* slots, may park for a human review, and settles once with an outcome.   *)
(***************************************************************************)
EXTENDS Integers, FiniteSets

CONSTANTS Jobs, MaxActive

VARIABLE phase

Outcomes == {"cancelled", "completed", "failed", "dead_letter"}
Phases   == {"absent", "waiting", "working", "interrupted"} \union Outcomes

In(p) == {j \in Jobs : phase[j] = p}

Move(j, from, to) == phase[j] = from /\ phase' = [phase EXCEPT ![j] = to]

Init == phase = [j \in Jobs |-> "absent"]

Submit(j) == Move(j, "absent", "waiting")

Start(j) == Cardinality(In("working")) < MaxActive /\ Move(j, "waiting", "working")

Withdraw(j) == Move(j, "waiting", "cancelled")

Park(j) == Move(j, "working", "interrupted")

\* A review lets the job wait for another attempt, completes it or cancels it.
Review(j) == \E to \in {"waiting", "completed", "cancelled"} : Move(j, "interrupted", to)

\* An attempt ends with an outcome, or the job waits for the next one.
Stop(j) == \E to \in {"waiting"} \union Outcomes : Move(j, "working", to)

\* The attempts of several lost workers end in one step, none with a result.
Abandon(S) ==
  /\ S \subseteq In("working")
  /\ phase' \in [Jobs -> Phases]
  /\ \A j \in S : phase'[j] \in {"waiting", "cancelled", "dead_letter"}
  /\ \A j \in Jobs \ S : phase'[j] = phase[j]

Next ==
  \/ \E j \in Jobs : Submit(j) \/ Start(j) \/ Withdraw(j) \/ Park(j) \/ Review(j) \/ Stop(j)
  \/ \E S \in SUBSET Jobs : Abandon(S)

Spec == Init /\ [][Next]_phase
=============================================================================
