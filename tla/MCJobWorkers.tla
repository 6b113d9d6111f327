---------------------------- MODULE MCJobWorkers ----------------------------
(***************************************************************************)
(* JobWorkers on small instances: all jobs share one provider and one      *)
(* priority, and each may be attempted twice.                              *)
(***************************************************************************)
EXTENDS JobWorkers, TLC

CONSTANTS search

MCProviderOf == [j \in Jobs |-> search]
MCPriority == [j \in Jobs |-> 1]
MCMaxAttempts == [j \in Jobs |-> 2]
MCProviderLimit == (search :> 2)

WorkerSymmetry == Permutations(Workers)
=============================================================================
