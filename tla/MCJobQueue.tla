---------------------------- MODULE MCJobQueue ----------------------------
(***************************************************************************)
(* JobQueue on small instances.  One job has the higher priority and the   *)
(* provider that allows one active job; the others share a provider.       *)
(***************************************************************************)
EXTENDS JobQueue, TLC

CONSTANTS j1, j2, j3, search, academic

MCProviderOf == (j1 :> academic) @@ [j \in Jobs \ {j1} |-> search]
MCPriority == (j1 :> 1) @@ [j \in Jobs \ {j1} |-> 2]
MCMaxAttempts == (j1 :> 1) @@ [j \in Jobs \ {j1} |-> 2]
MCProviderLimit == (academic :> 1) @@ (search :> 1)
WideProviderLimit == (academic :> 2) @@ (search :> 2)

\* Bound: paid operations are reserved only while one job is known.  Receipts
\* decide nothing in the queue.
OneReserves ==
  (\E j \in Jobs, o \in Operations : receipt[j][o] # "none")
    => Cardinality(Enqueued) = 1

WorkerSymmetry == Permutations(Workers)
=============================================================================
