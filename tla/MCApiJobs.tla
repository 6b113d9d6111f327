----------------------------- MODULE MCApiJobs -----------------------------
(***************************************************************************)
(* ApiJobs with the admission policy of api_server.py, scaled down: one    *)
(* active job and one provider, and two attempts for every job.            *)
(***************************************************************************)
EXTENDS ApiJobs, TLC

CONSTANT search

MCProviderOf == [j \in Jobs |-> search]
MCPriority == [j \in Jobs |-> 1]
MCMaxAttempts == [j \in Jobs |-> 2]
MCProviderLimit == (search :> 1)
=============================================================================
