-------------------------- MODULE MCPaidOperations --------------------------
(***************************************************************************)
(* PaidOperations on small instances: three processes, two of which run    *)
(* under the same worker identity, on a model call and a search.           *)
(***************************************************************************)
EXTENDS PaidOperations

CONSTANTS p1, p2, p3, w1, w2

MCIdentity == [p \in Processes |-> IF p = p3 THEN w2 ELSE w1]
=============================================================================
