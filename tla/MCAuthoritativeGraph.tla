------------------------ MODULE MCAuthoritativeGraph ------------------------
(***************************************************************************)
(* AuthoritativeGraph on small instances: one decision of each kind.       *)
(***************************************************************************)
EXTENDS AuthoritativeGraph, TLC

MCKind == [d \in Decisions |-> d]

RequestSymmetry == Permutations(Requests)
=============================================================================
